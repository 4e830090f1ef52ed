----------------------------- MODULE RuleEngine -----------------------------
(***************************************************************************)
(* The rule engine: internal/rule.  Telemetry workers evaluate the rules a *)
(* point matches: under the engine's mutex the point joins the rule's      *)
(* buffer, and the rest (aggregate, record, cooldown, actions) runs        *)
(* outside it, the cooldown map being read and written without a lock.     *)
(* Requests create, patch and delete rules meanwhile.                      *)
(*                                                                         *)
(* Abstractions.  A point's value is high or low, on the two sides of the  *)
(* threshold.  Only points a rule's device and property let through are    *)
(* modelled, and a rule's window is Window.  A listing is evaluated in any *)
(* order (by creation time in the code).  Actions are published to a bus   *)
(* nobody subscribes to them on, so Fire stands for all of them.           *)
(*                                                                         *)
(* Definitions named M_... are plausible bugs; each must break a property. *)
(***************************************************************************)
EXTENDS Integers, Sequences, FiniteSets

CONSTANTS
    Workers,        \* telemetry workers (cfg.Telemetry.WorkerCount)
    Admins,         \* concurrent requests that change rules
    RuleIds,
    Kinds,          \* the aggregates rules are created with
    Samples,        \* the MinSamples they are created with
    Cooldowns,
    Window,
    BufferLimit,    \* 1000 in the code
    Drivers,        \* the storage drivers configured
    MaxTime,        \* BOUND: the clock stops here
    MaxPoints,      \* BOUND: points evaluated
    MaxRequests,    \* BOUND: updates and deletions
    None

Aggregates == {"avg", "min", "max", "sum", "count", "last"}

Time == 0 .. MaxTime
Points == [at : Time, high : BOOLEAN]
Rule == [enabled : BOOLEAN, kind : Kinds, minSamples : Samples, cooldown : Cooldowns]

ASSUME RuleAssumption ==
    /\ Window \in Nat /\ MaxTime \in Nat /\ MaxPoints \in Nat /\ MaxRequests \in Nat
    /\ BufferLimit \in Nat \ {0}
    /\ Samples \subseteq Nat \ {0} /\ Cooldowns \subseteq Nat
    /\ Drivers \subseteq {"memory", "postgres"}
    /\ None \notin Rule \cup Int \cup BOOLEAN

VARIABLES
    driver,         \* cfg.Storage.Driver
    now,
    rules,          \* the repository's rules
    buffers,        \* engine: the points of each rule's window
    cooldown,       \* engine: when each rule last fired
    work,           \* where each worker's evaluation is
    admin,          \* where each request is
    points,         \* points evaluated so far
    created,        \* rules ever created
    requests,       \* updates and deletions so far
    last,           \* history: the latest time each rule fired at
    early,          \* history: the firings within the cooldown of an earlier one
    silenced        \* history: rules disabled or deleted undisturbed

engine == <<buffers, cooldown>>
histories == <<last, early>>
vars == <<driver, now, rules, engine, work, admin, points, created, requests,
          histories, silenced>>

Idle == [op |-> "idle"]

Init ==
    /\ driver \in Drivers
    /\ now = 0
    /\ rules = [r \in RuleIds |-> None]
    /\ buffers = [r \in RuleIds |-> << >>]
    /\ cooldown = [r \in RuleIds |-> None]
    /\ work = [w \in Workers |-> Idle]
    /\ admin = [a \in Admins |-> Idle]
    /\ points = 0
    /\ requests = 0
    /\ created = {}
    /\ last = [r \in RuleIds |-> None]
    /\ early = {}
    /\ silenced = {}

Tick ==
    /\ now < MaxTime
    /\ now' = now + 1
    /\ UNCHANGED <<driver, rules, engine, work, admin, points, created, requests,
                   histories, silenced>>

-----------------------------------------------------------------------------
(* Rules.  `alone' says that no other request for the rule was under way   *)
(* since this one began.                                                   *)

Holders(r) == {a \in Admins : admin[a] # Idle /\ admin[a].id = r}

Begin(a, op, r, copy) ==
    admin' = [b \in Admins |->
        IF b = a THEN [op |-> op, id |-> r, copy |-> copy, alone |-> Holders(r) = {}]
        ELSE IF b \in Holders(r) THEN [admin[b] EXCEPT !.alone = FALSE]
        ELSE admin[b]]

EndRequest(a) == admin' = [admin EXCEPT ![a] = Idle]

CreateRule(a, r, rule) ==
    /\ admin[a] = Idle
    /\ r \notin created
    /\ created' = created \cup {r}
    /\ rules' = [rules EXCEPT ![r] = rule]
    /\ UNCHANGED <<driver, now, engine, work, admin, points, requests, histories, silenced>>

\* A patch says whether the rule is enabled, or nothing; its cooldown is
\* always written (0 when the request names none).
Patch == [enabled : BOOLEAN \cup {None}, cooldown : Cooldowns]

M_Patched(rule, patch) ==
    [rule EXCEPT !.enabled = patch.enabled # FALSE, !.cooldown = patch.cooldown]

Patched(rule, patch) ==
    [rule EXCEPT !.enabled = IF patch.enabled = None THEN @ ELSE patch.enabled,
                 !.cooldown = patch.cooldown]

UpdateLoad(a, r, patch) ==
    /\ admin[a] = Idle
    /\ rules[r] # None
    /\ Begin(a, "update", r, Patched(rules[r], patch))
    /\ requests < MaxRequests
    /\ requests' = requests + 1
    /\ silenced' = IF patch.enabled = TRUE THEN silenced \ {r} ELSE silenced
    /\ UNCHANGED <<driver, now, rules, engine, work, points, created, histories>>

\* SaveRule inserts the row if a deletion removed it meanwhile.
UpdateSave(a) ==
    LET r == admin[a].id
    IN  /\ admin[a].op = "update"
        /\ rules' = [rules EXCEPT ![r] = admin[a].copy]
        /\ EndRequest(a)
        /\ silenced' = IF admin[a].alone /\ ~admin[a].copy.enabled
                       THEN silenced \cup {r} ELSE silenced
        /\ UNCHANGED <<driver, now, engine, work, points, created, requests, histories>>

DeleteRow(a, r) ==
    /\ admin[a] = Idle
    /\ r \in created
    /\ driver = "memory" => rules[r] # None
    /\ rules' = [rules EXCEPT ![r] = None]
    /\ Begin(a, "delete", r, None)
    /\ requests < MaxRequests
    /\ requests' = requests + 1
    /\ UNCHANGED <<driver, now, engine, work, points, created, histories, silenced>>

DeleteState(a) ==
    LET r == admin[a].id
    IN  /\ admin[a].op = "delete"
        /\ buffers' = [buffers EXCEPT ![r] = << >>]
        /\ cooldown' = [cooldown EXCEPT ![r] = None]
        /\ EndRequest(a)
        /\ silenced' = IF admin[a].alone THEN silenced \cup {r} ELSE silenced
        /\ UNCHANGED <<driver, now, rules, work, points, created, requests, histories>>

\* PostgreSQL fails a write before or after it took effect.  (A creation that
\* fails leaves what CreateRule leaves, or nothing.)
UpdateSaveFails(a) ==
    /\ driver = "postgres"
    /\ admin[a].op = "update"
    /\ rules' \in {rules, [rules EXCEPT ![admin[a].id] = admin[a].copy]}
    /\ EndRequest(a)
    /\ UNCHANGED <<driver, now, engine, work, points, created, requests,
                   histories, silenced>>

DeleteRowFails(a, r) ==
    /\ driver = "postgres"
    /\ admin[a] = Idle
    /\ r \in created
    /\ rules' = [rules EXCEPT ![r] = None]
    /\ requests < MaxRequests
    /\ requests' = requests + 1
    /\ UNCHANGED <<driver, now, engine, work, admin, points, created, histories, silenced>>

\* Invalid requests and unknown rules.
Refused(a) ==
    /\ admin[a] = Idle
    /\ UNCHANGED vars

-----------------------------------------------------------------------------
(* Evaluation of a point *)

Listed == {r \in RuleIds : rules[r] # None /\ rules[r].enabled}

Evaluation(point, todo) ==
    IF todo = {} THEN Idle ELSE [op |-> "evaluate", point |-> point, todo |-> todo]

Proceed(w, state) == work' = [work EXCEPT ![w] = state]

\* What is left of the listing after the rule under evaluation.
NextRule(w) == Proceed(w, Evaluation(work[w].point, work[w].todo))

\* HandleTelemetry's listing: the rules are copies from here on.
List(w, at, high) ==
    /\ work[w] = Idle
    /\ Listed # {} => points < MaxPoints
    /\ points' = IF Listed = {} THEN points ELSE points + 1
    /\ Proceed(w, Evaluation([at |-> at, high |-> high],
                             {<<r, rules[r]>> : r \in Listed}))
    /\ UNCHANGED <<driver, now, rules, engine, admin, created, requests, histories, silenced>>

Fresh(point) == point.at >= now - Window

M_Kept(buffer) == {SubSeq(buffer, i + 1, Len(buffer)) : i \in 0 .. Len(buffer)}

\* prunePoints: sort.Search answers some index between a stale and a fresh
\* point, or an end; on a buffer in time order that index is unique.
Kept(buffer) ==
    {SubSeq(buffer, i + 1, Len(buffer)) :
        i \in {j \in 0 .. Len(buffer) :
                 /\ j > 0 => ~Fresh(buffer[j])
                 /\ j < Len(buffer) => Fresh(buffer[j + 1])}}

Capped(buffer) ==
    IF Len(buffer) <= BufferLimit THEN buffer
    ELSE SubSeq(buffer, Len(buffer) - BufferLimit + 1, Len(buffer))

\* aggregate and compare, for low = 0, high = 1 and "greater than 1/2".
Triggered(inputs, kind) ==
    LET highs == Cardinality({i \in DOMAIN inputs : inputs[i].high})
    IN  CASE kind = "avg" -> 2 * highs > Len(inputs)
          [] kind = "min" -> highs = Len(inputs)
          [] kind = "max" -> highs > 0
          [] kind = "sum" -> highs > 0
          [] kind = "count" -> TRUE
          [] kind = "last" -> inputs[Len(inputs)].high

\* The step under the mutex, and the computation after it.  An aggregate the
\* engine does not know ends the evaluation of the rules still to come.
Buffer(w, entry) ==
    LET r == entry[1]
        rule == entry[2]
        point == work[w].point
        todo == work[w].todo \ {entry}
    IN  /\ work[w].op = "evaluate"
        /\ entry \in work[w].todo
        /\ \E kept \in Kept(Append(buffers[r], point)) :
             LET inputs == Capped(kept)
             IN  /\ buffers' = [buffers EXCEPT ![r] = inputs]
                 /\ Proceed(w,
                      IF Len(inputs) < rule.minSamples THEN Evaluation(point, todo)
                      ELSE IF rule.kind \notin Aggregates THEN Idle
                      ELSE [op |-> "save", point |-> point, todo |-> todo, id |-> r, rule |-> rule,
                            saved |-> FALSE, seen |-> None, stale |-> FALSE, at |-> None,
                            triggered |-> Triggered(inputs, rule.kind)])
        /\ UNCHANGED <<driver, now, rules, cooldown, admin, points, created, requests,
                       histories, silenced>>

SaveExecution(w) ==
    /\ work[w].op = "save"
    /\ IF work[w].triggered
       THEN Proceed(w, [work[w] EXCEPT !.op = "check", !.saved = TRUE])
       ELSE NextRule(w)
    /\ UNCHANGED <<driver, now, rules, engine, admin, points, created, requests, histories, silenced>>

\* An error ends the evaluation of the rules still to come, whether or not
\* the execution was stored.
SaveExecutionFails(w) ==
    /\ driver = "postgres"
    /\ work[w].op = "save"
    /\ Proceed(w, Idle)
    /\ UNCHANGED <<driver, now, rules, engine, admin, points, created, requests, histories, silenced>>

Firing(r) == {w \in Workers : work[w].op \in {"compare", "stamp", "fire"} /\ work[w].id = r}

\* The map is read with no lock.  `stale' says that what a worker read was not the
\* rule's latest firing, or is no longer.
ReadCooldown(w) ==
    LET r == work[w].id
    IN  /\ work[w].op = "check"
        /\ Proceed(w, [work[w] EXCEPT !.op = IF cooldown[r] = None THEN "stamp" ELSE "compare",
                                      !.seen = cooldown[r],
                                      !.stale = cooldown[r] # last[r]])
        /\ UNCHANGED <<driver, now, rules, engine, admin, points, created, requests,
                       histories, silenced>>

M_CheckCooldown(w) ==
    /\ work[w].op = "compare"
    /\ IF now < work[w].seen THEN NextRule(w)
       ELSE Proceed(w, [work[w] EXCEPT !.op = "stamp", !.seen = None])
    /\ UNCHANGED <<driver, now, rules, engine, admin, points, created, requests,
                   histories, silenced>>

\* The clock is read after the map, and compared with what was seen there.
CheckCooldown(w) ==
    /\ work[w].op = "compare"
    /\ IF now < work[w].seen + work[w].rule.cooldown THEN NextRule(w)
       ELSE Proceed(w, [work[w] EXCEPT !.op = "stamp", !.seen = None])
    /\ UNCHANGED <<driver, now, rules, engine, admin, points, created, requests,
                   histories, silenced>>

\* The clock is read again ...
ReadClock(w) ==
    /\ work[w].op = "stamp"
    /\ Proceed(w, [work[w] EXCEPT !.op = "fire", !.at = now])
    /\ UNCHANGED <<driver, now, rules, engine, admin, points, created, requests,
                   histories, silenced>>

Within(at, r, span) == last[r] # None /\ at < last[r] + span

\* ... and stored, and the actions run.
Fire(w) ==
    LET r == work[w].id
        at == work[w].at
    IN  /\ work[w].op = "fire"
        /\ cooldown' = [cooldown EXCEPT ![r] = at]
        /\ last' = [last EXCEPT ![r] = IF @ = None \/ @ < at THEN at ELSE @]
        /\ early' = IF Within(at, r, work[w].rule.cooldown)
                    THEN early \cup {[id |-> r, stale |-> work[w].stale]} ELSE early
        /\ work' = [v \in Workers |->
                       IF v = w THEN Evaluation(work[w].point, work[w].todo)
                       ELSE IF v \in Firing(r) THEN [work[v] EXCEPT !.stale = TRUE]
                       ELSE work[v]]
        /\ UNCHANGED <<driver, now, rules, buffers, admin, points, created, requests, silenced>>

-----------------------------------------------------------------------------
Change(a) ==
    \/ \E r \in RuleIds : \/ \E rule \in Rule : CreateRule(a, r, rule)
                          \/ \E patch \in Patch : UpdateLoad(a, r, patch)
                          \/ DeleteRow(a, r)
                          \/ DeleteRowFails(a, r)
    \/ Refused(a) \/ UpdateSave(a) \/ DeleteState(a) \/ UpdateSaveFails(a)

HandleTelemetry(w) ==
    \/ \E at \in Time, high \in BOOLEAN : List(w, at, high)
    \/ work[w] # Idle /\ \E entry \in work[w].todo : Buffer(w, entry)
    \/ SaveExecution(w) \/ SaveExecutionFails(w)
    \/ ReadCooldown(w) \/ CheckCooldown(w) \/ ReadClock(w) \/ Fire(w)

Next ==
    \/ Tick
    \/ \E a \in Admins : Change(a)
    \/ \E w \in Workers : HandleTelemetry(w)

Spec == Init /\ [][Next]_vars

-----------------------------------------------------------------------------
(* Properties *)

\* Rules, buffers, clocks and evaluations keep their shape (Engine, Repository).
TypeOK ==
    /\ driver \in Drivers
    /\ now \in Time
    /\ rules \in [RuleIds -> Rule \cup {None}]
    /\ buffers \in [RuleIds -> Seq(Points)]
    /\ cooldown \in [RuleIds -> Time \cup {None}]
    /\ \A w \in Workers : work[w] = Idle \/ work[w].point \in Points
    /\ \A a \in Admins : admin[a] = Idle \/ admin[a].copy \in Rule \cup {None}

\* The firings of a rule are a cooldown apart, by the clock read before the actions
\* and by the worker's copy of the rule, whatever patches change the cooldown: one
\* that comes too soon went by an entry of the map that was not, or was no longer, the
\* rule's latest firing, because another worker fired it between the read and the
\* actions, wrote an older time over it, or a deletion removed it (evaluateRule).
CooldownIsKept == \A firing \in early : firing.stale

\* No worker comes to run actions whose execution has not been saved, whatever
\* PostgreSQL fails and however the workers overlap (evaluateRule, "save execution").
ActionsAreRecorded == \A w \in Workers : work[w].op = "fire" => work[w].saved

\* A rule disabled or deleted while no other request changed it is never
\* picked again, until a patch enables it (UpdateRule, DeleteRule, HandleTelemetry).
SilencedStaysSilent == silenced \cap Listed = {}

InTimeOrder(buffer) == \A i, j \in DOMAIN buffer : i < j => buffer[i].at <= buffer[j].at

\* As long as a rule's points come in time order, what it aggregates lies in
\* its window (prunePoints, and the cap after it).
WindowIsKept ==
    [][\A r \in RuleIds :
          LET held == buffers'[r]
          IN  /\ held \notin {buffers[r], << >>}
              /\ InTimeOrder(Append(buffers[r], held[Len(held)]))
              => \A i \in DOMAIN held : Fresh(held[i])]_vars
=============================================================================
