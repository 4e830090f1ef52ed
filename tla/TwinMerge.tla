------------------------------ MODULE TwinMerge ------------------------------
(***************************************************************************)
(* The map algorithms of the digital twin on nested maps: mergeMaps,       *)
(* ComputeDiff and ValidatePatch (twin/application/service.go), applied by *)
(* requests served one after the other.  A JSON value is an atom, a map, a *)
(* function that gives Absent for the keys the map lacks, or a list, which *)
(* only ValidatePatch looks into.  A path is the sequence of its keys.     *)
(*                                                                         *)
(* Definitions named M_... are plausible bugs; each must break a property. *)
(***************************************************************************)
EXTENDS Integers, SequencesExt

CONSTANTS
    Keys,           \* what the keys of a map may be
    Atoms,          \* scalar values, Null among them
    Null,           \* JSON null
    Absent,         \* where a map has no such key
    Patches,        \* the maps requests carry
    MaxDepth,       \* the depth ValidatePatch allows: 10
    MaxLevels       \* the levels of a value the JSON decoder accepts: 10000

MapsOf(V) == [Keys -> V \cup {Absent}]
ListsOf(V) == [{"list"} -> Seq(V)]

\* The values of at most n levels: a map or list is one, what it holds the next.
Levels[n \in 0 .. MaxLevels] ==
    IF n = 0 THEN {} ELSE Atoms \cup MapsOf(Levels[n - 1]) \cup ListsOf(Levels[n - 1])

JSON == Levels[MaxLevels]
Map == MapsOf(Levels[MaxLevels - 1])
List == ListsOf(Levels[MaxLevels - 1])
EmptyMap == [k \in Keys |-> Absent]

ASSUME TwinMergeAssumption ==
    /\ MaxLevels \in Nat
    /\ MaxDepth \in 1 .. MaxLevels
    /\ Null \in Atoms /\ Absent \notin Atoms
    /\ \A v \in Atoms \cup {Absent} : v \notin Map \cup List
    /\ Keys # {"list"}
    /\ Patches \subseteq Map

VARIABLES desired, reported
mergingVars == <<desired, reported>>

IsMap(v) == v \in Map
IsList(v) == v \in List
At(m, k) == IF m[k] = Absent THEN Null ELSE m[k]     \* Go's m[k]

M_ShallowMerge(base, patch) == [k \in Keys |-> IF patch[k] = Absent THEN base[k] ELSE patch[k]]

M_NestedBaseWins(base, patch) ==
    LET merged[b \in Map] == [p \in Map |->
            [k \in Keys |-> IF p[k] = Absent THEN b[k]
                            ELSE IF IsMap(b[k]) /\ IsMap(p[k]) THEN merged[p[k]][b[k]]
                            ELSE p[k]]]
    IN  merged[base][patch]

mergeMaps(base, patch) ==
    LET merged[b \in Map] == [p \in Map |->
            [k \in Keys |-> IF p[k] = Absent THEN b[k]
                            ELSE IF IsMap(b[k]) /\ IsMap(p[k]) THEN merged[b[k]][p[k]]
                            ELSE p[k]]]
    IN  merged[base][patch]

\* The paths P of what a map has at k, from the map.
Below(k, P) == {<<k>> \o path : path \in P}

\* The paths of the differences.  A key missing from one nested map reads as null.
appendDiff(d, r) ==
    LET differences[v \in JSON] == [w \in JSON |->
            IF v = w THEN {}
            ELSE IF IsMap(v) /\ IsMap(w)
            THEN UNION {Below(k, differences[At(v, k)][At(w, k)]) :
                           k \in {key \in Keys : v[key] # Absent \/ w[key] # Absent}}
            ELSE {<< >>}]
    IN  differences[d][r]

\* A key missing from one top-level map is a difference whatever its value.
ComputeDiff(d, r) ==
    UNION {Below(k, IF d[k] # Absent /\ r[k] # Absent THEN appendDiff(d[k], r[k]) ELSE {<< >>}) :
             k \in {key \in Keys : d[key] # Absent \/ r[key] # Absent}}

M_ListsAreAtoms(patch) ==
    LET walk[value \in JSON] == [depth \in 1 .. MaxDepth + 1 |->
            /\ depth <= MaxDepth
            /\ IsMap(value) => \A k \in Keys : value[k] # Absent => walk[value[k]][depth + 1]]
    IN  walk[patch][1]

\* A value below MaxDepth is refused, in maps and lists, whatever it is.  (So are
\* blank keys, which are not told apart here.)
ValidatePatch(patch) ==
    LET walk[value \in JSON] == [depth \in 1 .. MaxDepth + 1 |->
            /\ depth <= MaxDepth
            /\ IsMap(value) => \A k \in Keys : value[k] # Absent => walk[value[k]][depth + 1]
            /\ IsList(value) => \A i \in DOMAIN value.list : walk[value.list[i]][depth + 1]]
    IN  walk[patch][1]

MergingInit == desired = EmptyMap /\ reported = EmptyMap

MergeDesired(patch) ==
    /\ ValidatePatch(patch)
    /\ desired' = mergeMaps(desired, patch)
    /\ UNCHANGED reported

MergeReported(patch) ==
    /\ ValidatePatch(patch)
    /\ reported' = mergeMaps(reported, patch)
    /\ UNCHANGED desired

\* A telemetry worker merges an attribute change as it comes, not validated.
ReportAttribute(patch) ==
    /\ reported' = mergeMaps(reported, patch)
    /\ UNCHANGED desired

MergingNext ==
    \E patch \in Patches :
        MergeDesired(patch) \/ MergeReported(patch) \/ ReportAttribute(patch)

MergingSpec == MergingInit /\ [][MergingNext]_mergingVars

-----------------------------------------------------------------------------
(* Reference: a value as its nodes, a path with an atom, a list or, for a   *)
(* map, EmptyMap.                                                           *)

Nodes(v) ==
    LET nodes[w \in JSON] ==
            IF IsMap(w)
            THEN {[path |-> << >>, value |-> EmptyMap]}
                   \cup UNION {{[path |-> <<k>> \o n.path, value |-> n.value] : n \in nodes[w[k]]} :
                                  k \in {key \in Keys : w[key] # Absent}}
            ELSE {[path |-> << >>, value |-> w]}
    IN  nodes[v]

PathsOf(N) == {n.path : n \in N}
MapAt(N, path) == [path |-> path, value |-> EmptyMap] \in N

\* A merged map is the patch laid over the base: every node of the patch, and
\* every node of the base that is not at or below something the patch sets.
MergeIsOverlay ==
    LET N == Nodes(mergeMaps(reported, desired))
        B == Nodes(reported)
        P == Nodes(desired)
    IN  N = P \cup {n \in B : /\ n.path \notin PathsOf(P)
                              /\ \A q \in PathsOf(P) : IsStrictPrefix(q, n.path) => MapAt(P, q)}

\* A device that applies the desired state it reads and reports it has caught
\* up: whatever it had reported before, the differences left are at paths the
\* desired state does not set.
DeviceCatchesUp ==
    ComputeDiff(desired, mergeMaps(reported, desired)) \cap PathsOf(Nodes(desired)) = {}

\* However many are merged, validated patches never build a desired state
\* deeper, counting lists, than one patch may be (it never fails to be sent back
\* as a patch).
DesiredDepthBounded == desired \in Levels[MaxDepth]
==============================================================================
