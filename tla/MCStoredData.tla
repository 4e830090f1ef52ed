---------------------------- MODULE MCStoredData ----------------------------
(* What becomes of the data that devices report and operators list, for    *)
(* TLC: the twin documents under overlapping writers, the merging of their *)
(* nested states, the queries on a series, and the walks through paged     *)
(* listings.  The four have no state in common, so a behaviour moves one   *)
(* of them and leaves the others where they begin.                         *)
EXTENDS DigitalTwin, TwinMerge, TimeSeries, PagedListing

CONSTANTS one

VARIABLE part       \* the one that moves

DataInit ==
    /\ part \in {"twin", "merging", "series", "listing"}
    /\ Init /\ MergingInit /\ SeriesInit /\ ListingInit
    /\ part # "listing" => listing = DevicesInMemory

DataNext ==
    /\ UNCHANGED part
    /\ \/ part = "twin" /\ Next /\ UNCHANGED <<mergingVars, seriesVars, listingVars>>
       \/ part = "merging" /\ MergingNext /\ UNCHANGED <<vars, seriesVars, listingVars>>
       \/ part = "series" /\ SeriesNext /\ UNCHANGED <<vars, mergingVars, listingVars>>
       \/ part = "listing" /\ ListingNext /\ UNCHANGED <<vars, mergingVars, seriesVars>>

DataSpec == DataInit /\ [][DataNext]_<<part, vars, mergingVars, seriesVars, listingVars>>

-----------------------------------------------------------------------------
(* Series *)

MCReadings == {-1, 2}
MCData == {[type |-> "string", number |-> None], [type |-> "boolean", true |-> TRUE]}

(* Merging: every map of two keys nested twice, and lists in the place of  *)
(* either; a map and a list a level too deep.                              *)

MCKeys == {"x", "y"}
MCAtoms == {one, Null}
Only(k, v) == [EmptyMap EXCEPT ![k] = v]
Nested == {m \in [Keys -> Atoms \cup {Absent}] : m["y"] \in {one, Absent}}
Items(s) == [list |-> s]
Fitting == {Only("x", Items(<<one, EmptyMap>>)), Only("x", Only("y", Items(<< >>)))}
TooDeep == {Only("x", Only("x", Only("y", one))), Only("y", Items(<<EmptyMap, Items(<<one>>)>>))}
MCPatches == [Keys -> Nested \cup {one, Absent}] \cup Fitting \cup TooDeep

(* Listings: a limit that is missing, one too large for all but executions, *)
(* and one too large for these. *)

MCRows == 1 .. 3
MCLimits == {0, 3, 4}

=============================================================================
