---------------------------- MODULE PagedListing ----------------------------
(***************************************************************************)
(* The paged listings: GET /api/v1/devices, /products, /groups, /commands, *)
(* /rules, /rules/executions, /firmware and /firmware/tasks.  A client     *)
(* walks through one of them, page after page, while rows are created,     *)
(* changed and deleted.  Listings differ in where they filter, in whether  *)
(* they order rows of the same creation time, in how they find the total,  *)
(* in what they make of a result whose end is missing, and of a limit too  *)
(* large; those that agree in all of this are one listing here.            *)
(*                                                                         *)
(* Abstractions.  A row has its creation time and whether the client's     *)
(* filter matches it.  Ids are random, so their order is not that of the   *)
(* creations, and as requests overlap neither is that of created_at.  A    *)
(* request that fails changes nothing and is left out.                     *)
(* Offsets are the client's own sums, never negative.                      *)
(*                                                                         *)
(* Definitions named M_... are plausible bugs; each must break a property. *)
(***************************************************************************)
EXTENDS Integers, Sequences, SequencesExt

CONSTANTS
    Rows,           \* ids
    Limits,         \* the limits clients ask for
    DefaultPage,    \* 50
    MaxPage,        \* 200
    MaxExecutions,  \* 500
    ListingTime,    \* BOUND: the clock stops here
    NoRow

ASSUME ListingAssumption ==
    /\ Rows \subseteq Nat
    /\ Limits \subseteq Int
    /\ DefaultPage \in 1 .. MaxPage
    /\ MaxPage \in 1 .. MaxExecutions
    /\ {MaxExecutions, ListingTime} \subseteq Nat
    /\ NoRow \notin [at : Nat, match : BOOLEAN]

(* What a listing does.                                                    *)
(*   settled  rows of the same time are in the order of their ids          *)
(*   filter   what is filtered                                             *)
(*   read     a result that ends too soon is taken for all the rows there  *)
(*            are, unless it is read "whole" or the request fails: the     *)
(*            loops over rows.Next never ask rows.Err.  Its rows come      *)
(*            "newest first", or are sorted only when they have been read. *)
(*   excess   a limit above the largest is cut, or replaced by the default *)

InMemory == [settled |-> TRUE, filter |-> "rows", read |-> "whole", excess |-> "cut"]
DevicesInMemory    == InMemory
ProductsInMemory   == [InMemory EXCEPT !.filter = "nothing"]
GroupsInMemory     == [InMemory EXCEPT !.filter = "nothing"]
CommandsInMemory   == InMemory
FirmwareInMemory   == [InMemory EXCEPT !.settled = FALSE]
TasksInMemory      == [InMemory EXCEPT !.settled = FALSE]
RulesInMemory      == [InMemory EXCEPT !.settled = FALSE]
ExecutionsInMemory == [InMemory EXCEPT !.settled = FALSE, !.excess = "replaced"]

InPostgres ==
    [settled |-> FALSE, filter |-> "rows", read |-> "in any order", excess |-> "cut"]
CommandsInPostgres   == InPostgres
FirmwareInPostgres   == [InPostgres EXCEPT !.read = "newest first"]
TasksInPostgres      == InPostgres
RulesInPostgres      == [InPostgres EXCEPT !.read = "newest first"]
ExecutionsInPostgres == [InPostgres EXCEPT !.excess = "replaced"]

\* Here the SQL cuts the page out, and a second statement counts the rows.
DevicesInPostgres  == [InPostgres EXCEPT !.filter = "page", !.read = "whole"]
ProductsInPostgres == [InPostgres EXCEPT !.filter = "nothing, counted later", !.read = "whole"]
GroupsInPostgres   == [InPostgres EXCEPT !.filter = "nothing, counted later", !.read = "whole"]

Listings ==
    {DevicesInMemory, ProductsInMemory, GroupsInMemory, CommandsInMemory, FirmwareInMemory,
     TasksInMemory, RulesInMemory, ExecutionsInMemory,
     CommandsInPostgres, FirmwareInPostgres, TasksInPostgres, RulesInPostgres,
     ExecutionsInPostgres, DevicesInPostgres, ProductsInPostgres, GroupsInPostgres}

VARIABLES
    listing,        \* which one is walked through
    clock,
    rows,
    walk,           \* the client: the page it asks for next and what it was given
    expected,       \* history: the rows listed when the walk began
    grown,          \* history: a row came into the listing during the walk
    shrunk,         \* history: a row left the listing during the walk
    short           \* history: the rows seen were not all there was to see

histories == <<expected, grown, shrunk, short>>
listingVars == <<listing, clock, rows, walk, histories>>

NotBegun == [op |-> "begin"]

ListingInit ==
    /\ listing \in Listings
    /\ clock = 0
    /\ rows = [i \in Rows |-> NoRow]
    /\ walk = NotBegun
    /\ expected = {}
    /\ grown = FALSE
    /\ shrunk = FALSE
    /\ short = FALSE

ListingTick ==
    /\ clock < ListingTime
    /\ clock' = clock + 1
    /\ UNCHANGED <<listing, rows, walk, histories>>

-----------------------------------------------------------------------------
(* The rows *)

Stored(i) == rows[i] # NoRow
Matches(i) == Stored(i) /\ (rows[i].match \/ listing.filter \notin {"rows", "page"})
Table == {i \in Rows : Stored(i)}
Listed == {i \in Rows : Matches(i)}

\* What a change of the rows is to the walk under way.
Watched ==
    /\ UNCHANGED <<listing, clock, walk, expected, short>>
    /\ grown' = (grown \/ ~(Listed' \subseteq Listed))
    /\ shrunk' = (shrunk \/ ~(Listed \subseteq Listed'))

\* CreatedAt is read some time before the row is inserted.
CreateRow(i, at, match) ==
    /\ ~Stored(i)
    /\ at <= clock
    /\ rows' = [rows EXCEPT ![i] = [at |-> at, match |-> match]]
    /\ Watched

UpdateRow(i) ==
    /\ Stored(i)
    /\ rows' = [rows EXCEPT ![i].match = ~@]
    /\ Watched

DeleteRow(i) ==
    /\ Stored(i)
    /\ rows' = [rows EXCEPT ![i] = NoRow]
    /\ Watched

-----------------------------------------------------------------------------
(* A page *)

\* Newest first.
Before(i, j) ==
    \/ rows[i].at > rows[j].at
    \/ rows[i].at = rows[j].at /\ listing.settled /\ i < j

\* The orders a set of rows may be read in.
Orders(S) ==
    {s \in SetToSeqs(S) : \A a, b \in DOMAIN s : a < b => ~Before(s[b], s[a])}

Smaller(a, b) == IF a < b THEN a ELSE b

M_Cut(s, offset, limit) == SubSeq(s, offset + 1, Smaller(offset + limit + 1, Len(s)))

\* LIMIT and OFFSET, or the slice of a sorted listing.
Cut(s, offset, limit) == SubSeq(s, offset + 1, Smaller(offset + limit, Len(s)))

\* The pages that may be cut out of a set of rows.
Pages(S, offset, limit) == {Cut(s, offset, limit) : s \in Orders(S)}

\* No row that is left out comes before one of these.
Leads(S) == \A i \in S, j \in Listed \ S : ~Before(j, i)

\* The rows that a statement, or a lock, may give.
Parts ==
    {S \in SUBSET Listed :
       \/ S = Listed
       \/ listing.read = "newest first" /\ Leads(S)
       \/ listing.read = "in any order"}

Largest == IF listing.excess = "cut" THEN MaxPage ELSE MaxExecutions

M_Pagination(limit) == IF limit <= 0 THEN DefaultPage ELSE limit

\* What the handler makes of the request's limit, and echoes in its answer ...
Pagination(limit) ==
    IF limit <= 0 THEN DefaultPage
    ELSE IF limit <= Largest THEN limit
    ELSE IF listing.excess = "cut" THEN Largest ELSE DefaultPage

\* ... and what the service makes of the handler's.
Normal(limit) == IF limit <= 0 \/ limit > Largest THEN DefaultPage ELSE limit

-----------------------------------------------------------------------------
(* The walk *)

Begin(limit) ==
    /\ walk = NotBegun
    /\ walk' = [op |-> "page", offset |-> 0, limit |-> Pagination(limit),
                page |-> << >>, seen |-> << >>]
    /\ expected' = Listed
    /\ grown' = FALSE
    /\ shrunk' = FALSE
    /\ short' = FALSE
    /\ UNCHANGED <<listing, clock, rows>>

\* The client goes on behind the page it was given while there is more.
Answer(page, total) ==
    LET next == walk.offset + walk.limit
    IN  walk' = [walk EXCEPT !.op = IF next < total THEN "page" ELSE "over",
                             !.offset = next,
                             !.page = << >>,
                             !.seen = @ \o page]

\* One statement, or one lock: the page and the total are of one moment.  Where
\* the newest rows are read first, the next answer makes up for a short one.
Page ==
    /\ walk.op = "page"
    /\ listing.filter \in {"rows", "nothing"}
    /\ \E S \in Parts :
         /\ \E page \in Pages(S, walk.offset, Normal(walk.limit)) : Answer(page, Cardinality(S))
         /\ short' = (S # Listed \/ (short /\ listing.read # "newest first"))
    /\ UNCHANGED <<listing, clock, rows, expected, grown, shrunk>>

\* Two statements.
SelectPage ==
    /\ walk.op = "page"
    /\ listing.filter \notin {"rows", "nothing"}
    /\ \E page \in Pages(IF listing.filter = "page" THEN Table ELSE Listed,
                        walk.offset, Normal(walk.limit)) :
         walk' = [walk EXCEPT !.op = "count",
                              !.page = IF listing.filter = "page"
                                       THEN SelectSeq(page, Matches) ELSE page]
    /\ UNCHANGED <<listing, clock, rows, histories>>

\* The total of a filtered page is at most its length.
CountRows ==
    LET count == Cardinality(Table)
    IN  /\ walk.op = "count"
        /\ Answer(walk.page,
                  IF listing.filter = "page" THEN Smaller(count, Len(walk.page)) ELSE count)
        /\ UNCHANGED <<listing, clock, rows, histories>>

-----------------------------------------------------------------------------
Change ==
    \/ \E i \in Rows, at \in 0 .. ListingTime, match \in BOOLEAN : CreateRow(i, at, match)
    \/ \E i \in Rows : UpdateRow(i) \/ DeleteRow(i)

Walk ==
    \/ \E limit \in Limits : Begin(limit)
    \/ Page \/ SelectPage \/ CountRows

ListingNext == ListingTick \/ Change \/ Walk

ListingSpec == ListingInit /\ [][ListingNext]_listingVars

-----------------------------------------------------------------------------
(* Properties.  DevicesInPostgres promises none of this: it filters after  *)
(* the cut and gives the page's length for the total.                      *)

Walking == walk # NotBegun /\ listing.filter # "page"
Seen == ToSet(walk.seen)

\* No two listed rows are of the same time, or the listing orders such rows.
Ordered ==
    listing.settled \/ \A i, j \in Listed : i # j => rows[i].at # rows[j].at

\* A walk that has come to its end has seen every row that was listed when it
\* began, unless some row left the listing meanwhile or the last answer was short,
\* or an earlier one of rows read in any order: new rows, wherever their time puts
\* them, push others to later pages and never to earlier ones, and the handler's
\* limit is the one the service used (pagination, ListDevices, ListRules).
WalkFindsAll ==
    Walking /\ walk.op = "over" /\ ~shrunk /\ ~short /\ Ordered => expected \subseteq Seen

\* While no row comes or goes a walk is given no row twice, not even where the
\* newest rows are read first and an answer is short (ListRules on PostgreSQL).
NothingTwice ==
    Walking /\ ~grown /\ ~shrunk /\ (short => listing.read = "newest first") /\ Ordered =>
        Cardinality(Seen) = Len(walk.seen)
=============================================================================
