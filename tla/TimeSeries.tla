----------------------------- MODULE TimeSeries -----------------------------
(***************************************************************************)
(* The time-series store, internal/timeseries: one device and property's   *)
(* series of points, written in batches under the store's lock by the      *)
(* telemetry workers and by POST /timeseries/batch, and what Query,        *)
(* Aggregate and DetectGaps answer from it.                                *)
(*                                                                         *)
(* A point is its time and its number.  Devices, properties, units and     *)
(* metadata only label it.  The store is in memory under either driver.    *)
(*                                                                         *)
(* Definitions named M_... are plausible bugs; each must break a property. *)
(***************************************************************************)
EXTENDS Integers, SequencesExt

CONSTANTS
    Readings,       \* the numbers POST /timeseries/batch writes
    Data,           \* the JSON values of one property in telemetry messages
    SeriesLimit,    \* points kept of a series: 20000 in the program
    FutureLimit,    \* how far ahead of the clock a point may be: 1 h
    Day,            \* how far back a request looks that names no start: 24 h
    MaxLimit,       \* the most points a query may ask for: 10000
    DefaultLimit,   \* what it gets when it asks for more, or for none: 1000
    Minute,         \* the bucket and the interval of a request without one
    MaxBatch,       \* BOUND: points in a batch
    MaxTime,        \* BOUND: the clock stops here
    MaxWrites,      \* BOUND: batches
    None            \* no time, a text that is no number, no answer

ASSUME TimeSeriesAssumption ==
    /\ {SeriesLimit, MaxLimit, DefaultLimit, Minute} \subseteq Nat \ {0}
    /\ DefaultLimit <= MaxLimit
    /\ {FutureLimit, Day, MaxBatch, MaxTime, MaxWrites} \subseteq Nat
    /\ Readings \subseteq Int
    /\ None \notin Int
    /\ Data \subseteq [type : {"number", "string"}, number : Int \cup {None}]
                \cup [type : {"boolean"}, true : BOOLEAN] \cup [type : {"other"}]

Time == 0 .. MaxTime

VARIABLES
    now,
    series,     \* the points of s.points[key]
    writes,     \* batches written so far
    newest      \* history: the latest time written

seriesVars == <<now, series, writes, newest>>

SeriesInit == now = 0 /\ series = << >> /\ writes = 0 /\ newest = None

SeriesTick ==
    /\ now < MaxTime
    /\ now' = now + 1
    /\ UNCHANGED <<series, writes, newest>>

-----------------------------------------------------------------------------
(* Writing *)

\* normalize: the number of a property of a telemetry message.  A text counts
\* for the number it spells; maps, lists and null for 0.
Number(datum) ==
    CASE datum.type \in {"number", "string"} /\ datum.number # None -> datum.number
      [] datum.type = "boolean" /\ datum.true -> 1
      [] OTHER -> 0

InTimeOrder(points) ==
    \A i, j \in DOMAIN points : i < j => points[i].at <= points[j].at

\* sort.Slice is not stable: points of one time end up in any order.  (Strings
\* of one time are ordered by their text, which is not modelled.)
Sorted(points) ==
    {s \in {[i \in DOMAIN points |-> points[p[i]]] : p \in Bijection(DOMAIN points, DOMAIN points)} :
        InTimeOrder(s)}

M_Trimmed(points) == IF Len(points) <= SeriesLimit THEN points ELSE SubSeq(points, 1, SeriesLimit)

\* The limit is applied before the new point is sorted in.
Trimmed(points) ==
    IF Len(points) <= SeriesLimit THEN points
    ELSE SubSeq(points, Len(points) - SeriesLimit + 1, Len(points))

Written(points, point) == Sorted(Trimmed(Append(points, point)))

\* The loop of Write over a batch.
AllWritten(batch) ==
    LET results[n \in 0 .. Len(batch)] ==
            IF n = 0 THEN {series} ELSE UNION {Written(s, batch[n]) : s \in results[n - 1]}
    IN  results[Len(batch)]

Stamped(point) == IF point.at = None THEN [point EXCEPT !.at = now] ELSE point

\* WriteBatch refuses all the points when one is too far ahead of the clock.
TooFarAhead(point) == point.at > now + FutureLimit

WriteBatch(points) ==
    LET batch == [i \in DOMAIN points |-> Stamped(points[i])]
    IN  /\ writes < MaxWrites
        /\ \A i \in DOMAIN batch : ~TooFarAhead(batch[i])
        /\ series' \in AllWritten(batch)
        /\ writes' = writes + 1
        /\ newest' = Max({batch[i].at : i \in DOMAIN batch} \cup ({newest} \ {None}))
        /\ UNCHANGED now

\* A batch with a point too far ahead, or one without device or property.
Refused == UNCHANGED seriesVars

\* A telemetry worker writes one point of the series for a message.
Ingested(datum, at) == WriteBatch(<<[at |-> at, value |-> Number(datum)]>>)

SeriesNext ==
    \/ SeriesTick \/ Refused
    \/ \E datum \in Data, at \in Time : Ingested(datum, at)
    \/ \E size \in 1 .. MaxBatch :
         \E points \in [1 .. size -> [at : Time \cup {None}, value : Readings]] : WriteBatch(points)

SeriesSpec == SeriesInit /\ [][SeriesNext]_seriesVars

-----------------------------------------------------------------------------
(* Reading: the store *)

InRange(points, range) ==
    LET found[n \in 0 .. Len(points)] ==
            IF n = 0 THEN << >>
            ELSE IF range[1] <= points[n].at /\ points[n].at <= range[2]
                 THEN Append(found[n - 1], points[n])
                 ELSE found[n - 1]
    IN  found[Len(points)]

\* A descending answer is cut to its last points, so to the oldest as well.
Query(range, limit, descending) ==
    LET found == InRange(series, range)
        answer == IF descending THEN Reverse(found) ELSE found
    IN  IF Len(answer) <= limit THEN answer
        ELSE IF descending THEN SubSeq(answer, Len(answer) - limit + 1, Len(answer))
        ELSE SubSeq(answer, 1, limit)

BucketOf(at, bucket) == (at \div bucket) * bucket

M_Opened(point) == [value |-> 0, count |-> 0]

\* A bucket begins with its first point's value, not yet counted.
Opened(point) == [value |-> point.value, count |-> 0]

\* One more point in a bucket.
Accumulated(kind, old, value) ==
    [value |-> CASE kind = "min" -> IF value < old.value THEN value ELSE old.value
                 [] kind = "max" -> IF value > old.value THEN value ELSE old.value
                 [] kind = "count" -> old.count + 1
                 [] OTHER -> old.value + value,
     count |-> old.count + 1]

\* The point in its bucket, which may be a new one.
WithPoint(buckets, p, kind, bucket) ==
    LET start == BucketOf(p.at, bucket)
        old == IF start \in DOMAIN buckets THEN buckets[start] ELSE Opened(p)
    IN  [t \in DOMAIN buckets \cup {start} |->
            IF t = start THEN Accumulated(kind, old, p.value) ELSE buckets[t]]

\* The buckets of a range, by their start.  An average is the value its bucket
\* ends at, over its count.
Aggregate(range, kind, bucket) ==
    LET found == InRange(series, range)
        buckets[n \in 0 .. Len(found)] ==
            IF n = 0 THEN << >> ELSE WithPoint(buckets[n - 1], found[n], kind, bucket)
    IN  buckets[Len(found)]

M_DetectGaps(range, interval) ==
    LET found == InRange(series, range)
    IN  {<<found[i - 1].at, found[i].at>> :
            i \in {j \in 2 .. Len(found) : found[j].at - found[j - 1].at >= (interval * 3) \div 2}}

\* Gaps lie between two points of the range; it has none at its ends.
DetectGaps(range, interval) ==
    LET found == InRange(series, range)
    IN  {<<found[i - 1].at, found[i].at>> :
            i \in {j \in 2 .. Len(found) : found[j].at - found[j - 1].at > (interval * 3) \div 2}}

-----------------------------------------------------------------------------
(* Reading: the service *)

Kinds == {"avg", "min", "max", "sum", "count"}

\* A request without a start looks a day back, one without an end up to now.
Span(from, to) ==
    <<IF from = None THEN now - Day ELSE from, IF to = None THEN now ELSE to>>

Invalid(range) == range[2] < range[1]

M_Limit(asked) == IF asked < 0 \/ asked > MaxLimit THEN DefaultLimit ELSE asked
Limit(asked) == IF asked <= 0 \/ asked > MaxLimit THEN DefaultLimit ELSE asked

\* What a client that asks for a range, if any, is answered, None if it is refused.
Queried(from, to, limit, descending) ==
    IF Invalid(Span(from, to)) THEN None
    ELSE Query(Span(from, to), Limit(limit), descending)

Aggregated(from, to, kind, bucket) ==
    IF kind \notin Kinds \/ Invalid(Span(from, to)) THEN None
    ELSE Aggregate(Span(from, to), kind, IF bucket < 1 THEN Minute ELSE bucket)

GapsDetected(from, to, interval) ==
    IF Invalid(Span(from, to)) THEN None
    ELSE DetectGaps(Span(from, to), IF interval <= 0 THEN Minute ELSE interval)

-----------------------------------------------------------------------------
(* Properties *)

\* The series holds points in time order, within its limit (store.go, Write).
SeriesTypeOK ==
    /\ now \in Time /\ writes \in 0 .. MaxWrites /\ newest \in Time \cup {None}
    /\ series \in Seq([at : Time, value : Int]) /\ Len(series) <= SeriesLimit
    /\ InTimeOrder(series)

\* The latest point written is still in the series, whatever late points came
\* after it, if a series may have two (Write trims, then sorts).
NewestKept ==
    SeriesLimit >= 2 /\ newest # None => \E i \in DOMAIN series : series[i].at = newest

Asked == Time \cup {None}

\* The points a request is about.
Meant(from, to) ==
    {i \in DOMAIN series : /\ IF from = None THEN series[i].at >= now - Day ELSE series[i].at >= from
                           /\ IF to = None THEN series[i].at <= now ELSE series[i].at <= to}

\* A query of a series that is not refused is answered with the oldest points of
\* its range, in the order asked, never with more than it asked for or may have,
\* and never with none while there is one (service.go and store.go, Query).
QueryAnswers ==
    series # << >> =>
      \A from, to \in Asked, limit \in 0 .. MaxLimit + 1, descending \in BOOLEAN :
          LET answer == Queried(from, to, limit, descending)
              found == Meant(from, to)
          IN  answer # None =>
                /\ Len(answer) <= MaxLimit
                /\ limit \in 1 .. MaxLimit => Len(answer) = Min({limit, Cardinality(found)})
                /\ found # {} => answer # << >>
                /\ InTimeOrder(IF descending THEN Reverse(answer) ELSE answer)
                /\ Range(answer) \subseteq {series[i] : i \in found}
                /\ \A i \in found, p \in Range(answer) :
                     series[i] \notin Range(answer) => p.at <= series[i].at

\* Two neighbouring times of a range are a gap just when they lie more than one
\* and a half intervals apart (service.go and store.go, DetectGaps).
GapsAnswer ==
    series # << >> =>
      \A from, to \in Asked, interval \in 1 .. MaxTime :
          LET times == {series[i].at : i \in Meant(from, to)}
              answer == GapsDetected(from, to, interval)
          IN  answer # None =>
                answer = {pair \in times \X times :
                             /\ 2 * (pair[2] - pair[1]) > 3 * interval
                             /\ \A t \in times : t <= pair[1] \/ t >= pair[2]}

\* A bucket's minimum, maximum and count are those of its points, and no point of
\* the range is without a bucket (service.go and store.go, Aggregate).
AggregatesAnswer ==
    series # << >> =>
      \A from, to \in Asked, bucket \in 1 .. MaxTime, kind \in {"min", "max", "count"} :
          LET answer == Aggregated(from, to, kind, bucket)
              InBucket(start) == {i \in Meant(from, to) : series[i].at \in start .. start + bucket - 1}
              Numbers(start) == {series[i].value : i \in InBucket(start)}
          IN  answer # None =>
                /\ DOMAIN answer = {t \in Time : t % bucket = 0 /\ InBucket(t) # {}}
                /\ \A start \in DOMAIN answer : answer[start].value =
                      CASE kind = "min" -> Min(Numbers(start))
                        [] kind = "max" -> Max(Numbers(start))
                        [] OTHER -> Cardinality(InBucket(start))

\* The sum of a bucket is that of the numbers of its points, and so is what its
\* average divides by their count (store.go, Aggregate).
SumsAnswer ==
    \A from, to \in Asked, bucket \in 1 .. MaxTime, kind \in {"sum", "avg"} :
        LET answer == Aggregated(from, to, kind, bucket)
            InBucket(start) == {i \in Meant(from, to) : series[i].at \in start .. start + bucket - 1}
        IN  answer # None =>
              \A start \in DOMAIN answer :
                  answer[start].value = FoldSet(LAMBDA i, sum : sum + series[i].value, 0, InBucket(start))
=============================================================================
