# Verification of the IoT device registry

TLA+ models of the device management service in `src/` (Go), TLC configurations
that check them on small instances, and TLAPS proofs of their main theorems.
Inside this directory:

    tlc -workers 2 -config CommandOverlap.cfg MCCommandQueue.tla    # any run of the table below
    tlapm CommandQueueProofs.tla                                     # any *Proofs module

`PROJECT.json` lists components, runs, hazards, the source lines every
definition stands for, and for every property a mutation of the model (the
definitions named `M_...`) that breaks it.

## The system

One process (`cmd/iotd`) holds every component. HTTP, gRPC, WebSocket and MQTT
handlers run in their own goroutines; a few telemetry workers drain a bounded
queue; a reaper goroutine scans the command table every five seconds; an
in-process event bus calls its subscribers in the publisher's goroutine. State
lives in memory repositories guarded by one mutex each, or in PostgreSQL tables
that hold whole JSON documents; the time-series store is in memory either way.

One fact shapes every model: **no operation holds a lock or a transaction over
more than one repository call**. An update reads the whole record, changes the
copy and saves the whole copy. So a repository call is one atomic step (the
mutex, or one SQL statement), a model process carries the copy it is about to
save in a variable (`call`, `admin`, `work`, `batch`), and calls interleave.

### Inventory

| component | state | operations | interacts with | hard parts | what makes it correct |
|---|---|---|---|---|---|
| command queue, `internal/command` | commands, idempotency index | Enqueue, Ack, reaper, poll | bus (no subscriber) | check-then-create, stale saves, time-outs racing acknowledgements, retries | a key answered once is always found; a life is legal; deliveries are bounded; nothing stays pending |
| digital twin, `internal/twin` | one document per device: desired, reported, version | UpdateDesired, UpdateReported, Delete, ComputeDiff | called by telemetry workers | concurrent writers of one document; nested maps, null and depth | reports do not touch the desired half; a device that applies its diff catches up |
| firmware, `internal/firmware` | firmware, tasks, receipts | CreateFirmware, CreateTask, TransitionTask, Receive, CompleteReceipt | bus (rollback events) | one upgrade per device, rollback before failure, life cycles | limits hold as far as overlap allows; settled things stay settled |
| device records, `internal/device` | products, groups, devices with credentials | Register, Enable, Disable, Update*, Rotate, Deregister | tells authentication after saving | two stores written one after the other, undo of a failed registration | a deregistration is final; a credential handed out works |
| authentication, `internal/auth` | principals, rate windows | Authenticate, RegisterDevice, RevokeDevice | looks the device up | credential and status are read in two steps | an old credential is dead; a shut device stays out |
| rule engine, `internal/rule` | rules, a buffer and a cooldown per rule, executions | CRUD, HandleTelemetry | subscribed to telemetry | unlocked cooldown map, copies of deleted rules, buffers in arrival order, an error stops the scan | cooldowns, windows, recorded actions, silenced rules |
| telemetry, `internal/telemetry` | bounded queue | Ingest, IngestBatch, workers | twin, time series, bus | full queue, partial batches, failing stages, shutdown | every accepted message is in one place; stages in order; the queue drains |
| time series, `internal/timeseries` | a bounded sorted series per property | WriteBatch, Query, Aggregate, DetectGaps | written by workers and HTTP | late points at the bound, limits, buckets, gaps | answers agree with reference definitions |
| listings, all repositories | none of their own | `List*` with offset, limit and filter | every HTTP list route | rows inserted in the middle of a walk, two limit normalisations, ties, results whose end is missing | a walk finds every row, and none twice |
| event bus, queue, `internal/platform` | subscriptions, a channel | Publish, Subscribe, Enqueue, Recv | everything | the first handler error ends a publication | nothing accepted is lost; handlers are isolated (they are not) |
| WebSocket session, `internal/telemetry/adapter/websocket` | a channel of answers, two timers, one socket | read loop, writeLoop, pongs, both deadlines | Ingest; the gateway recovers its panics | two goroutines on one socket and one channel, a write without a deadline, a client that stalls or leaves | answers in order, one writer, an answering client stays, both goroutines end |
| MQTT, gRPC, HTTP gateways | connections | decode, call a service, encode | services | | not modelled beyond the calls they make |

## Modules

| module | models | abstract specification | instance | proofs |
|---|---|---|---|---|
| `CommandQueue` | `internal/command` | `KeyRegistry` | `MCCommandQueue` | `CommandQueueProofs` |
| `DigitalTwin` | `internal/twin`, overlapping updates | `TwinRegisters` | `MCStoredData`, `MCDigitalTwin` | `DigitalTwinProofs` |
| `TwinMerge` | `internal/twin`, algorithms on nested maps | | `MCStoredData` | `StoredDataProofs` |
| `FirmwareUpgrade` | `internal/firmware` | | `MCFirmwareUpgrade` | `FirmwareUpgradeProofs` |
| `DeviceIdentity` | `internal/device` with `internal/auth` | | `MCDeviceIdentity` | `DeviceIdentityProofs` |
| `RuleEngine` | `internal/rule` | | `MCRuleEngine` | `RuleEngineProofs` |
| `TelemetryPipeline` | `internal/telemetry`, backpressure, event bus | | `MCTelemetryPipeline` | `TelemetryPipelineProofs` |
| `TimeSeries` | `internal/timeseries` | | `MCStoredData`, `MCTimeSeries` | `StoredDataProofs` |
| `PagedListing` | the listings of every repository | | `MCStoredData` | `StoredDataProofs` |
| `WebSocketSession` | one device's session on `/api/v1/telemetry/ws` | | `MCWebSocketSession` | `WebSocketSessionProofs` |

How each corresponds to the code:

* **CommandQueue.** `EnqueueExisting`, `EnqueueConflict` and `EnqueueNew` are the
  three outcomes of the look-up in `Service.Enqueue`, `EnqueueSave` the save and
  what follows it. `AckRefused`/`AckRead`/`AckSave` split `Service.Ack` at the
  read. `ReapTick` takes the snapshots `reapExpired` walks over, `ReapRetry`,
  `ReapFail` and `ReapSaveFails` treat one. A deadline is the flag `due`, set by
  `Deadline` when time has passed it. With `driver = "postgres"` a save can be
  refused by the unique index, fail, or commit and be reported as failed, and
  the process may restart on the same tables.
* **DigitalTwin.** A writer loads a document, holds it with its patch merged in,
  and saves it (`Save`); deletions and failed saves come between. State maps are
  flat; **TwinMerge** has them nested, with `mergeMaps`, `ComputeDiff` and
  `ValidatePatch` written as the recursive functions they are. A map there is a
  function on all `Keys` that is `Absent` where the map has none, a JSON list a
  sequence behind the label `list`. Merging and comparing take a list as a whole;
  `ValidatePatch` walks into it and counts it as a level. `Levels[n]` are the
  values of at most n levels, and `MaxLevels` how many the JSON decoder accepts,
  so that recursion over a value has an end.
* **FirmwareUpgrade.** `Receive` is a task check, a look-up of an active receipt
  and a save; `CompleteReceipt` a read, the rollback announcement and a save;
  `TransitionTask` a read and a save.
* **DeviceIdentity.** Each request is a row of calls: load the record, save the
  changed copy, tell the identity service, undo. `alone` says that no other
  request for the device has been under way since this one began: the
  properties promise something to undisturbed requests only. A login counts
  the attempt, compares the credential, then reads the status, in three steps.
* **RuleEngine.** A worker lists the enabled rules as copies, and for each takes
  the locked step (`Buffer`) and then, unlocked, `SaveExecution`,
  `ReadCooldown` (the map), `CheckCooldown` (the clock, against what was read),
  `ReadClock` (the clock again) and `Fire` (the map again, and the actions):
  whole firings, time and deletions may pass between any two. `last` is the time
  of a rule's latest firing and outlives `DeleteState`, which clears the entry of
  the map: a worker that holds a copy of a deleted rule fires it afresh. (A
  concurrent map write may also abort a Go program; no step models that.)
* **TelemetryPipeline.** Handlers `Begin` a batch and `Ingest` its messages;
  workers `Recv`, report to the twin, `WriteBatch` and `Publish` point by point.
  A failing twin, store or rule ends the message, never the worker. Keys of data
  are names of properties; `Blank` is the empty one, which the handlers accept
  and the store refuses together with the points beside it.
* **TimeSeries.** `Write` under the store's lock, and `Queried`, `Aggregated`,
  `GapsDetected` as functions of the series, defaults and refusals included. The
  properties ask about series that hold a point (`series # << >>`): the answers
  from an empty one are those from a range without points, and a run that moves
  another part need not ask for them in every state.
* **WebSocketSession.** `reader` is the loop of `ServeHTTP`, `writer` is
  `writeLoop`, `send` the channel. `ReadInvalid` writes an error itself, ahead of
  the channel; `Ingest` decodes, ingests and holds the answer until `Send` finds
  room. `TakeAnswer`, `TakeTick` and `TakeClosed` are the branches of the
  `select`, each beginning a write that `WriteEnds`. A write is two steps,
  because the library's note `isWriting` is set and cleared without a lock: two
  writers may both miss it, or one panic on entry or on exit. The handler's
  panic is recovered by the gateway after the deferred `Close` (and without
  `close(send)`); writeLoop's ends the process. `Stall`, `Resume`, `Leave` and
  `ClientPongs` are the client. The library and the client are marked external.
  Only writeLoop sets write deadlines, and the last one set holds for the
  handler's writes too; one the handler begins before the first (`untimed`)
  ends when the client reads again or leaves, and until then is `Blocked`.
* **MCStoredData** puts `DigitalTwin`, `TwinMerge`, `TimeSeries` and
  `PagedListing` beside each other for one run. They have no state in common, so
  a behaviour chooses one (`part`) and moves it; the others rest where they
  begin. Nothing is lost by it: every behaviour of each alone is there.
* **PagedListing.** `listing` is chosen among all sixteen repository listings,
  reduced to the combinations that differ; `Begin` and `Page` are a client's
  walk with the handler's `Pagination` and the service's `Normal`, which for
  executions have another largest limit and replace what is above it. The loops
  over `rows.Next` in the command, firmware, task, rule and execution listings on
  PostgreSQL take rows that end early for all there are (`Parts`): the newest
  ones where SQL orders them and nothing does again, any where they are sorted
  once read. `short` says that the walk rests on such an answer.

## Runs

| run | question | bounds |
|---|---|---|
| `command_overlap` | what survives every interleaving of two handlers and the reaper, on either repository | 2 callers, 1 device, 1 key, 2 commands, retries -1 (normalised to 3) and 0, batch and poll limit 1 |
| `command_never_settled` (violated) | is every command settled in the end? | 1 caller, 2 keys, memory |
| `stored_data` | twins: what may overlapping updates, deletions and failed saves lose? | 2 writers, 1 property, 2 values, versions up to 3, PostgreSQL |
| | merge, difference and validation against references | all maps of two keys nested twice, lists in the place of either, a map and a list a level too deep |
| | every answer on every reachable series | 3 batches of up to 2 points, 4 instants, a limit of 3 points |
| | what a walk finds while rows come, change and go | 3 rows, limits 0, 3 and 4 against default 1 and maximum 2 (executions 3), 2 instants |
| `twin_desired_lost` (violated) | does a report leave the desired state alone? | 2 writers, memory |
| `firmware_overlap` | limits, owners, rollbacks and settled states under overlap | 2 handlers, 2 devices, 1 task, 3 receipts |
| `identity_overlap` | final deregistrations, working and dead credentials | 2 requests and 1 login on 1 device, 3 credentials, a rate limit of 1 |
| `identity_postgres` (violated) | does the credential handed out work on PostgreSQL? | as above |
| `rule_overlap` | cooldowns, windows and silenced rules | 2 workers, 2 requests, 1 rule, 3 points, 2 changes, 2 instants, a buffer of 2 |
| `telemetry` | no message lost, doubled, stuck, or refused by the store for its time | 1 handler, 2 workers, queue of 1, batches of 2, 3 messages, 2 instants |
| `session` | answers in order, one writer, answering clients stay, goroutines end | a channel of 1, 4 messages, a ping every 2 instants, a pong wait of 3 |
| `handlers_isolated` (violated) | do all points of a message reach the rules when one fails? | as `telemetry`, 1 message |
| `sums_wrong` (violated) | are sums and averages those of the bucket's points? | 2 batches of up to 2 points, 3 instants |

Why these bounds show the interesting cases:

* *Overlap* needs two processes: a copy taken before and saved after another
  one's change. One device, key or rule is enough since records share nothing
  but the lock; two devices are there where an answer could go to the wrong one.
  Two commands of one key are what a missed look-up creates, and what makes the
  poll and batch limits of 1 cut something off. Three retries (the default) and
  none are both ends of the loop.
* *Twin*: two writers and three versions hold load–load–save–save with a
  deletion in between.
* *Rules*: `Drivers` is PostgreSQL only, since its steps include all those of
  the memory repository. A buffer of 2 with three points reaches the cap; two
  instants and the cooldowns 0 and 1 reach both sides of the comparison; two
  workers and two requests let one fire a rule from a copy after its deletion.
* *Telemetry*: a queue of one is full while a batch of two is under way; the time
  stamp 2 is too far ahead at the first instant and just near enough at the
  second; one content has two properties, so a message can fail between points,
  and one a property without a name, so that the store refuses it.
* *Series*: six points against a limit of three, with times before, at and
  after every range, bucket and gap boundary among four instants.
* *Session*: a channel of 1 and four messages fill the channel with an answer in
  writeLoop and one with the handler, and leave a message to spare: a blocked
  handler, with its client up, stalled or gone, and both panics are reached. A
  ping period of 2 and a wait of 3 are the least for which a pong may come in
  time, between two pings or just before the deadline.
* *Listing*: with default 1 and maximum 2, three rows are two or three pages,
  and the limit 3 is the one that handler and service normalise differently;
  among executions it is allowed, and 4 is replaced. Three rows are enough for a
  short answer between two pages and at the end.

Deadlock is checked in every run: there is always some step (a refused request, a
tick, an idle handler), which is also true of the program.

### Fairness

`FairSpec` of CommandQueue makes the clock (`Deadline`), the ticker (`ReapTick`)
and the reaper's loop weakly fair: `main` starts it as a goroutine of its own
that only the end of the context stops, and its memory calls return. Nothing is
assumed of devices or callers. `FairSpec` of TelemetryPipeline makes every
worker's steps weakly fair, for the same reason; `QueueDrains` promises nothing
once the shutdown has begun. `FairSpec` of WebSocketSession: time passes; both
goroutines run, and a write ends at its write deadline at the latest, if it has
one: while the handler is `Blocked` in a write without a deadline, fairness asks
neither for its end nor for that of writeLoop's write behind it (`WF` of
`~Blocked /\ HandlerGoesOn` and `~Blocked /\ WriteEnds`); once the client has
left, the end of its stream is read; and `select` picks at random among what is
ready, so a ticker that is always ready does not starve the channel (`SF` of
`TakeAnswer`). Of the client nothing is assumed: neither that it reads or sends,
nor that it answers a ping. No other run needs fairness.

### Disagreements with the documentation that a run shows

* `command_never_settled`: `Expired` selects `pending` only, so a command the
  reaper set to `retrying` is never looked at again: it neither times out "after
  retries" (`service.go:190`) nor is retried twice.
* `twin_desired_lost`: `UpdateReported` "never replaces the authoritative desired
  state" (`service.go:79`), but saves the whole document it loaded.
* `handlers_isolated`: "Handlers are isolated" (`eventbus.go:70`), but `Publish`
  returns the first error, and the worker drops the rest of its message with
  it: points that were stored and never reach the rules.
* `sums_wrong`: `store.go` starts a bucket with its first point's value and then
  adds it again, so each `sum` and `avg` is too large by one point.
* `identity_postgres`: `Principal.Credential` is tagged `json:"-"`, so PostgreSQL
  stores principals without it and no issued credential passes.

### Further observations

Met while reading, modelled as the code has them, and without a run of their own:

* An unsubscribe from the bus finds nothing: it compares the address of a slice
  element with that of a local copy. Nobody unsubscribes.
* `AggregatesAnswer` is about minimum, maximum and count, since sums and averages
  are wrong. A descending query that is cut keeps the oldest points, as
  `QueryAnswers` says.
* A WebSocket handler can block for ever (`Stuck`): writeLoop leaves at its first
  failed write, and a full channel then holds the handler past every deadline,
  as `StuckForGood` proves. It can also be `Blocked` for as long as its client
  likes: its own `WriteJSON` (`handler.go:81`) sets no write deadline, and there
  is none before writeLoop's first write. `EndTogether` and `SilentSessionEnds`
  say that nothing else can hold it. A message that is no JSON makes the handler a second writer,
  which the library answers with a panic; `OneWriterUnlessInvalid` says that
  nothing else does.
* The ping period comes from the *write* wait and nothing relates it to the pong
  wait: a `pong_wait` of nine tenths of `write_wait` or less cuts off clients
  that answer (`AnsweringClientStays` assumes more; the defaults are 10s and
  60s). A session is authenticated at its upgrade only: it outlives a disabling
  or deregistration of its device.
* Two workers may fire a rule within one cooldown, and `DeleteRule` forgets the
  cooldown of a rule a worker still holds a copy of; `CooldownIsKept` says that a
  firing too soon always went by an entry of the map that had been, or was about
  to be, overtaken.
* A rule patch without a cooldown resets it to 0; an unknown aggregate or a
  failed save ends the evaluation of every later rule.
* `max_concurrent` is validated and stored and never read.
* Ingest accepts data with an empty key; the store then refuses the whole message
  after it was acknowledged (`AcceptedIsStorable`).
* PostgreSQL: outside `ListJSON` `rows.Err` is never asked, so a result cut short
  reads as complete (`NoneFound` in FirmwareUpgrade, `Parts` in PagedListing): a
  walk then ends early, with no sign of it; `ListDevices` filters after LIMIT and counts
  the page (`WalkFindsAll` leaves that listing out and says so); `ListTasks`
  ignores its device filter.
* `IngestBatch` accepts the messages before the one that fails and answers with
  the error only. Several workers may report attribute changes of one device in
  another order than they were accepted. What is on the queue at shutdown is lost.

## Proofs

Every theorem holds for all values of the constants that satisfy the named
`ASSUME` of its module, which says no more than that bounds are naturals, limits
positive, `None`-like values no records, numbers or Booleans, JSON atoms no maps or lists,
and that the depth a patch may have is one the decoder accepts. The theorems
with hypotheses of their own are named with them below.

* **CommandQueueProofs.** `TypeCorrect`, then `Invariance`: `IInv` adds to the
  types *who owns an id*. An Enqueue that has not saved holds an id no row, no
  index entry and no other Enqueue has (`FreshIds`); every other copy under way
  belongs to a stored command and has its key (`CopiesKeepKey`); so no save can
  move an index entry to a command of another key (`IndexSound`), and every
  answer stays indexed (`AnswersIndexed`). `AnsweredKeyFound` alone is not
  inductive: a save of a copy with a foreign key would break it.
  `AnsweredKeyIsFound` and `OneAnswer` follow. `ImplementsRegistry`: with the
  unique index the queue implements `KeyRegistry`: the first save of a key binds
  it, an answer tells it, and every other step is a stutter.
  `LifeInv` is about the commands themselves: stored or in a copy, a command has
  lived one of four lives (pending; retried once; settled at once; settled after
  the retry), its status, retry counter and audit trail agree on which,
  and one that may still be retried was delivered once at most. From it
  `LegalAudits`, `BoundedDeliveries`, `EarnedTimeouts` and `PollFinds`, although
  stale copies overwrite each other: each of them has a life of its own.
  `SettledIsReadOnly` is an action property: whoever changes a settled command
  read it before it was settled.
* **DigitalTwinProofs.** `IInv`: a copy under way is the loaded document with a
  patch in one half, its desired half one that was computed
  (`DesiredIsNeverInvented`, `FreshSaves`). `SerialImplementsRegisters`: with
  one writer the module implements `TwinRegisters`, by the refinement
  `desired`, `reported` = the stored document's halves, or blank ones; the extra
  invariant is that the loaded document is the stored one.
* **FirmwareUpgradeProofs.** `IInv`: a receipt under way has an id of its own, a
  report's copy belongs to its receipt's device (`AnswersGoToOwner`).
  `SerialLimit` (hypotheses: one handler at a time, memory repository): one active
  upgrade per device. `OverlapLimit` (hypothesis: finitely many handlers): however
  they overlap, no more than there are handlers. What is counted is the active receipts
  and the handlers about to save one: a handler starts only on a device without an
  active receipt, and its save moves one from the second count to the first.
  `RollsBackFirst`: a task's rollback flag is set once and copied ever after, so
  the flag CompleteReceipt decided by is the one the failed receipt is judged by.
  `OverIsSealed` and `CompletedSealed`: the steps that write a task that is over,
  or a completed receipt, are those of requests that read it before.
* **DeviceIdentityProofs.** `IInv`: an undisturbed request is its device's only
  one, and no copy under way on a shut device can open it. From it
  `UndisturbedDeregistrationIsFinal` and `NobodyEntersShutDevice`. `CredentialInv`
  follows the credentials: on the memory repository a promised one is stored, and
  in every copy that may be saved over it (`CallCarries`); a superseded one is not
  the principal's and no request holds it, so nobody can bind it again (`Gone`).
  From it `HandedOutCredentialWorks` and `SupersededCredentialIsDead`, the latter
  on either repository.
* **RuleEngineProofs.** `IInv` has two halves. Requests: one that is alone with
  its rule is the only one that holds it, and neither the stored rule nor a copy
  under way enables a silenced rule (`Silent`). Firings: as long as what a worker
  read from the map is the rule's latest firing (`stale` is not set), the cooldown
  it checked is over at the time it will store (`Cooled`); `CooldownIsKept` alone
  does not relate the clock a worker has read to the last firing. `Recorded` follows from the saves.
  `InWindow` is an action property: a buffer is the end of what it held and the
  point, from a fresh point on, and order makes what follows it fresh.
* **TelemetryPipelineProofs.** `IInv`: refused, waiting on the queue, held by a
  worker or finished, the four places share no message and none holds one twice;
  every step moves one message. `OnePlace` and `Staged` count them, for any finite
  set of workers (their hypothesis). `NeverTooFarAhead`: a calibrated time is
  within the skew of the clock, which only goes on, so the store can refuse an
  accepted message for a property without a name only.
* **WebSocketSessionProofs.** `IInv` relates the two goroutines by the numbers of
  the answers: each is one more than the number of those written, being written
  and queued ahead of it (`Numbered`), from which the concatenation in
  `AnswersInOrder` follows (`InOrder`). While every message decodes the handler
  never writes, so the library's note is exactly "writeLoop is inside a write"
  (`WriteLoopAlone`) and neither check can fail (`OneWriter`). `PongsKeepUp`: with
  no ping under way the last pong is no older than the last tick of the ticker,
  with one under way the tick is of this instant; so the deadline stays ahead
  (`AnsweringStays`). `StuckForGood` is an action property: no step of
  anyone frees a stuck handler.

* **StoredDataProofs** is about what recursive functions compute: the loops over a
  batch, a range and its points, and the walks through nested maps. An induction
  theorem takes a predicate, which the provers cannot instantiate. Its place is
  taken by a set, as `Counting` says: if a set holds the first number and with each
  number the next, it holds all up to the last. The set is that of the numbers n
  for which the claim about n holds. A recursive function first has to exist:
  `LoopExists` shows it for loops over a sequence, `LevelsAre`, `MergeExists`,
  `NodesExist` and `DifferencesExist` for those over nested maps, from one
  level to the next; then the same argument says what its value is.
  * *Series.* `SeriesInv`: in time order, within the limit, and the latest time
    written is there. `SeriesInvariance` needs that a point is sorted in after the
    cut (`PointWritten`): `NewestKept` alone forgets the order, and the cut takes
    the oldest only of a series in order. `QueriesAreAnswered`: `InRange` selects
    the places of `Meant`, in order (`LoopSelects`), and a cut of a sequence in
    order keeps its oldest points. `GapsAreDetected`: what no time of the range
    lies between are neighbours of the selection (`NeighboursAre`); half an
    interval rounded down makes no difference to a comparison of whole numbers
    (`OneAndAHalf`). `AggregatesAreRight`: after n points, a bucket holds the
    minimum, maximum and count of those of them that fall into it
    (`BucketGrows`).
  * *Listings.* `Rank` is the number of listed rows before a row, its place in any
    page of a listing that settles its order, and in any page of the newest rows
    alone (`PlacesAreRanks`, for all rows that lead the listing). `NoneLeftBehind`:
    while no row leaves and no answer that the walk rests on was short, a row the client was not given and that was there at the
    beginning has its place at or behind the offset the walk goes on from; rows that
    come only push it further. `GivenInOrder`: while none comes or goes, what
    was given are the first rows of the listing, in their order, and but for a short
    answer at the end all of them. `WalksFindAll` and
    `NoRowTwice` follow; neither claims anything of a walk through
    `DevicesInPostgres`.
  * *Nested maps.* `MergingInv`: merging adds no level to the deeper of two maps
    (`MergeIsMap`), and `ValidatePatch` accepts just the maps of `MaxDepth` levels,
    lists counted (`ValidIs`), hence `DepthIsBounded`. `MergesAreOverlays`: the nodes of a merged map
    below a key are those of the value the merge takes there, and if both sides
    have a map there, those of the merge one level down (`MergedIsOverlaid`).
    `DevicesCatchUp`: below each key of the desired state the two sides are equal,
    or two maps one level down of which the same holds (`NothingLeft`).

Types are proved (`TypeCorrect`, the typing parts of every `IInv`) rather than
checked by a run, and so are two properties about single workers, `Recorded` (no
actions without a saved execution) and `Staged` (the rules see stored points
only). Every safety property and every action property a passing run checks is
stated by a theorem. Only model-checked are the four liveness properties
(`PendingEnds`, `QueueDrains`, `EndTogether`, `SilentSessionEnds`), since the
prover has no rule for fairness, and the five properties that runs show to be
violated.

## Not modelled

* MQTT and gRPC messages enter as the calls they make; their transports, TLS and
  reconnection are library code. The WebSocket's upgrade, its frames and the bytes
  that two unnoticed writers may mix are the library's.
* Routes, CORS, request metrics, logs, traces: no decision depends on them.
  The token bucket of `platform/ratelimit` has no user. Configuration is read
  once, before anything runs: its values are the modules' constants.
* The end of the process: the HTTP server's shutdown does not wait for WebSocket
  sessions, which are hijacked connections, and so they end with the process.
* Products and groups never change after creation; their look-ups are refusals.
* `EnsureInitialized`, `UpdateProduct`, `UpdateGroup`, the queue's `TryEnqueue`,
  `Close` and `Batcher`, the bus's `Close`: nobody calls them.
* SQL itself: a statement is atomic, may fail before or after it took effect, and
  upserts replace the row.

## Plan

Order of what is built, the most important behaviour first; done up to 9.

1. CommandQueue with KeyRegistry, its proofs and refinement
2. DigitalTwin with TwinRegisters, its proofs; TwinMerge, its proofs
3. FirmwareUpgrade, its proofs
4. DeviceIdentity, its proofs
5. RuleEngine, its proofs
6. TelemetryPipeline, its proofs
7. TimeSeries, its proofs
8. PagedListing, its proofs
9. WebSocketSession, its proofs
10. rate windows and scopes of authentication in a module of their own
11. event bus with several subscribers, history and unsubscribe
12. a composition of TelemetryPipeline with DigitalTwin: reports of several
    workers in the twin
13. proofs about what the violated properties leave true: what a sum is too large by,
    and which desired updates a report can take back
