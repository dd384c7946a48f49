# LagRadar: a TLA+ verification project

LagRadar watches the lag of Kafka consumer groups. This directory holds a model of its own
logic in TLA+, the TLC configurations that check the model on small instances, and proofs
about every part of it, checked by TLAPS.

Paths below are relative to the repository (`src/` in `PROJECT.json`).

## Inventory

| Part | State it keeps | Operations | Talks to |
|---|---|---|---|
| Collector (`internal/collector/collector.go`), one per Kafka cluster | sliding window per group and partition, latest status per group, readiness flag | a collection per tick, a cleanup now and then, stop on a cancelled context | Kafka client (calls), HTTP handlers (shared maps under locks), evaluation hook (callback) |
| Lag evaluator (`internal/collector/evaluator.go`) | none | status, trend and health of a window | called by the collector and the analyzer |
| RCA analyzer (`internal/publisher/analyzer.go`, wired in `internal/cluster/helper.go`) | previous status and time of the last event per partition, under one mutex | detect and publish events for an evaluated window | event publisher (call) |
| Event publisher (`internal/publisher/publisher.go`) | none of its own; dedupe keys and a stream in Redis | publish one event: SET NX, then XADD with retries | Redis |
| RCA consumer (`internal/rca/consumer/consumer.go`, `cmd/rca/main.go`) | its batch; group, last delivered id and pending list in Redis | create the group, read a batch, process and acknowledge each message | Redis, handlers |
| State store (`distributed/state/state_store.go`) | instance records, assignments with a timestamp and partition windows in Redis | register, heartbeat, mark offline, list; store and get assignments; store and get windows | Redis; no caller in the repository yet |
| Sharding (`distributed/coordinator/sharding.go`) | none | assign groups to instances with a consistent-hashing library | library |
| Cluster manager (`internal/cluster/manager.go`) | map of clusters, each with a collector, a publisher and a cancel function | add, remove, stop, read | collectors, publishers, HTTP handlers |
| HTTP API (`internal/api`) | none | reads of status and readiness | manager, collectors |
| Monitor process (`cmd/monitor/main.go`) | the manager, the HTTP server | add the configured clusters, serve, stop on a signal | manager, HTTP API |
| Kafka client (`pkg/kafka/client.go`) | an admin client and a consumer | create, close, list groups, offsets, watermarks | Kafka |
| Metrics (`internal/metrics`) | gauges and counters | written only | – |

What is hard in this code, and tests hardly reach:

* **Concurrency inside a collection.** One goroutine per group, a semaphore channel, a wait
  group, a buffered result channel closed by a goroutine of its own, and HTTP handlers that
  read the results while they are stored.
* **Failure of a part.** A listing, a group, a partition, a Redis command or its reply can
  fail; each failure has its own early return.
* **Time.** Sliding windows that must stand for a longer history, a cooldown between events,
  deduplication windows, keys that expire between two commands.
* **Clusters that come and go.** The manager cancels contexts and closes clients under
  collections and publications that are using them, and a name can be taken again at once.
* **Several processes on one Redis.** Publishers, consumers and state store callers
  interleave command by command, crash and start again.

`PROJECT.json` lists these hazards at their lines, with the properties that would catch them.

## Modules

| Module | Models | Correspondence |
|---|---|---|
| `Collector` | the collector | `loop` is the program counter of `StartPeriodicCollection` with the collection inlined; `worker[g]` that of the goroutine of group g; `sem`, `results`, `closed` are the channels (the wait group is the set of goroutines that are not done); `windows`, `statusStore`, `hasCollected` the fields. One action per channel operation, lock region or client call; the two deferred calls are two actions in last-in first-out order. |
| `AbstractCollection` | what a collection promises | no goroutines: each listed group is published or fails, once, in any order |
| `CollectorRefinement` | – | the mapping under which `Collector` implements `AbstractCollection` |
| `ClusterManager` | manager, Kafka client, `main` of the monitor, readiness handler | every `CollectorCluster` ever made has a number and is a record of its client, publisher, context and loop; one action per call that creates, cancels, closes or registers something while the manager's lock is held, and one per read of the handler |
| `Routes` | paths and joined keys of the HTTP API | operators on sequences of path segments |
| `LagEvaluator` | the evaluator | one operator per method; floats are fractions `<<n, d>>` compared by cross multiplication |
| `PartitionMonitor` | evaluator and analyzer on one partition | `Check` is one collection's pass over the partition: read offsets, add to the window, evaluate, run the hook. A partition is checked by one goroutine at a time and the hook holds a mutex, so it is one step. |
| `EventPublisher` | the publisher | one action per Redis command and outcome; `pc` is where `PublishPartitionEvent` is |
| `RCAConsumer` | consumers of one group | one action per Redis command and outcome, per message processed, per turn of the loop |
| `RCAPipeline` | the hook of `helper.go`, the publisher, the stream and the consumers | instances of `EventPublisher` and `RCAConsumer` on one stream, behind the analyzer's mutex, with a publisher that may be closed at any moment |
| `InstanceRegistry` | instance records of the state store | one action per Redis command; calls of several callers interleave between them |
| `Sharding` | `AssignGroups` | an operator; the library's ring is any function from groups to instances |
| `AssignmentStore` | assignments of the state store | as `InstanceRegistry`; a MULTI/EXEC transaction is one action; what is stored comes from `Sharding` |
| `*Proofs` | – | theorems about the module of that name; `CollectorProofs` and `ClusterManagerProofs` also prove the refinements |
| `MC*` | – | constants, symmetry and, in `MCPartitionMonitor`, the scenario of the README for TLC |

A definition whose comment starts with "Mutant" is a plausible slip in the code that the
definition after it models; it is used by nothing but the mutation runs, which show that the
property it is listed with in `PROJECT.json` can fail.

Kafka, Redis, time and crashes are external. Kafka calls answer anything, or fail. A Redis
command is atomic; it can get lost on the way there (no effect) or on the way back (effect,
and an error for the caller). go-redis then sends it again on its own, up to three times, because
nothing in the repository sets `MaxRetries` of its options: SET NX and XADD of the publisher, and
the commands of the state store, take effect once more each time (`Repeat`, `ClientRetries`;
`Repeated`, `ExecRepeated`). For what repeats do to the consumer's commands, see the header of
`RCAConsumer`.

Abstractions worth knowing:

* A record of a window and the `LastUpdateTime` of a status are the number of the collection
  that made them. This keeps what matters: which is newer, and whether two belong together.
* In `Collector` the evaluator is free to give any health for a window with enough records;
  `PartitionMonitor` has the real evaluator.
* A group id is a sequence of colon-free segments, so `"a:b"` is `<<a, b>>`: the cleanup cuts
  the id out of a window key at the first colon.
* In `PartitionMonitor` time is counted in five-second units in the runs, so that the default
  10 s interval and 45 s inactivity timeout are 2 and 9.
* A field of the stored assignments is the number of the store that wrote it; `plan` says
  what `AssignGroups` had returned for that store.
* In `ClusterManager` the collector of a cluster has one group. `LoopsAreCollections` checks
  that such a loop is an `AbstractCollection`, which `ImplementsCollection` shows the full
  collector to be. Once a Kafka client is closed, its calls fail.
* A failed ping leaves a cluster without a publisher and its Redis client, which nobody closes,
  as a `stray` of the cluster. The end of the process is not a step:
  it only cuts a behaviour short. The reads of the aggregated list are one step.
* `RCAPipeline` has one deduplication window and consumers that are not disturbed; the expiry
  of keys and the faults of consumers are in the modules it composes. Faults of Redis, repeats of
  go-redis and restarts of the monitor are in it.
* A path that net/http's ServeMux cleans (`.`, `..` and empty segments) is redirected before the
  switch of `main` sees it; `Clean` of `Routes` says which ones.

## Runs

Passing runs:

| Run | Bounds | Shows |
|---|---|---|
| `collector_history` | 2 groups, limit 2, 3 collections, windows of 2 | no send after close; every listed group is stored or counted; readiness is truthful; statuses and windows only move forward and survive the cleanup; the published status is never older than a window; the collector implements `AbstractCollection` |
| `collector_liveness` | 2 groups of 2 partitions, limit 1, 1 collection after any number of failed listings | tokens are neither leaked nor returned twice and no send blocks while the spawn loop waits for a token; the published health is the worst of the partitions, each is in one list, and none with a record of that collection is missing, whichever others are skipped; a collection ends; a cancelled collector stops |
| `monitor` | window 6, up to 7 checks with gaps, production in {0, 1200}, consumption in {0, 1, 2400}, cooldown of 3 checks, failing publications | STOPPED says exactly what it should about the whole history; ACTIVE and LAGGING are never said of a consumer that stands still or has caught up; the trend never contradicts a monotone lag; events keep their distance |
| `publisher_faults` | 2 processes, a call each, 2 attempts, 1 repeat, all faults, 4 points in time, windows of 2 | deduplication across processes, also when the key expires; return values agree with the stream |
| `pipeline_endtoend` | 2 goroutines, 2 events, 2 attempts, 1 repeat, 1 consumer with batches of 2, all faults, a publisher closed at any moment | every goroutine leaves the hook; what was published is handled, also from before the consumer started; what was suppressed as a duplicate is handled, its failure was logged, or it is one of two named exceptions; nobody hears twice without a lost reply or a failed check |
| `consumer_faults` | 2 consumers, batches of 2, 3 entries, all faults | no event handled twice or out of order; what was not handled is pending; every valid entry that no fault orphans is handled; a cancelled consumer stops |
| `registry_listing` | 2 instances, 3 callers with a call each, 3 points in time, 2 SCANs, failing and repeated commands and lost replies | a paged listing is accurate under changes or fails; an instance marked offline stays so until revived, which only a registration does |
| `assignments_overlap` | 2 instances, 2 groups, 3 callers, 2 stores, 4 points in time | a reader gets the latest store as a whole, with one instance for each group, and an empty map only if that store was given no instances or there was none; what passed the check of the timestamp was not stale then |
| `manager_lifecycle` | 1 name, 2 clusters made under it, 1 operator besides `main`, 1 listing per cluster, RCA on, 9 group ids | open clients have an owner, but for those of failed pings; a registered cluster is monitored; a removed one begins nothing and stops; `Stop` closes all it can know of; readiness replies are given and consistent; the loops are collections; paths and lists lead to the right group |

The bounds are small but not too small for the case they are about: two groups against one
token make the spawn loop wait while results pile up; three collections with windows of two
make windows drop records; two partitions can be in two lists or one of them in none; two
calls and three units of time let a key expire and be set again; one repeat is enough for a call to find its own
key and for an attempt to leave two entries; two batches let a consumer crash with messages
pending (nobody takes its place, see `consumer_existing_group`); three callers let a listing
overlap with a heartbeat and a registration or an offline mark of the same instance; two clusters
under one name let a cluster be added while the loop of its predecessor is still in a collection,
and while `Stop` waits for the lock. A process that crashes and calls again is in
`pipeline_endtoend`; a crash of one of the two processes of `publisher_faults` leaves the other.

Violations. Each of these runs checks one sentence of the repository's documentation or
comments and shows a behaviour of the code that contradicts it:

| Run | What the code does |
|---|---|
| `monitor_stop_announced` | with the default settings a consumer that stops becomes STALLED first, and STALLED to STOPPED publishes nothing (`internal/publisher/analyzer.go:85`, `README.md:174`) |
| `publisher_clusters` | an event of one cluster silences that of another, the fingerprint having no cluster (`internal/publisher/publisher.go:159`, `README.md:47`) |
| `consumer_existing_group` | a consumer that finds its group existing when it asks for it does not start, with no fault and nobody stopping it: the text of the error it expects is not the one Redis sends (`internal/rca/consumer/consumer.go:57`, and line 50) |

A consequence of `consumer_existing_group` is visible in `consumer_faults`: of several
consumers only the one that created the group ever consumes, and once it has gone nobody does,
which is why `EveryEventHandled` has to except that case.

Deadlock checking is off where the system may stop: a cancelled collector, consumers that
have nothing left within the bound, callers that have used up their calls.

### Divergences seen while modelling

The modules follow the code in these points as well; no run is devoted to them.

* `collector.go:549`: the cleanup keeps the windows of every group in the status store, which
  only grows, so the windows of a group that is gone are never removed (line 542 says they are).
* `collector.go:548`: the cleanup cuts the group id at the first colon, so a live group whose
  id contains one loses its windows. `WindowHistoryKept` is checked for colon-free ids.
* `collector.go:281`: unreadable partitions are skipped, so a group none of whose partitions
  could be read is GOOD (line 43: "Everything is working well").
* `evaluator.go:92`: the consumption rate is compared before the lag, so a consumer that has
  caught up with a quiet topic is STALLED.
* `evaluator.go:264`: with a `lag_trend_threshold` of 0, which is what a configuration without it
  gives (`cmd/monitor/main.go:122` validates nothing), nothing is less than the threshold, and a
  lag that does not change is DECREASING instead of STABLE (`ZeroThresholdFalls`).
* `collector.go:204`: with a `max_concurrency` of 0, which is what a configuration without it gives
  (`cmd/monitor/main.go:124`), the first collection that finds a group waits forever for a token
  (`ZeroLimitBlocks`).
* `analyzer.go:142`: `lag_cleared` leaves `lastEventTime` alone and so starts no cooldown;
  `EventsSpaced` is about the other events.
* `publisher.go:158`: identical events on two sides of a boundary of the time window have
  different fingerprints and are both published.
* `publisher.go:112`: after a restart between SET NX and XADD an event is suppressed as a duplicate
  of one that nobody published. The same happens when the reply to SET NX is lost and go-redis
  sends the command again: it finds the key that the call itself has set. `orphaned` of `RCAPipeline` names the two cases; nothing else loses a suppressed event unnoticed.
* `publisher.go:123`: go-redis repeats an XADD whose reply it lost, so `MaxRetries` does not bound
  the entries of a call, and one that returns nil may have left several.
* `consumer.go:83`: only `>` is read and nothing is claimed, so entries that were delivered
  and not processed are never read again. `Orphaned` of `RCAConsumer` names them.
* `state_store.go:103`: a heartbeat renews the key but not `LastHeartbeat`, so a beating
  instance stops being active after `InstanceTimeout`.
* `state_store.go:95-103`: a key that expires between EXISTS and EXPIRE is gone although the
  heartbeat returns nil.
* `state_store.go:103`: a heartbeat for an instance that was marked offline renews the key of
  the offline record, so the instance stays offline for as long as it beats.
* `state_store.go:196`: once the timestamp has expired, assignments of any age are served;
  `CheckedIsFresh` is about readers that found a timestamp.
* `sharding.go:73`: without instances the assignment is empty, and storing it erases the
  previous one; a reader then gets an empty map and no error.
* `cmd/monitor/main.go:208`: a group whose id ends in `/status` or `/groups`, or is `status` or
  `groups`, cannot be asked for: its path is taken for that of a cluster. The same holds for
  clusters with a slash in their names.
* `cmd/monitor/main.go:222`: the legacy endpoint keeps the collector that `default` had when the
  server started.
* `manager.go:230`: a cluster added after `Stop` does one collection at most and stops, but its
  clients are never closed. `main` ends soon after `Stop`, so it matters to other users of the
  package only.
* `manager.go:140`: the gauges of a removed cluster keep their last values, and a collection
  that was in progress may still write them when a new cluster has the name.
* `publisher.go:43`: a Redis client whose ping fails is dropped without being closed; `HandlesOwned`
  says that no other client is left behind (`StraysOfPings`).
* `cmd/monitor/main.go:207`: ServeMux redirects a path with an empty, `.` or `..` segment, so a group whose id has
  one cannot be asked for; only an empty last segment (a trailing slash) gets through.

### Fairness

* `Collector`: goroutines that can run are scheduled, and Kafka calls return because the
  client sets timeouts (weak fairness of the loop, of each goroutine and of the closing
  goroutine). A Go `select` with several ready cases picks one at random, hence strong
  fairness of `Done`, which a ready ticker can keep from being picked only so often. Nothing is assumed about which answer Kafka gives.
* `EventPublisher`: a call goes on (weak fairness per publisher). The retry loop sleeps a
  finite time.
* `ClusterManager`: callers of the manager, `Stop`, the readiness handler and the collections go
  on (weak fairness), since calls to Kafka and Redis return; strong fairness of `Done` as in
  `Collector`. Nothing makes anybody add, remove or probe.
* `RCAPipeline`: a Go mutex does not starve a waiter (strong fairness of `Lock`); the hook, the
  publisher and the consumer go on (weak fairness).
* `RCAConsumer`: a running process goes on, and one that is down is started by its operator
  (weak fairness). Redis, asked again and again, does not fail every time (strong fairness of
  a successful XGROUP CREATE and XREADGROUP); nothing is assumed about acknowledgements, and
  crashes and lost replies may go on forever.
* `PartitionMonitor`, `InstanceRegistry`, `AssignmentStore`: only safety is checked.

## Proofs

Eight modules, each named after the module it is about, prove the theorems below with TLAPS.
All of them hold for every value of the constants within the named ASSUMEs of the module; what a
theorem of a property adds to its run is that no bound of the run matters.

| Theorem | States | Rests on |
|---|---|---|
| **`CollectorProofs`** | | |
| `TypeCorrect` | `[]TypeOK` | – |
| `Concurrency`, `CloseIsSafe`, `SendsHaveRoom` | `[]ConcurrencyLimit`, `[]NoSendOnClosed`, `[]SendNeverBlocks` | `ControlInv` |
| `NothingLost`, `ReadyIsTruthful`, `StatusMonotonic` | `[]EveryGroupAccounted`, `[]ReadyMeansStatus`, `StatusNeverGoesBack` | `StoreInv` |
| `HealthIsSummary` | `[]HealthSummarises` | `HealthInv`, `CoverInv` |
| `StatusesKeepUp`, `HistoryKept` | `[]StatusKeepsUpWithWindow`, `WindowHistoryKept` | `RecordInv` |
| `CollectorImplementsCollection` | `ImplementsCollection` | `StoreInv`, `PublishedInv` |
| `CollectionsAreFinite` | every step of a collection but a cancel ends it or lowers the natural number `StepsLeft` | `ControlInv` |
| `NeverStuck`, `ZeroLimitBlocks` | in a collection somebody can always go on, given a token; without one no status is ever stored and the first group is waited at forever | `ControlInv`, `TypeOK` |
| **`ClusterManagerProofs`** | | |
| `NoHandleLeaks`, `RegisteredMonitored`, `StopLeavesNothingOpen` | `[]HandlesOwned`, `[]RegisteredIsMonitored`, `[]StopClosesAll` | `LockInv`, `OpenInv` |
| `RemovedClustersBeginNothing` | `RemovedBeginsNothing` | `LockInv`, `OpenInv` |
| `ReplyIsConsistent` | `[]ReplyConsistent` | `ReadyInv` |
| `LoopsImplementCollection` | `LoopsAreCollections` | `CountInv` |
| `GroupPathsLeadToGroups` | `[]GroupPathLeadsToGroup` | `LockInv` |
| `LockIsGivenBack` | the holder of the lock is `HoldLeft` steps from giving it back, and each of its steps lowers that | `LockInv` |
| **`PartitionMonitorProofs`** | | |
| `StoppedSaysWhatHappened`, `MovingConsumersMove` | `[]StoppedIsExact`, `[]MovingIsReal` | `HistoryInv` |
| `CooldownHolds` | `[]EventsSpaced` | `EventInv` |
| `TrendsFollowLag`, `ZeroThresholdFalls` | `[]TrendFollowsLag` for thresholds other than 0; with 0 a constant lag is DECREASING | `SumLagMonotone`, `InductiveSet` |
| **`EventPublisherProofs`** | | |
| `Deduplicated` | `[]DedupeHolds` | `ClaimInv` |
| `ReturnsMatch` | `[]ReturnMatchesStream` | `CountInv` |
| `CallsAreBounded` | a call has at most `(MaxRetries + 1) * (1 + ClientRetries)` commands left, and each lowers that | `CountInv` |
| **`RCAConsumerProofs`** | | |
| `HandledOnce`, `UnhandledPending` | `[]HandledOnceInOrder`, `[]UnhandledStaysPending` | `OrderInv` |
| **`RCAPipelineProofs`** | | |
| `HeardOnceHolds` | `[]HeardOnce` | the invariants of publisher and consumers |
| `SuppressedIsNotLost` | of a suppressed event there is an entry that is handled, pending or still to be read, or a logged failure, or its key was left behind by a call that took it for that of another or was cut off by a restart | `KeyInv`, the invariants of both halves |
| **`InstanceRegistryProofs`** | | |
| `RetiredStaysInactive`, `ListingAccurate` | `[]RetiredIsNotActive`, `[]ListingIsAccurate` | `RetireInv`, `ListInv` |
| `RevivedOnlyByRegistration` | `RevivedByRegistration` | `ControlInv` |
| **`AssignmentStoreProofs`** | | |
| `GroupsWatchedOnce`, `CheckedAssignmentsFresh` | `[]EveryGroupWatchedOnce`, `[]CheckedIsFresh` | `WholeInv`, `FreshInv` |

Every proof also uses the `TypeOK` of its module, which is proved first. `ReadyMeansStatus` has
a proof and no run; the same is true of the theorems whose statement is given in words above.

### Assumptions

* `Collector`: the set of groups is finite, `WindowSize` is positive and `MaxConcurrency` is any
  natural number, since the code does not check it. Only `NeverStuck` needs a positive one, and
  `ZeroLimitBlocks` says what happens with 0. `CollectionsAreFinite` needs the partitions of a
  group to be finitely many. `HistoryKept` has one hypothesis
  more, `KeyGroup(g) = g`: the text before the first colon of a window key is the group id. It
  is true of the ids without a colon and false of the others, whose windows the cleanup does
  remove (see the divergences).
* `PartitionMonitor`: `WindowSize` and `CheckInterval` are positive, gaps are positive. That the
  window spans the inactivity timeout is a premise of `StoppedIsExact` itself, since with a
  shorter window the code can say STOPPED of nobody; the defaults satisfy it. `TrendsFollowLag`
  needs a trend threshold other than 0, without which the property is false.
* `EventPublisher`, `RCAPipeline`: `DeDupeWindow` is positive (`Truncate` and a time to live of 0
  mean something else to Go and to Redis); there is something to publish. `MaxRetries` may be 0.
  `ClientRetries` is any natural number, and `Faults` any set of them.
* `RCAConsumer`: `BatchSize` is positive (with COUNT 0 Redis has no limit).
* `InstanceRegistry`, `AssignmentStore`: times to live are positive, which Redis demands.
* `ClusterManager`: there is a name; a group id is not empty; the callers of the manager have
  names other than the ones the module uses for `main` and for nobody.
* Every bound (`MaxRounds`, `MaxCalls`, `MaxClock`, ...) is any natural number.

### Arguments

**Collector.** Layers, each inductive relative to those before it.

1. `TypeOK`, by itself.
2. `ControlInv`: pending groups, goroutines and buffered results all belong to the collection
   in progress; a group is in at most one of the states "pending", "has a goroutine that has
   not sent", "has a buffered result"; a closed channel has no goroutine left; the tokens in
   `sem` are the goroutines that hold one. None of `ConcurrencyLimit`, `NoSendOnClosed` and
   `SendNeverBlocks` is inductive alone. That a goroutine has room to send follows by
   counting: the groups of the buffered results are distinct, listed, and other than the
   sender, so there are fewer than there are slots.
3. `StoreInv`: a group whose result is still under way has neither a status of this
   collection nor a scrape error; every other listed group has one or the other. At the end
   of a collection nothing is under way, which is `EveryGroupAccounted`; a stored result
   replaces an older status, which is `StatusNeverGoesBack`.
4. `HealthInv`: the lists a goroutine is building hold partitions it has taken off its list of
   offsets, each in one list only; a status that is being sent, buffered or stored has the
   health of its worst list. `HealthSummarises` says nothing of statuses under way and so is
   not inductive alone. `CoverInv` follows the other half of it, that no partition with a record of
   this collection is missing, from a group that has no such record yet through the lists of its
   goroutine and the channel to the store. It rests on the layers before and on the next one, which
   says that there is no record of a collection to come.
5. `RecordInv`: no record is from a later collection than the one in progress, and none is newer
   than the stored status unless a later status is under way (`Carries`). The
   property speaks of the pause between collections, when nothing is under way.
6. `PublishedInv`: as soon as a status of this collection is stored, and before the next result
   is taken, the readiness flag is set. Storing and marking are two steps, and the abstract
   collection may mark itself ready only after publishing a group and may not end before.

The refinement then goes action by action: a listing that succeeds is `Begin`, a received result
`Publish` or `Fail`, and `MarkReady`, `EndRound`, `Cancel` and `Done` have their namesakes;
whatever spawns, acquires, sends, releases, waits or closes is a stutter, because it only moves
a group from one of the three ways of being left to another. `StoreInv` gives the end of a
collection that nothing is left.

That a collection ends has three parts, two of which are proved. `StepsLeft` adds the sizes of
eight sets and the few steps that carry no group (the end of the spawn loop, the mark, the closing
of the channel). A step that carries a group shrinks one of the sets and enlarges none; a buffered
result counts two, because receiving it leaves the collector one
step from marking itself ready. So a collection is a finite number of steps away from its end
(`CollectionsAreFinite`). And while it is not over, someone can take such a step (`NeverStuck`): a
spawn loop without a token means that the tokens are held by goroutines, which never wait, because
each has room to send. What remains to `CollectionEnds` is that those who can go on do, which is
fairness.

**Cluster manager.** `LockInv` says for each caller what the call has made of its cluster so far
(`Holding`), and that callers inside the critical region and the lock agree. `OpenInv` is the
properties themselves, together with the one fact that `StopClosesAll` does not say: while
`Stop` closes clients, whatever is still open is on its list. `StraysOfPings` goes its own way
through the steps: only `NewPublisher` makes a stray, and only of a cluster that then has no
publisher. The steps of the collections
change what `HandlesOwned` looks at in no cluster but their own, so one lemma about what a loop
may do to its record (`LoopSteps`) serves all invariants. `CountInv` tells a group that fails
from one that is published in the same round, without which the mapped step would be ambiguous.
`HoldLeft` counts the steps from where the holder of the lock is to its Unlock, one per cluster on
the list of `Stop` included; nobody else changes what it counts.

**Partition monitor.** The window forgets. `HistoryInv` says what it still knows of the history
that the observer (`lastMove`, `sightings`) has in full: as many of its last records show the
current offset as there were sightings, the record before them shows another one, and the
records are at least a check apart (`Spaced`). That last part bounds from below the time that a
full window of equal offsets stands for, so that the code's comparison of two time stamps
inside the window is the one about the whole history. `EventInv` ties `lastEventTime` to the
latest event that counts; the events of one check all bear its time.

The trend compares the sums over the first and the last third of the window, for windows of every
length. The prover cannot use an induction theorem over an operator, so `InductiveSet` derives
induction for a set of naturals from what it has on finite sets: if a set with 0 and the successor
of each member missed some n, adding one would map its members below n one to one into those
other than 0, which are one fewer.
With it the sum is shown to be a natural number and monotone in the lags (`SumLagMonotone`), and in
a window whose lag never falls, every record of the last third has at least the lag of the one in
its place in the first.

**Publisher.** `ClaimInv`: a call that SET NX let through at t, and each entry it made, has its
key in Redis at least until t + `DeDupeWindow`. A second call let through for that key has come
later; keys are only written where there are none, so nothing shortens them. `CountInv` counts
the entries of a call by the replies it has lost, and those by its attempts and the repeats of the
current one, and so bounds what it may still do (`CallsAreBounded`), which matters because the analyzer's mutex is held meanwhile.

**Consumers.** `OrderInv`: what a consumer holds and what its handlers saw is ascending, not
beyond what the group has delivered, and apart from what everybody else holds or saw. Since
XREADGROUP > only delivers what is beyond, new entries are after all of it.

**Pipeline.** `PublisherInv` and `ConsumerInv` are the invariants of the two halves under the
substitutions of `RCAPipeline`; the theorems of their proof modules carry over by INSTANCE, so
the composition only has to show that the actions of the hook are steps or stutters of the
publisher, that the consumers' stream only grows, and that a growing stream takes nothing from
the consumers. `HeardOnce` is then: handlers get each position once (consumers); two positions
of one fingerprint with claims are from one call, since all claims are made in the one window
(publisher); and two entries of a call mean a lost reply (publisher).

`SuppressedIsNotLost` needs to know what a key in Redis stands for. `KeyInv`: an entry with its
fingerprint, a failure to publish one that was logged, a key left behind without an entry
(`orphaned`), or the event of the call in progress. That call is past its own SET NX, and cannot be
suppressed by the key any more, or go-redis is repeating that SET NX, and then the key it finds is
its own, which makes it `orphaned`. Entries are never removed, and by
`UnhandledStaysPending` of the consumers one that was delivered is pending or handled.

**State store.** `RetireInv` adds to `RetiredIsNotActive` that nobody is in the middle of a
call that could revive the instance. `ListInv`: an instance that has been active throughout
is found, on the page being read or still to be scanned. `WholeInv`: the hash is what
the latest store was given, all of it and nothing else, and what a reader was served is what the
store that was then the latest was given, the empty assignment included; the transaction makes it
true, and repeating one changes nothing unless another store has come between.
`FreshInv`: the timestamp in Redis is never later than the store whose fields are there, and
the fields a reader is about to get are not older than those it checked.

### Only model-checked

* The liveness properties: `CollectionEnds` and the other leads-to properties of the collector,
  the consumers, the pipeline and the manager. Fairness and ENABLED are out of the prover's
  reach. Proved of them is what needs neither: that a collection, a call of the publisher and a
  hold of the manager's lock are finitely many steps long, and that a collection is never stuck.
* The violations, which are single behaviours.

## Refinement

`AbstractCollection` is what the rest of the system relies on: a collection takes a set of
groups, publishes each or counts it as failed, exactly once and in any order, is ready once it
has published, and stops only between collections. `ImplementsCollection` (`collector_history`)
shows that `Collector`, with its semaphore, goroutines, buffered channel and closing goroutine,
implements it: the groups that are left are those pending, with a goroutine that has not sent,
or with a buffered result. `LoopsAreCollections` (`manager_lifecycle`) shows that the loops of
`ClusterManager`, whose clients may be closed under them, are such collections too, which is
what entitles that module to leave the goroutines out.

## Not modelled

* Gauges, JSON, YAML, log messages: they are written and never read back.
* `/health`, `/api/v1/config`, the list of clusters and the legacy status endpoint: they format
  one value.
* `StorePartitionWindow` and `GetPartitionWindow` of the state store: one SET and one GET, with
  no caller.
* The consistent-hashing library and librdkafka: how evenly groups are spread, and what the C
  library does when a client is closed during a call (the model says the call fails).
* The trimming of the stream at 100000 entries.

## Plan

Done: `Collector` with `AbstractCollection` and its proofs, `LagEvaluator` and
`PartitionMonitor`, `EventPublisher`, `RCAConsumer` and `RCAPipeline`, `InstanceRegistry`,
`Sharding` and `AssignmentStore`, `ClusterManager` and `Routes`.

All safety properties of the runs are proved, invariants and action properties, both refinements
included, and so are the finite and deadlock-free halves of what a collection's end rests on.

What could be added:

1. The same halves for the consumers: that a batch is finitely many steps long, and that a consumer
   that has stopped for no fault can always go on.
2. Lemmas about `LagEvaluator` for single verdicts, such as that a window without enough records
   is never called anything else, and about `Sharding`.
3. The partition windows of the state store, once something in the repository calls them.
