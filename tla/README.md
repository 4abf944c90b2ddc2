# prometheus-scrape-rs in TLA+

A verification project for the scraping agent in `src/`: TLA+ modules of its
concurrent core, TLC configurations that check them on small instances, and
TLAPS proofs of their main safety properties for every value of the constants.

    tlc -workers 2 -config <run>.cfg MC<module>.tla
    tlapm <proof module>.tla

`PROJECT.json` lists the runs, the mutants that show each property can fail,
the source lines every definition stands for, the hazards the properties are
aimed at, the findings and the theorems.

## 1. Inventory

The agent is one tokio process. `main` loads a configuration, spawns a pipeline
(senders, then scrape jobs), waits for a reason to stop, ends the pipeline from
the scraping side to the sending side, and starts again or exits.

| component | source | state | operations |
|---|---|---|---|
| lifecycle | `main.rs`, `web.rs` | configuration, readiness, lifecycle channel, pending signals | load, spawn, wait for signal or request, stop, join, HTTP request, answer, time-out |
| discovery | `sd.rs`, `sd_k8s.rs` | reflector stores, notify channel, update channel, merger slots, watch channel | refresh files, watch event, notify, debounce, rebuild, send, merge, publish, borrow |
| scrape jobs | `scrape.rs` (`run_job`, `scrape_loop`) | map of running targets, one task per target, removal and shutdown signals | connect, diff the target set, remove and join, start, scrape, leave |
| staleness | `scrape.rs` (`SeriesTracker`) | retained body, series hashes, share of a global gauge | advance over a scrape, re-derive markers, drain, drop |
| remote write | `remote_write.rs` | one queue, buffer and request per endpoint, drop counter | fan out, receive, split, deadline, flush, retry, drain |
| relabelling | `relabel.rs`, `hash.rs` | none | process a label set |
| parsers | `parser.rs`, `protobuf.rs` | none | text and protobuf expositions to series |
| encoding | `model.rs`, `remote_write.rs` | scratch buffers | remote-write 1.0 and 2.0 messages |
| scrape data path | `scrape.rs` (`build_targets`, `accept_header`, `read_body`, `finalize_series_labels`, `scrape_once`) | none | target of a group, offer, answer, batch |
| configuration | `config.rs` | none | deserialise, validate, durations and sizes, settings of a job |
| target groups | `sd_k8s/targets.rs` | none | pods and slices to label maps |
| telemetry | `telemetry.rs` | atomic counters | add, render |
| clients | `auth.rs` | none | TLS, credentials |
| PGO harness | `pgo.rs`, `benches/`, `examples/` | none | build-time workloads |

How they interact:

- `main` -> jobs and loops: a watch channel `shutdown`; jobs are joined first.
- loops -> senders: `RemoteWriteHandle::send` never blocks; the last handle
  dropped closes the queues, and `main` then joins the senders.
- sources -> merger -> job: an mpsc channel of `(slot, groups)`, then a watch
  channel that is written only when the merged list differs.
- job -> loop: a watch channel `removed` and the join handle, awaited before
  the job goes on.
- web task -> main: an mpsc channel of four requests, each with a one-shot
  channel for its answer, under a time limit of five seconds per connection.

What makes each of them correct, and hard:

- *remote write*: an endpoint stores what it accepted in order and once, over
  retries and lost answers; nothing is lost that is not counted or abandoned;
  no request is too long; a drain leaves nothing behind and ends. Hard because
  a counter is kept beside the buffer over three flush sites and a request may
  fail after it was stored.
- *staleness*: a body kept over many scrapes must still yield exactly the
  tracked series, whatever the timestamps, formats and failures in between;
  every series that ends gets its marker; the gauge must be given back on every
  exit.
- *scrape jobs*: never two loops for one target; a removed target's series end;
  a continuing one's do not; a stable target set is reached; a shutdown in the
  middle of anything ends the job after its loops. Hard because every await is
  a point where discovery, removal and shutdown may overtake each other.
- *discovery*: a change is never lost between event, notification, rebuild,
  merge and publication although notifications are dropped and stores are read
  one after the other; sets never go back in time.
- *the process*: the pipeline of a turn ends from the loops to the senders, and
  wholly before the next one starts; a failing endpoint delays a reload and
  loses none of it. Hard because the order is kept by handles being dropped and
  tasks being joined, in several functions.
- *lifecycle*: a failed reload changes nothing, a quit is final, an answer tells
  what happened, no signal is lost, whatever the process is in the middle of.

## 2. Modules

| module | models | kind |
|---|---|---|
| `SampleStream` | what one endpoint is promised: batches are offered, delivered in order, given up as a whole, or refused and counted | abstract |
| `RemoteWrite` | handles, queues, senders and receivers; `Stream` instantiates `SampleStream` | detailed |
| `RemoteWriteProofs` | theorems about it, and that it implements `SampleStream` | proofs |
| `Staleness` | trackers and the turn of the scrape loop around them | detailed |
| `StalenessProofs` | theorems about it | proofs |
| `ScrapePool` | one job and its loops | detailed |
| `ScrapePoolProofs` | theorems about it | proofs |
| `Discovery` | sources, merger, watch channel | detailed |
| `DiscoveryProofs` | theorems about it | proofs |
| `Lifecycle` | the process around the pipeline | detailed |
| `Agent` | the process with the tasks of its turns; extends `Lifecycle` | composition |
| `AgentProofs` | theorems about `Lifecycle` and about `Agent` | proofs |
| `Relabel` | relabelling: rules, fast paths, label sets | algorithm |
| `NativeHistogram` | validation and bucket reduction of native histograms | algorithm |
| `KubernetesTargets` | pods and slices to target groups | algorithm |
| `WireFormat` | lengths and bytes of remote-write messages, the symbol table | algorithm |
| `TextFormat` | the text exposition, from characters to series | algorithm |
| `ProtobufExposition` | metric families to series; extends `TextFormat` (names) and `NativeHistogram` | algorithm |
| `Quantities` | durations and sizes | algorithm |
| `Configuration` | validation, settings of a job, clients and credentials | algorithm |
| `ScrapePipeline` | targets, offers, bodies, labels and batches; extends `Relabel` and `Configuration` | algorithm |
| `PipelineProofs` | theorems about `Relabel` and `ScrapePipeline` | proofs |
| `ExpositionProofs` | theorems about `NativeHistogram` and `ProtobufExposition`, and about the conversions of `MCAlgorithms` | proofs |
| `AlgorithmProofs` | theorems about the other algorithm modules, and about `MCAlgorithms` | proofs |
| `MC...` | instances for TLC; `MCAlgorithms` feeds all algorithm modules | runs |

A definition whose comment begins with "Mutant" is a deliberately wrong form of
the definition below it; it belongs to no specification.

### RemoteWrite

A series is its position in `stream`, the sequence of everything handed to
`send`; a batch is a set of positions; what tells series apart (their kind) is
`stream[i]`. `queue[e]` is the bounded channel, `pending[e]` and
`pendingSamples[e]` the locals of `run`, `inflight[e]` the request inside
`flush`, `resume[e]` where `run` goes on when `flush` returns. `received[e]` is
the receiver's memory and `abandoned[e]` what the code gives up with a log line.

`Send` fans out in one step. `try_send` on the queues is one loop without an
await, the senders share nothing, and each queue is observed by its own sender
only, so the steps of other tasks between two `try_send`s can be moved before
or after the loop; concurrent calls of `send` reach different endpoints in
possibly different orders, which the model does not distinguish because
`ReceivedInOrder` is about one endpoint and the stream it was offered.
Durations are left out: a backoff elapses, a deadline ticks at any time.

`Answer` separates what the receiver did (`Store`) from what the sender learns:
a stored request may come back as an error and is then sent again.

### Staleness

A line of a body is a raw text with an optional timestamp; `Parsed` and `Final`
are the parser and `finalize_series_labels`, so two texts may yield one label
set. `retained[t]` keeps the body with its own scrape time. `unended` and
`forfeited` are history: label sets sent whose series nobody ended, and those
that vanished while no body was retained. The wall clock may be stepped back,
so a scrape's time is any member of `Clock`. Hash collisions are left out (the
comment on `SeriesTracker` accepts them).

### ScrapePool

`loops` holds every loop ever spawned, by number; `running` is the job's map,
`awaiting` the loop whose handle the job awaits. `pc` names the awaits and the
stretches between them. Steps of loops, discovery and shutdown interleave with
every one of them. `zeroInterval` is chosen initially: the offset of a loop is
computed modulo the interval, so a zero interval ends every loop in a panic.

### Discovery

The content of a store (a file, a reflector store) is a version number, the set
published by a source is the versions its build read. An event changes a store
or, as a heartbeat does, nothing the targets depend on. `notify` has the
permits of the notify channel, `updates` the channel to the merger. The
consumer's side is `Borrow`, with `borrow_and_update` and `changed` in one.
The branch of `sd_k8s::run` for a merger that is gone cannot be taken: the
merger ends only after its senders (see the finding `DiscoveryLeak`).

### Lifecycle

`main` names the stretch of `run` the main task is in. `Configs`, `Loads` and
`Spawns` are the files that may be there, those `load_config` accepts and those
`remote_write::spawn` accepts as well. `term` and `hup` are signals with a
permanent receiver; `int` follows `ctrl_c()`, which is made anew in each round
of the select and hears only what is sent after its first poll. The pipeline of
a turn is reduced to its phases; `Agent` gives them their tasks. `Withdraw` is a
step of its own after `wait_for_stop` has returned: a client may hold the 200 of
its quit (`main.rs:323`) while `/-/ready` still answers ready (`main.rs:216`).

### Agent

`Agent` extends `Lifecycle` and conjoins to those of its steps that touch the
pipeline what they do to it: `SpawnPipeline` starts the loops of the
configuration's targets, the self-monitor and a sender; `JoinLoops` is possible
once all have left and closes the queue; `Drain` once the sender has ended. `loop`
is a task per target (and `Self`), `sender` the state of the turn's queue,
`outbox` the number of batches accepted and not stored, `left` those of earlier
turns, which should be none, and `endpoint` fails and recovers at will. Of
`ScrapePool` there remain loops for a fixed set of targets, of `RemoteWrite` a
count; what those modules say of removal and of requests is not repeated.
It is written with the steps of `Lifecycle`, whose variables no other step
touches, so it behaves as `Lifecycle` by construction, and what is proved of
`Lifecycle` holds of it. `TurnsInOrder` says what the composition has to get
right: who may scrape, with which configuration, and what must have ended when.

### The pure parts

These modules have operators and no variables; their properties compare what
the code computes with a shorter definition of what it means.

- `Relabel`: a string is a sequence of tokens, so that joining, prefixes and
  newlines are real; a pattern is a prefix, at most one star and a suffix,
  which covers the three kinds of `classify`. The regex crate, MD5, case
  mapping and the text of numbers are parameters or marked external.
  `FastPathsAgree` compares `apply_replace` with its last path alone,
  `OneShardKeeps` runs the two rules by which agents share targets.
- `NativeHistogram`: spans and buckets as exposed; `Convert` is
  `native_histogram` without the values that pass through unchanged. Bucket
  indices have the width of their type, and counts wrap as in a release build.
  `AgreesWithExposed` compares every bucket of the result with the exposed
  buckets within its bounds, by the definition of a schema.
- `KubernetesTargets`: a group is an address and the objects its labels are
  taken from; the text of labels is left out. `seen_pods` appears as
  `JoinedPods` and `SeenPorts`; a namespace is part of a name.
- `WireFormat`: a message is the sequence of the sizes of what is written, a
  string its length. The v2 encoder is modelled up to its symbols, references
  and packed lengths; the second pass writes them with the same functions.
- `TextFormat`: a body is a sequence of characters and the parser a function of
  positions, so that the raw text of a series (its identity, see `Staleness`)
  ends where the code ends it. What a token is as a number is a parameter.
  `ReadsBack` writes series in every form an exporter may choose and reads them
  again; `AcceptsOnlyWritings` changes a character and asks that whatever is
  still accepted is a writing of what was read.
- `ProtobufExposition`: a family of metrics, with the defaults of missing
  fields; floats are digits and an exponent where their text matters
  (`format_float`). `HistogramIngested` says in which forms a histogram is to
  appear, `SeriesDistinct` that no series appears twice.
- `Quantities`: texts of durations and sizes against the sum of their
  components; `MaxNumber` is the width of a `u64`. The size parser computes in
  u128, wide enough for the digits it keeps.
- `Configuration`: a configuration is a record of the settings validation looks
  at. `Alive` are the tasks that live once it runs; `AcceptedRuns` and
  `CredentialsAsConfigured` relate what is accepted to what runs.
- `ScrapePipeline`: labels as in `Relabel`; a target's identity is the sequence
  of words that are hashed; a body is the lengths of its chunks. The sets of a
  batch are compared before the hash.

`MCAlgorithms` has one variable, the input of one of them. Its steps apply one
more rule to a label set, convert a histogram, delete a pod behind a slice,
encode another request through the same buffers, add a line to a body or change
a character of it, add a metric to a family, a piece to a quantity, a change to a
configuration, a group to a job, a chunk to a body or a series to a scrape.

## 3. Runs

| run | instance | distinct states | shows |
|---|---|---|---|
| `RemoteWriteSender` | 2 endpoints, 5 series, requests of 2 | 71,328 | types, counter, request size, order, drain, refinement of `SampleStream` with its liveness |
| `StalenessTracking` | 2 targets, 8 bodies over 5 texts, 2 clock readings | 44,850 | types, retained body, markers, gauge |
| `StalenessRaces` | the same with a relabelling that folds `b` and `bHost` | violation | see finding 1 |
| `ScrapePoolJob` | 2 targets, 3 addresses, 3 changes | 245,400 | types, one writer, quiet end, removals, markers, convergence, shutdown |
| `DiscoverySafety` | one source with 2 stores, channel of 1 | 16,270 | types, no lost wakeup |
| `DiscoveryConverges` | a file and a pod source | 239,828 | publication, monotony, convergence |
| `DiscoveryHeartbeats` | a pod source | violation | see finding 2 |
| `DiscoveryLeak` | a pod source | violation | see finding 3 |
| `AgentTurns` | 2 good configurations and a broken one, 1 target and the self-monitor, a quit and a reload request, channel and outbox of 1 | 135,852 | types, requests, what a turn scrapes and the order of its end, SIGTERM, SIGHUP and every request in the channel are carried out (also if its connection gave up), the return of a ready process |
| `LifecycleReload` | 2 configurations, one that loads and does not spawn | violation | see finding 4 |
| `LifecycleInterrupt` | 1 configuration, 1 request | violation | see finding 5 |
| `Algorithms` | label sets after up to 2 rules, histograms, clusters, messages and requests, texts, families, quantities of up to 5 pieces, configurations with up to 2 changes, targets, bodies, batches | 420,878 | `Relabelled`, `HistogramsReduced`, `PortsCovered`, `RequestsEncoded`, `TextsRead`, `FamiliesRead`, `ConfigurationsHold`, `AnswersRead`, `Identities`, `BatchesPromised` |

`CHECK_DEADLOCK FALSE` stands only where every source may be disabled and the
system then rests (the three runs with one Kubernetes source), and in
`Algorithms`, whose inputs end.

Bounds, and why they are enough:

- `MaxSeries = 5` with requests of 2 and batches of up to 3: a batch of several
  requests, a remainder in the buffer, a second batch behind it, a full queue
  and a drain with all of them occur together. `NominalBatch = 2` and
  `MinSlots = 1` scale `queue_slots` (100 and 16 in the code).
- The second endpoint differs in what it does to the fan-out (it fills up, then
  its sender panics and its queue is closed); two live senders share nothing.
- Two clock readings tell "the scrape's own time" from another one, which is
  all the comparison of timestamps distinguishes; two targets share the gauge
  and nothing else, and are exchanged by `SYMMETRY`.
- Three changes of the target set let a target be there, leave, and return
  while its old loop still runs; the theorems cover any number.
- `NotifyCapacity = 1` makes the dropped notification frequent (64 in the code);
  two versions per store after the first list give a change during a rebuild.
- `AgentTurns`: `LifecycleCapacity = 1` (4 in the code) with two requests makes
  a connection wait in `send` behind the other. `OutboxCapacity = 1` makes
  dropped batches as frequent as accepted ones. The configurations differ in
  having a target, so that a reload starts one, ends one or keeps none; the
  theorems of `AgentProofs` cover any number of all of these.
- `Algorithms`: two rules in sequence are enough for a label to be renamed onto
  another and changed, and every rule is tried on each set they leave; indices
  of 4 on either side of zero include both ends of their range, and two spans
  every kind of gap; schemas 0 to 2 stand for -4 to 8, with one below and two
  above; two pods and two ports make a slice list some ports of a pod, all or
  none; numbers on both sides of 7 and 14 bits, and a negative time, give
  varints of every shape that changes a length; four strings over two series of
  two labels reuse, skip and introduce symbols.
- The parsers, quantities, configurations and scrapes of `Algorithms`: label
  values of up to two of the characters that decide where a value, a set or a
  line ends; `LinearLimit = 2` (32 in the code) under `MaxLabelsPerSeries = 4`
  (128), so that the index of label names is built, used and overrun; bounds that
  print with and without an exponent, labels that collide with the derived ones;
  texts of `MaxPieces = 5` pieces hold
  two components with a fraction and a remainder, with `FractionDigits = 2` (19)
  and `Ki = 4` (1024) scaled so that digits are cut, and `MaxNumber = 255` (2^64 - 1)
  so that sums and products overflow; `MaxChanges = 2` settings away from a
  working configuration, since the checks of `config.rs` relate two settings at
  most; limits of 0 to 4 around up to four chunks of 1 to 3 with announced
  lengths on both sides; a label of each owner (series, target, agent) under each
  name that another one claims.

Fairness, and what in the code justifies it:

- `RemoteWrite`: weak on every sender, which tokio polls when woken. Nothing is
  needed of the choice between the queue and the deadline tick: a tick empties
  the buffer, and a queue that is closed and empty is found so in the end. Strong
  on an answer that is not an error, which is an assumption about the endpoint:
  with one that fails for ever the code retries for ever, and `DrainCompletes` is
  not claimed.
- `ScrapePool`: weak on the job and on the loop of each target (timers fire, a
  scrape has a timeout), of which one at a time has not ended by `OneWriter`;
  strong on leaving, again for `select!`. None for discovery or the shutdown
  signal.
- `Discovery`: on the tasks, not on events or rewrites; the debounce is fair
  only where events stop, which `Converges` says by its bound on versions and
  `RebuildsOnChange` leaves open.
- `Lifecycle`: weak on main, strong on the receivers of a select (the three
  signals and the lifecycle channel), among which it picks at random. Nothing is
  assumed of edits, signals, requests and time-outs.
- `Agent`: the same without SIGINT (finding 5), weak on a scrape (it has a
  timeout) and on a sender while its endpoint answers (retries go on), strong on
  leaving a loop of a target (`select!` may take the tick any number of times,
  not for ever). The liveness properties are those of `RecoveringSpec`, which
  assumes an endpoint that answers in the end: one that fails for ever holds up
  the reload or shutdown that waits for its sender for ever, with `ready` true,
  which is how the code is written (`remote_write.rs:341`).

## 4. Proofs

A proof module has an inductive invariant, that it holds initially, that every
step keeps it, and its consequences. The constants are arbitrary under the named
assumptions (`ConstantsAssumption`, `StalenessAssumption`, `PoolAssumption`,
`DiscoveryAssumption`, `LifecycleAssumption`, `AgentAssumption`,
`RelabelAssumption`, `PipelineAssumption`), which the runs evaluate.

- `RemoteWriteProofs`. `TypeCorrect`, `CounterExact`, `RequestsBounded`,
  `DeliveryInOrder`, `DrainComplete`. None of these is inductive. `OrderInv`
  puts the stages of an endpoint in a row (received, request, buffer, queue in
  order): every series of a stage precedes every one of the next, so that a
  step which moves series from one stage to the next keeps them apart, and a
  retry finds its request either stored last or not at all. `SizeInv` ties
  `pendingSamples` to the buffer in the phases where `run` looks at it and
  bounds the buffer below a request outside the split loop, and says that a
  buffer is empty when its sender ended. Finiteness of the stages, needed for
  cardinalities, comes from their being issued positions.
  `Implementation`: every step of `RemoteWrite` maps to an `Offer`, `Deliver`,
  `GiveUp` or `Close` of `SampleStream`, or to none. It
  rests on `IInv` (what is in flight is the oldest of what is due, and disjoint
  from what was stored unless it is the last request stored) and on `ContentsInv`:
  the buffer has only series that `run` lets through, a request only those that
  the endpoint wants, a request being flushed is not empty, and one that is
  being encoded was never sent, so that giving it up loses nothing delivered.
- `StalenessProofs`. `TypeCorrect`, `RetentionSound`, `MarkersComplete` and,
  when no compression fails, `NothingForgotten`. The invariant is that the
  retained body, re-parsed at its own time, yields exactly the hashes; a body
  may be kept over a scrape only when the identities are equal, which is what
  `Keep` must establish. `GaugeIsExact`: the gauge is the sum of what the loops
  last reported, which is a fold over the targets. A step changes the term of
  one target, so what is needed is that the sum then changes by the difference,
  which is proved by induction on the number of targets (`StalenessAssumption`
  says that there are finitely many).
- `ScrapePoolProofs`. `TypeCorrect`, `SingleWriter`, `QuietWhenDone`,
  `RemovalComplete`, `MarkersAreLast`. `Accounted`: a loop that is not over is
  the one the map has for its target or the one the job awaits; `Progress`: what
  the job still has to remove or start, by `pc`; `Endings`: how a loop that was
  told to leave may have ended.

- `DiscoveryProofs`. `TypeCorrect`, `WakeupsSuffice`, `PublicationsSuffice`,
  `ViewsNeverGoBack`. `NoLostWakeup` speaks of a source that
  waits. While it builds, its stores change and permits are dropped, so
  `WakeupInv` follows every store a running build has read already: from then on
  the source has its newest version, the watcher has a change still to signal, or
  a permit is in the channel. A permit is dropped only where others are in it,
  and they are taken out only on the way to a new build. `ViewsNeverGoBack` needs
  `OrderInv`: along store, what was read, what is queued (in the order of the
  channel), slot and view, each is no newer than the one before.
- `AgentProofs`. Of `Lifecycle`: `TypeCorrect`, `QuitIsFinal`, `ChannelIsExact`: the
  invariant of the requests is that the channel holds each once, and none that
  was answered, by which a request received is one that waits. `ReloadKeepsRunning`:
  if the endpoints of all configurations that load can be built, a failed reload
  changes nothing; `LoadedInv` says that what main works with was loaded. The run
  `LifecycleReload` shows that the assumption is needed (finding 4). Since
  `Agent` is written with the steps of `Lifecycle` (the lemma `TurnsOfLifecycle`),
  what is proved of `Lifecycle` holds of the process (`RequestsAreHonoured`, and the
  part of `AgentTypeCorrect` about main). `TurnsAreInOrder`: `PipelineInv` ties the
  sender to main (open from the spawn until the loops are joined, closed while it
  drains), says that only an open queue has producers, that while main runs these are
  the targets of its configuration and the self-monitor (`ScrapesAsConfigured`), and
  that without a sender nothing is left.
- `PipelineProofs`, `ExpositionProofs` and `AlgorithmProofs` have theorems of two kinds. The first are
  about the operators of the algorithm modules and hold for inputs of every size:
  - *Relabelling.* `MatchesIsExact` and `FastPathsAreExact`: the shortcuts of
    `AnchoredRegex::matches` and of `apply_replace` do what the path through the
    regex engine does. `SetKeepsNamesUnique`, and from it `ProcessKeepsNamesUnique`
    for any sequence of rules: every action maps label sets to label sets, which
    for `labelmap` is an induction over the labels it goes through. `SharedOnce`:
    exactly one of any number of agents keeps a series.
  - *Targets.* `TargetsAreBuilt`, for any discovered labels and valid rules.
    `IdentitiesTell`: the words that `Target::identity` hashes one after the other are
    as many for each label, so they tell where one label ends; they do not tell where
    the parameters end and the labels begin, which is why the two must have no name
    in common.
  - *Batches.* `LabelsArePromised`: who wins where the target, the series and the agent
    give a label of one name. `BatchHasEachOnce`: what a series said can be told from
    the labels it is sent with (`RawIsRecovered`), so series that differ still do, and
    differ from the reports, which have names of their own. For this no label may be
    claimed twice (`Contested`). The first attempt failed where the agent has a label
    named like the exported form of a target's label: a series that lacks the target's
    label gets the agent's there, and may come to look like one whose own was moved to
    it. `BatchOfSeries` states the exception.
  - *Kubernetes.* `DeclaredPortsReached` and `PortsListedOnce` (no port that the
    slice lists is added again), for slices of
    any number of endpoints and ports and any finite store of pods. The order in
    which the pods leave the hash map is arbitrary, so the invariant of the fold
    over them is about the ports seen, not about their positions.
  - *Configuration.* `CredentialsCarried` and `AcceptedConfigurationRuns`, for any
    number of jobs and endpoints.
  - *Scraping.* `OffersAreUnderstood` and `BodyIsBounded`, for any chunks and any
    announced length: what is buffered is the sum of the chunks while it is within
    the limit.
  - *Encoding.* `VarintLenIsExact`; `LengthsAreExact`, each announced length is
    the total of what is written after it, for any labels, samples and native
    histograms; `RequestsDecode`, every reference of a 2.0 request stands for its
    string. The invariant of the encoder is that a symbol, once interned, keeps its
    place, that the references written so far spell the labels of their series
    (`Spells`), and that the last of them spell the series before where it is laid
    out alike (`Laid`), which is what reusing them rests on; what an earlier request
    left in the buffers never enters.
  - *Native histograms.* `TargetTowardsOne`, the remark on `merge_buckets` that
    keeps its indices within an i32. `ReductionAgrees`: every bucket of what
    `Convert` keeps counts what was exposed within its bounds, and the sides are
    laid out as well as the exposed ones had to be. `FinestIsKept`: no resolution is
    given up that the limit allows, and an accepted histogram fails only where no
    schema has few enough buckets, so the two errors of `merge_buckets` are
    unreachable. Both hold for any number of spans and buckets, and any
    schema fewer than `IndexBits` (64) finer than the finest. The
    argument goes through the loop of `merge_buckets` bucket by bucket. `LaidOut`
    makes the indices increase, so the targets never fall, and each bucket goes
    into the last one, beside it or into a span of its own (`PlaceNext`). Therefore
    the indices placed so far stay in order and in range, and what a reader counts
    between any two bounds is what the exposed buckets between those bounds times
    the width hold (`Merging`). That counting is stated for pairs of bounds and not
    for single buckets, because only then do two reductions make one: a bucket of
    the second is a range of buckets of the first (`FollowsReduced`, `UpTwice`).
    Counts that are kept modulo 2^64 come out right because each partial sum is a
    part of the total, which fits (`PartOfSum`). `CoarsestFound` follows the
    schemas `Convert` tries: none finer than the present one is affordable
    (`NoFiner`).
  - *Metric families.* `FloatsTell`: what `format_float` writes tells its float, whatever
    its digits and its exponent. A float is shown in one of four ways (below one, whole,
    with a point inside, with an exponent); none is mistaken for another, because of
    where its point and its `e` are, and each gives back digits and exponent.
    `SeriesAreDistinct`: no family of a client library gives two series of one identity,
    for any number of metrics with any labels, quantiles and bounds. In a
    family the suffix tells whether a series has a label derived for it (`MarkOf`), and
    one is derived only where the metric has none of that name. So the labels can be taken
    apart again into the suffix, the derived label and the labels of the metric
    (`SeriesTell`). The last tell the metric, and suffix and derived label tell which of
    its series it is, the text of the bound or the quantile being one of `FloatsTell`
    (`Marked`, `MetricMarked`). The family is then an induction over its metrics. `HistogramsAreIngested`: every histogram
    appears in the forms the options promise, with one count, one sum and one bucket
    without a bound for each classic form. The forms are found in the series before
    labels are added (`MarksForm`, `MarksCounted`), where the bucket without a bound is
    the only one whose text is that of infinity.

  The second are theorems of the specification in `MCAlgorithms`: `Relabelled`,
  `HistogramsReduced`, `FamiliesRead`, `PortsCovered`, `RequestsEncoded`, `ConfigurationsHold`,
  `AnswersRead`, `Identities` and `BatchesPromised` hold in every state, from the theorems above and an invariant
  that says what kind of input `work` is (`LabelsTyped`, `HistogramTyped`, `FamilyTyped`, `ClusterTyped`,
  `WireTyped`, `ConfigTyped`, `BodyTyped`, `BuildsTyped` and `BatchTyped`, each kept by the steps of
  its own part, `StepsOfParts`). They hold for any `MaxRules`, `MaxChanges` and
  `MaxPieces`.

What these theorems assume beyond the named assumptions is in their statements: that numerals, digests and changed cases are texts of the same
tokens and that numerals tell numbers apart; that a dropped series (`Dropped`) is
no label set, an absent port (`Absent`) no port and an unset value (`Unset`) no text;
that a message is shorter than 2^64 bytes, since a longer one has no length in the
code either (`Word`); of `BatchHasEachOnce`, that no two scraped series have the same
labels and that neither the target nor the agent has a label `__name__`; of the
theorems about native histograms, what a power of two is (`PowersOfTwo`: the provers
have no theory of `^`), that a failed conversion (`Failed`) is no histogram, that the
schemas kept are fewer than the bits of an index and that an exposed schema is less
than that many finer than the finest (`SchemasAssumption`; a shift beyond is the
divergence §5 mentions); of the theorems about families, that two numbers are not printed
alike (`NumbersPrintApart`: `ToString` is defined by TLC only), that a float has one
sequence of digits (`Floats`: no zeros around them, as the shortest text of an f64 has
none) and that the texts of labels are made of `Characters` or are those of floats. Strings are opaque to the provers where a text is a model
value, hence the parameter `Texts` for the texts of credentials.

Inductions. The induction theorems of the library take an operator as a
parameter, which none of the provers can instantiate; they are replaced by
`Induction` and `BoundedInduction` over sets, which follow from the
well-foundedness of `<`. Folds and recursive functions are unrolled into the
sequence of their intermediate results (`FoldIsDefined`, `StepsAreDefined`,
`DigitsAreDefined`, `TableFoldIsDefined`), and an invariant of these is then an
induction on their index. No module declares a RECURSIVE operator.

Left to TLC:

- every liveness property: fairness and ENABLED are out of the prover's reach;
- `TextsRead`: what the parsers of the text format and of durations and sizes return
  depends on the strings of single characters, and on functions over positions whose
  cases are too many for a proof worth reading.

The provers know neither `SelectSeq` nor `SortSeq`; what `Relabel` and
`ScrapePipeline` select and sort is written with `Retain` and `InsertLabel`, under
folds.

## 5. Findings

1. `StalenessRaces`: docs/perf-improvements-3.adoc bounds racing markers to
   reformatted expositions; relabelling that folds two series causes them too.
2. `DiscoveryHeartbeats`: the debounce (`sd_k8s.rs:173`) has no upper bound, so
   steady events starve a rebuild the module's header promises.
3. `DiscoveryLeak`: after a reload the sources, watches and merger of the old
   configuration live on: each waits for the other to end first.
4. `LifecycleReload`: a reload whose configuration loads but whose endpoints
   cannot be built answers 200, drains the old pipeline and ends the process.
5. `LifecycleInterrupt`: a SIGINT sent while a reload restarts the pipeline is
   swallowed.

Met on the way and not given a run: the comment on `send_native_histograms`
(`config.rs:508`) says native histograms are dropped before queueing, the code
drops them after (`remote_write.rs:214`); the markers of the report series on
removal (`scrape.rs:452`) are not in `staleness_markers_total`; `merge_buckets`
(`protobuf.rs:701`) shifts by the difference of two schemas, so that a histogram
exposed at a schema of 72 or more is labelled with schema 8 in a release build
without its buckets being merged accordingly (a debug build panics), although
`protobuf.rs:44` says finer histograms are reduced; merged counts of more than
63 bits overflow, for which `AgreesWithExposed` makes an exception; `labelmap`
(`relabel.rs:299`) may copy an empty value over another one; the pods a slice
was joined with come out of a hash map, so that the order of their groups, and
with it the merger's comparison, may change between two equal builds; a port
that two containers of a pod declare is added for each of them, unless the slice
lists it (`sd_k8s/targets.rs:436`); the job takes the two for one target, unless
relabelling keeps what tells them apart.

Met while modelling the pure parts, where a property states the exception:

- A period of zero is accepted for `scrape_interval`, `refresh_interval` and
  `batch_send_deadline` and makes the task panic (a ticker, a remainder by zero)
  that should use it; nothing notices (`AcceptedRuns`).
- `bearer_token_file` is not counted by `validate_exclusive_auth`
  (`config.rs:629`): beside another source of credentials it is accepted and
  passed over (`CredentialsAsConfigured`).
- `Target::identity` hashes parameters and labels one after the other, so that a
  parameter of one target may stand for a label of another, although
  `scrape.rs:226` says "Targets with equal identity are the same series source"
  (`IdentityTellsApart`).
- "the target label wins" (`scrape.rs:921`) fails for a target with both `job`
  and `exported_job` when a series has `job`: what it exposes is moved over the
  label of the target (`LabelsAsPromised`). A scraped series named like a report
  series, `up` say, duplicates it (`BatchOfSeries`).
- "Digits past the 19th cannot move a `u64` byte count" (`config.rs:763`): with a
  large unit they move it by up to a byte. A size below a byte, as `0.0001B`,
  rounds to 0, which means no limit (`SizeMeansItsText`).
- `config.rs:852` gives the order of the units as the reason that `m` is not
  matched before `ms`; it is the longest match that does it.

## 6. Not modelled

- `hash.rs`: hashes stand for what is hashed; the comments of the code accept
  collisions of 64 bits.
- `telemetry.rs`: independent atomic counters, except `tracked_series`, which is
  in `Staleness`.
- The PGO harness (`pgo.rs`, `benches/`, `examples/`): never part of the agent.
- Of `auth.rs`, TLS and the HTTP client, which are libraries; of `config.rs`,
  deserialisation by serde with its defaults and `expand_env_vars`, one pass of
  text substitution; of `model.rs`, Snappy and the prost messages of 2.0; of the
  pure parts, the text of Kubernetes labels, label values beyond a few tokens and
  regular expressions beyond one star.
- Durations, and the wording of logs.
- `panic = "abort"`: in the models a task that panics ends alone and whoever joins
  it goes on, which is what unwinding does (the profiles dev, release and
  profiling). Under the profile `deploy` (`Cargo.toml`) the first panic ends the
  process instead, and what is said of the tasks around it does not apply.
- Hazards without a property: a file of `file_sd` read while it is rewritten is
  skipped and its targets vanish for a refresh (`sd.rs:138`, by design); a reload
  ends loops as a shutdown does, without markers, also for targets the new
  configuration drops (`scrape.rs:446`); a schema 64 or more above the finest
  shifts an i64 by more than its width (`protobuf.rs:635`).

## 7. Plan

Done, in this order: `RemoteWrite` with `SampleStream`, `Staleness`,
`ScrapePool` (each with proofs), `Discovery`, `Lifecycle`, the pure parts with
`MCAlgorithms`, the composition `Agent`, the
proofs of `Discovery`, `Lifecycle` and `Agent`, that of the refinement of
`SampleStream`, the gauge of `Staleness`, and the pure parts of relabelling,
Kubernetes, configuration, encoding, answers, targets, batches, native histograms
and metric families.

Next:

1. `Agent` with several endpoints, of which one fails while the others drain.
