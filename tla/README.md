# Verification of nsr_exporter

`nsr_exporter` polls Dell NetWorker servers over their REST API and exports what it finds as
Prometheus metrics (scraped from `/metrics`) and, optionally, as OTLP metrics (pushed). This
directory holds TLA+ models of its concurrent core, the TLC configurations that check them on
small instances, and theorems about them checked by TLAPS.

Contents: [inventory](#inventory), [plan](#plan), [modules and code](#modules-and-code),
[runs](#runs), [fairness](#fairness), [proofs](#proofs),
[where the code and its documents differ](#where-the-code-and-its-documents-differ),
[limits](#limits).

## Inventory

### How the parts interact

```
 config.Load ──> NewCollector ──> Run ──ticks──> CollectOnce
                                                  │ one goroutine per system (errgroup, limit 8)
                                                  │   collectSystem: 11 ResourceCollectors in turn
                                                  │     nsrclient.Get ──HTTP──> NetWorker server
                                                  ▼
                                             guardSamples
                                                  ▼ Swap
        PromCollector.Collect <──Load── SnapshotStore ──Load──> OTLP callback, /health
```

The loop is the only writer of the store. Readers run in goroutines of their own (one per HTTP
request, one for the OTLP periodic reader) and see only the store. A signal cancels the context
given to `Run`, from which the context of every cycle, and of every request, derives.

### Components

| component | state it keeps | operations | what makes it correct |
|---|---|---|---|
| data model (`internal/models`) | none | - | snapshots are immutable once published |
| series guard (`guard.go`) | first type and help per name, series seen, repair counts, all local to a call | `guardSamples` | its result never makes `Gather` fail; the first sample of a name or series wins; every dropped sample is counted for its system |
| collection loop (`collector.go`) | where `Run` is, ticker, cycle context, per-system slots, goroutines | `Run`, `CollectOnce`, `collectSystem` | bounded concurrency; slots read only after `Wait`; one `nsr_up` per system, 1 exactly when every collector answered; one system does not harm another; cycles and shutdown end |
| snapshot store (`store.go`) | pointer to the current snapshot under an `RWMutex` | `Swap`, `Load` | a reader sees one whole cycle |
| REST client (`nsrclient`) | none between calls | `Get` with up to two retries | 4xx is never retried; a context that is done ends the retries; an error is never taken for an answer, nor does an early error outlive a later answer |
| resource collectors (`alerts.go` ... `jobs.go`) | none | `Collect`: one or two requests, each mapped when it is answered | all of its samples or none; an absent value gives no sample, one that was sent does; aggregates agree with their items; one series per key; no `system` label |
| Prometheus export (`prometheus.go`) | none | `Collect` | a scrape renders one snapshot and never calls a server |
| OTLP export (`otlp*.go`) | instruments, error counter | callback, `Export`, `Shutdown` | the same series as a scrape of the same snapshot; an outage of the endpoint loses nothing for good |
| process (`main.go`) | HTTP server, signal context | `run`, `watchReload`, handlers | serves before the first cycle; `/health` says "starting" until a snapshot is published; shutdown flushes |
| configuration (`internal/config`) | none | `Load`, defaults, validation | one source decides each secret; default windows are always valid; a SIGHUP says what a restart would find |
| metric catalog (`catalog.go`) | a table of names, helps and types | `Catalog` | every metric that is emitted is in it, with its type |
| logging, mock server, dashboards, charts | static | - | - |

### What is hard here

- **Interleavings**: goroutines finish in any order while the guard's result depends on the
  order of its input; answers race the deadline; ticks, signals and the cycle under way meet in
  one `select`.
- **Partial failure**: any subset of the collectors of any subset of the systems may fail, and
  the cycle must still publish everything else.
- **Shared resources**: one semaphore and one deadline for all systems of a cycle.
- **Absence**: every field may be missing by itself, and a request names the fields it wants in a
  list written apart from the mapping; a missing value must not turn into a zero.
- **Two exports**: the OTLP path finds its instruments in a table written apart from the collectors.
- **Order inside the guard**: a dropped sample must not fix the type of its name; a rewritten one
  must still be unique; counters must account for everything dropped.
- **Time**: retries inside one deadline, lost ticks, lookback windows rounded to hours.
- **Start and end of the process**: readers before the first snapshot, a listen failure, a signal
  during a cycle, the last push.

`PROJECT.json` lists each hazard at its line with the properties that would catch it.

## Plan

| step | module | about | state |
|---|---|---|---|
| 1 | `Guard`, `GuardScan`, `MCGuardScan` | what the guard keeps; its loop computes it | done |
| 2 | `SampleLemmas`, `GuardProofs` | the same for lists of any length | proved |
| 3 | `Cycle`, `Collector`, `Snapshots`, `MCCollector` | the loop, its goroutines, deadline, ticker, cancellation; the promise it implements | done |
| 4 | `CollectorProofs` | types, poll limit, what is published, `nsr_up`, isolation, the refinement of `Snapshots` | proved |
| 5 | `Request`, `Client`, `ClientProofs` | one `Get`: attempts, waits, status codes, decoding, the context; implements "one answer or one failure" of `Collector` | done, proved |
| 6 | `Process`, `ProcessProofs` | `run` with scrapes, `/health`, the OTLP reader, signals, drain and flush, over numbered snapshots | done; the invariants proved |
| 7 | `PollTiming`, `PollTimingProofs` | intervals, lost ticks, staleness, `backupWindow` and `jobWindow` against what is fetched | done, proved |
| 8 | `Quantity`, `Sizing` | the aggregation of save sets as a fold, against maxima | done; proved in `ResourceProofs` |
| 9 | `Config`, `MCConfig`, `ConfigProofs` | the sources of a secret, defaults and validation; SIGHUP against a restart | done, proved |
| 10 | `Mapping`, `Resources`, `Contributions`, `SystemSamples`, `Exports`, `MCResources` | what the collectors map, request by request; the promise to the loop; what the two exports make of it | done |
| 11 | `ResourceProofs` | of `Sizing` and `Resources`: maxima, types, the contract with the guard, the two exports, where zeros come from, the aggregates, the refinement of `Contributions` | proved |

`Collector` composes with `Snapshots` by refinement, and `Client` implements `Request`, the step
that `Collector` takes as one answer or one failure. `Process` uses only what `Snapshots` promises
of the loop, and so needs none of its detail; `Sizing` and `Mapping` read sizes and times through
`Quantity`. `Resources` composes them into `collectSystem`, takes the guard and the cycle's own
samples from `Guard` and `SystemSamples`, which it shares with `Collector`, and implements
`Contributions`: the collectors as `Collector` sees them, with `Maps` for its `Emits`.

## Modules and code

**`Guard`** holds the data of the exporter and says, without a loop, which samples survive the
guard. A sample is a record of name, help, type, labels and value; its series is its name and its
*set* of label pairs (`seriesKey` sorts the labels). Sample `i` of a list passes when its labels
are well formed and it has the type of its name's leader, the first well-labelled sample of the
name; it is kept when it is the first of its series to pass, and then carries the leader's help.
`GatherAccepts` is external: what client_golang's `Registry.Gather` requires of an unchecked
collector.

**`GuardScan`** is `guardSamples` itself. An iteration can end in five ways (invalid label, type
mismatch, duplicate, kept, kept with the first help), each an action over the maps `names`,
`seen` and `counts`; `AppendSelfMetrics` adds one gauge per system and reason and returns.

**`SystemSamples`** is what `CollectOnce` adds to a system's samples. **`Cycle`** holds what one
collection cycle is made of. What the collectors map from a server is
the constant `Emits`; a fetched sample carries the stamp of its cycle as its value, so that a
sample of an earlier cycle is told from one of this cycle. Stamps go round, so the loop runs for
ever in a finite state space and no counter is bounded. `SnapshotOf` is what a cycle publishes as a
function of the answers it got: no goroutine, slot or order of arrival is in it.

**`Collector`** is `Run`, `CollectOnce` and `collectSystem`:

| state | code |
|---|---|
| `run` | the program counter of `Run`'s goroutine: before the first cycle, in the launch loop or in `Wait`, in the concatenation, in the `select`, returned |
| `gor[i]` | the goroutine of system `i`: its progress through the collectors, `healthy`, `samples` |
| `gor[i].late` | the request under way was issued when the context was already done |
| `perSys`, `all`, `next`, `merged` | the local variables of `CollectOnce` |
| `expired`, `cancelled` | the cycle's context and its parent |
| `ticker` | `time.Ticker`'s channel, which holds one tick |
| `store` | `SnapshotStore.current` |
| `backend` | how each server behaves during the cycle: up, faulty (may answer, may fail) or hung |
| `answered` | history variable: the collectors that answered in this cycle |

One action per step of a goroutine that another can see: `Launch` (`g.Go`, which blocks while the
group is full), `Answer` and `Fail` (a collector returns), `Finish` (the rest of the goroutine),
`WaitReturns`, `Merge`, `Publish` (guard and swap), `TickerFires`, `TakeTick`, `Stop`,
`DeadlinePasses`, `Terminate`. `Swap` holds the write lock and replaces one pointer, so
`Publish` is atomic for readers.

**`Snapshots`** is the promise of the loop to its readers: while it lives it publishes snapshot
after snapshot, each a function of one cycle's answers and of the config order (a constant operator,
given as `SnapshotOf` of `Cycle`). It has no goroutines, limit, deadline or ticker. `Collector`
implements it under the mapping `published <- store, alive <- run # "stopped"`.

**`Request`** is what one `Get` means to the collector that calls it: it ends once, with an answer
or an error. Once an answer has arrived (`Arrives`) the call can only return it, so no earlier error
may outlive it; without one it can only fail. A call made when the context is done is not answered,
and one to a server that always answers is failed by the context only. **`Client`** is `Get` with the retry loop that `New`
configures: a program counter (`send`, `flight`, `check`, `wait`, `done`), the attempts made, how
the last one went. A reply is one of eight kinds, told apart by the retry condition and by what
`Get` makes of them; a server is the set of replies it chooses from, and one with none hangs.
resty's loop is external: it looks at the context between attempts, its wait ends by itself or
with the context, and an attempt whose context is done fails. `Client` has `server`, `ctxDone`,
`late`, `answered` (a history variable) and `outcome` under the same names as `Request`, so the
refinement mapping is the identity.

**`Process`** is `run` in `main.go` with everything it starts. `pc` names the next statement of
`run` that another goroutine or a signal can see; each of `Wire`, `Listen`, `Notify`,
`StartLoop`, `Watch`, `BeginDrain`, `Drained` or `DrainTimeout`, `Restore`, `Flush`, `Return` is
one of them, the deferred calls last and in reverse. Snapshots are numbers, 0 being the seeded
one; a scrape takes the steps `BeginScrape`, `LoadSnapshot`, one `Render` per sample, `EndScrape`;
`HealthOk` is an answer "ok" of `/health`. A push is `PushBegins`, in which the OTLP callback loads
the store (`Observe`), and `PushDelivered` or `PushFails`, as the endpoint is reachable or not
(`backend`, which `BackendTurns` changes at any time); `delivered` is the snapshot the endpoint was
last given. `Endpoint` and `Env` are what the config and the environment may say of it. A signal
has its default action (`Kill`, `HangupKills`) whenever no handler is installed.

**`PollTiming`** is the loop in discrete time: when the ticker fires, when a cycle starts and how
long it takes, how old the snapshot is, and how old a watched job or save set is. All ages are
relative to now. The windows are rounded as `jobWindowFilter` and `backupWindowFilter` do it.

**`Config`** is `LoadDotEnv` and `Load` as functions of a config file and of one environment
variable, called by `Start` (`run`) and `Hangup` (`watchReload`) while an operator edits the
files. `ConfigFile` is what YAML decodes to: any intervals and windows, any systems, each with a
password that is written out or a reference (`Reference`) and a password file. A configuration that
runs keeps each system's entry in the file beside what it was resolved to, for the properties only.

**`Quantity`** has NetWorker's sizes and timestamps and what a reading of them gives; **`Sizing`**
is the loop of `SizingCollector.Collect` over the save sets of an answer, with its four maps.

**`Mapping`** has the requests of the eleven collectors, the fields each asks for, and an operator
per item kind that is the sequence of samples the code appends for one item. A JSON object is a
record in which a field may be `Absent`; an operator that emits in the order of a Go map is the set
of the sequences that may result (`inAnyOrder`). `Sent` is external: a server that honours `fl=`.

**`Resources`** is `collectSystem` for one system:

| state | code |
|---|---|
| `server` | what the server holds, for each request |
| `rc`, `asked` | the collector whose `Collect` runs, and how many of its requests are answered |
| `out` | its builder `b` |
| `i`, `fullMax`, `incrMax`, `retMax`, `jobBest` | the variables of the sizing collector (from `Sizing`) |
| `samples`, `healthy` | the results of `collectSystem` |

What a server may hold is typed by `Item`, field by field as the Go structs decode it: a text, a
flag, a number, a size. `ServerAssumption` says that of the constant `Server`, and that the
statistics are one object (`jobs.go` maps one); `SamplesAssumption` that texts are valid UTF-8, as
`encoding/json` makes them, and that the catalog's names and label keys are well formed.

Its actions are an answered request, with the samples appended before the next request is sent
(`Succeeds`), a failed one (`Fails`), a save set folded (`Folds`), and the end of a `Collect`
(`Returns`). **`Contributions`** hides the builder, the requests and the maps: each collector in
turn adds exactly the samples of what the server holds, in any order, or nothing, and then the
system is not healthy. The refinement mapping sets `held <- server, turn <- rc`, and `Maps` to
`Made`, which takes whole items, not the projection `fl=` gives, and maxima in place of the fold.

**`Exports`** is what `PromCollector.Collect` renders and what the OTLP callback observes of one
snapshot; an instrument has the type that the catalog gives its name.

The `MC` modules give the constants their values. Definitions whose comment begins "Mutant of"
are deliberately wrong variants of the definition that follows; nothing refers to them, and
`PROJECT.json` pairs each with the property that tells it from the code.

## Runs

| run | configuration | shows |
|---|---|---|
| `guard` | every list of at most 4 samples from a pool of 9, two systems | the loop returns what `Guard` keeps (`ReturnsGuarded`), at each iteration the partial result is fit for `Gather` (`GatherSafe`), every sample read is kept or counted (`Accounted`), and the inductive invariant holds (`ScanInv`) |
| `collector` | 3 systems, 2 polled at a time, 1 collector each, deadline and signal at any moment | `PolledWithinLimit`, `StoreGatherable`, `StoreIsOneCycle`, and the loop implements `Snapshots` |
| `degraded` | 2 systems, 1 at a time, 2 collectors each, with fairness | `OneUpPerSystem` when any subset of the collectors fails; `StopsWhenCancelled`; the loop implements `Snapshots` and publishes for ever (`ImplementsFairSnapshots`) |
| `isolation` | 3 systems, 2 at a time, 2 collectors, at most 1 hung server, a deadline long enough for the others | `HealthyReportedUp`; deadlock is checked |
| `client` | the code's two retries, every set of the eight replies, the context done at any moment | `Client` implements `Request`; `RefusedOnce`, `LateOnce`; every call ends (`CallEnds`) |
| `polling` | a deadline longer than the interval, so cycles shorter and longer than it; one failed request in a row; windows that are no whole number of hours | `AgeBounded` (an interval and a cycle), `NothingLost` (with windows of at least `Reach`) |
| `process` | one scraper, two samples per scrape, two swaps; SIGTERM and SIGHUP, and outages of the OTLP endpoint, at any moment; with fairness | `OneFreshSnapshot`, `HealthNeverAhead`, `FlushedLast`; `EndsWhenCancelled`, `ScrapesNeverWait`, `HangupAnswered`, `OutageOverDelivered` |
| `config` | 318 config files with each way to be invalid, every environment and both .env files (unset, empty or one of two values), edits of the files | `UnsetWindowsFollow`, `FirstSourceWins`, `VerdictStable`; deadlock is checked |
| `resources` | one system, any request of which may fail; lists of one request at a time, in whose items each field is in turn absent, zero, unreadable or different; two kinds of items at once | `AggregatesAddUp`, `ContractKept`, `ExportsAgree`, `NoFalseZero`, `ValuesExported`, `Maxima`, `FastestInstance`; `collectSystem` implements `Contributions` (`ImplementsContributions`) |
| `starvation`, `truncated_window`, `endpoint` | [below](#where-the-code-and-its-documents-differ) | a counterexample each |

The type invariants of `GuardScan`, `Collector` and `PollTiming` are proved, and no run repeats them.

Bounds and why they are enough. *Guard*: each repair needs at most two samples to happen and a
third and fourth to interact with another one (an invalid sample before a type mismatch before a
duplicate before a help mismatch); the pool has every repair for a name, the same series with
its labels in both orders, and both systems. The proofs remove the bound. *Loop*: three systems
with a limit of two are the smallest case in which one waits for a slot while two finish in either
order; two collectors are enough for one to fail before or after another succeeds; two stamps tell
a cycle from the one before; in the runs in which the deadline may pass at any moment, a server
that is up does nothing a faulty one may not do, and is left out. Systems are not symmetric: their
order is what the properties are about.

*Client*: nothing is bounded. *Process*: two samples tell a mixed scrape from one of one snapshot;
two swaps let one fall before and one inside a scrape; the loop may stop after the last one, as a
loop whose cycle hangs does. Scrapes share nothing but the store, which they only read, so one
scraper after another shows what two at a time do.
*PollTiming*: the numbers are the smallest in which the windows are no whole hours, the rounded
job window differs from the window, and a request may miss a whole cycle, with a deadline at which
ticks are lost; ages grow without bound
only for items already fetched or out of both windows, which are no longer followed. *Config*: the
defaults are the documented ones in minutes, with intervals and windows on both sides of each.
*Resources*: a collector reads only the answers to its own requests, so items of one kind at a time
show all it can do with them, and a usual item of two kinds what one collector may leave to
another. Lists have at most two items, three for sessions (two groups of a mode, one of them with
two sessions) and for save sets (two decide a maximum, a third must not undo it); save sets come in
threes from a smaller pool. The proofs remove these bounds.

The system may stop for good once it is cancelled, so the runs with a signal say
`CHECK_DEADLOCK FALSE`; in `guard` the call returns.

## Fairness

`FairSpec` assumes only what Go provides. A runnable goroutine runs: weak fairness of the loop's
own steps and of each system's goroutine. Timers fire: weak fairness of `DeadlinePasses` and
`TickerFires`. Weak fairness of a goroutine asks nothing of the servers: with a hung server only
`Fail` is ever enabled, and only once the context is done. `select` returns when a case is ready,
and picks at random among the ready ones, so it does not pass over a case that is ready at
infinitely many selects: strong fairness of `Stop`. Without the last one, a ticker that is full
at every select could postpone the shutdown for ever.

`Client`'s `FairSpec` asks that the calling goroutine runs and that the cycle's context ends
(`context.WithTimeout`, `collector.go:108`); a server may hang. `Process`'s asks that `run`, the
watcher and the handlers run, and that the five seconds of `srv.Shutdown` and the reader's own
timeout pass, and that the periodic reader reads again once a push has ended (`main.go:175`; its
ticker). It asks nothing of the loop, of clients, who may never read an answer, of the OTLP
endpoint or of signals. That the endpoint is reachable from some time on is a hypothesis of
`OutageOverDelivered`, not an assumption; the other properties hold when it never is.

## Proofs

All proofs are checked by TLAPS, with no assumption other than the named ones of the modules:
system names are unique and well formed (`Config.validate`), collectors emit neither the guard's
and the cycle's metrics nor the `system` label (the contract of `ResourceCollector`), config files
are of the type YAML decodes into and texts are strings (`FilesAssumption`, `TextAssumption`), what
a server sends is of the type JSON decodes into, with valid UTF-8 texts (`ServerAssumption`,
`SamplesAssumption`, `AnswerAssumption`, `QuantityAssumption`), the documented defaults satisfy what
validation asks of windows, and the constants have the types one expects. One theorem has a hypothesis of its own (isolation, below). Every invariant was checked
by TLC before it was proved.

**The guard** (`SampleLemmas`, `GuardProofs`). The maps of the loop are not an invariant of their
own; `ScanInv` says what they mean for the samples read so far: `names[n]` is the type and help of
the leader of `n` (or none has been read), `seen` is the series of the samples that passed,
`counts` counts the verdicts, `out` is the repaired kept samples. It is inductive: one step per
action, each adding position `pos` to every set. At the end of the list the four parts say
`ReturnsGuarded`. `GuardedGatherSafe` is about the declarative definition alone: kept samples have
their leader's type and help, and only one of a series is kept; the gauges have a name of their
own and one series per system and reason. Its one use of well-founded reasoning is that the leader
of a name exists (`IntervalMin`, from the well-foundedness of strict inclusion).
`Accounted` is inductive with `ScanInv`: of the sets of positions of one system read and kept and its
three drop counters, every iteration adds one to the first and to exactly one of the others.

**The loop** (`CollectorProofs`). `TypeInv` strengthens the types with what the buffers hold: a
goroutine's samples are of this cycle, a slot's and the concatenation's are of this cycle or are
the two added ones, and none has the guard's name. Two buffers that begin a cycle empty are enough
for the step that changes the cycle. From it and `GuardedGatherSafe` follow `StoreGatherable` and
`StoreIsOneCycle` at `Publish`, the only step that writes the store. `PolledWithinLimit` is
inductive with the types: `Launch` adds one element to `Running` below the limit, and
`WaitReturns` needs every goroutine to be done.

`OneUpPerSystem` needs `UpInv`: a goroutine is healthy exactly when the collectors behind it all
answered (`HealthInv`), a finished slot has one `nsr_up` of its system, with that value
(`DoneInv`), so has the concatenation for each system merged and none for the others
(`MergedInv`), and the guard drops none of them, since two are never alike (`PublishedInv`).

`ImplementsSnapshots` needs what the buffers hold to be a function of `answered`: a goroutine has
fetched the concatenation of what its collectors mapped so far, in collector order, with nothing of
those that failed (`FetchedInv`); a slot is its system's `Contribution` (`SlotInv`); `all` is the
concatenation of the slots merged (`ConcatInv`); and the cycle stamp follows the store's
(`StampInv`). Goroutines finish in any order, but each of these is indexed by the slot, so at
`Publish` the guard's argument is the one in `SnapshotOf`. `FlattenSeq` is defined by recursion on
sequences; `FlattenUnfolds` shows that a function satisfying its recursion exists, by induction
over an interval stated with a set (`IntervalInduction`: a set that has 0 and, with `n`, `n + 1`
contains the interval), and `FlattenAppends` that appending a part appends its samples.

`HealthyReportedUp` is false in general, as `starvation` shows. `HealthyReportedUpWhenIsolated`
proves it under `Isolated`, the hypothesis that run `isolation` satisfies: fewer servers hang than
are polled at a time, the deadline is long for all work that waits on no hung server, and the
process is not being stopped. Its invariant says that when the deadline has passed every system
whose server does not hang is done. At `DeadlinePasses` only hung servers are being polled; being
fewer than the limit (an injection of the running slots into the hung systems) they leave a slot
free, so no system is waiting for one.

**One call** (`ClientProofs`). `ClientInv` has a part for each thing the loop looks at: the count of
attempts at each program counter (`AttemptInv`); that an attempt is followed by another one only
if it can be retried, so that a refusal is the last reply (`RetryInv`); and that an attempt begun
with a context that is done is the last one and brings no reply home (`LateInv`). `RefusedOnce` and
`LateOnce` follow. An answer is never retried, so one has come home exactly when it is the last
reply; with that, a reply is `Arrives` or a stutter of `Request`, the step to `done` is its `Answer`
or its `Fail`, and other steps leave its state alone or change its context, for any number of
retries.

**The process** (`ProcessProofs`). One invariant for the three properties, with a part for each
pair of observers: what a scrape has rendered is of the snapshot it loaded, which is between the
one stored when it came and the one stored now, and once `/health` has said "ok" the store is not
the seeded snapshot (`ScrapeInv`); what `run`'s program counter implies of the HTTP server and of
the reader (`ServerInv`, `ReaderInv`); and that a drain in order leaves no scrape behind and lets
none in, so that the last push is at least as new as what was served (`DrainInv`). It holds for
any number of scrapers, samples and swaps.

**Configuration** (`ConfigProofs`). The environment of a running process is what `LoadDotEnv` made of
the one it was given and of the .env files of the start (`EnvironInv`); what runs is what `Load`
makes in it of some file, which may have been replaced since (`LoadedInv`); and a verdict is about
the present file in that environment (`VerdictInv`). `EnvironInv` then
gives `FirstSourceWins` (what a reference resolves to, `ReferenceResolved`, by the cases of
`LoadDotEnv` and `expandEnv`) and, while the .env files are those of the start, that a restart
would load in the same environment (`VerdictStable`). `UnsetWindowsFollow` is arithmetic over any
interval, negative ones included.

**Timing** (`PollTimingProofs`). `AgeBounded` is not inductive: `AgeInv` says how much of the
bound each phase may have used. While the loop waits, the age and the time to the next tick add up
to at most an interval; in a cycle the age exceeds the interval by at most what the cycle has spent.
`NothingLost` needs to know how old an item may be that no answered request has listed: `Recent`
says it for each phase, in terms of what the cycle has spent, whether its request is still due, and
the failures in a row so far (`Gap`); `TickInv` says that in a cycle during which no tick has fired
the time spent and the time to the next one are at most an interval. With windows of at least `Reach` the bound is within what the rounded windows ask
for.

**The collectors** (`ResourceProofs`), for whatever a server holds and whichever requests fail.
*Sizing*: `Best` of one map, over the save sets folded so far, is preserved by a fold step whether
the instance counts or not (a lemma about `putMax` and one about `keepFastest`, whose comparison
of fractions is transitive on positive durations); `IInv` is the conjunction of the four, with
the types.

*Types and the contract*: `Batch(N)` is the set of lists of well-typed samples of the metrics `N`,
each with the label keys of its metric, in which two samples of a series are of a metric with one
sample per item. A lemma per kind of item says of which metrics its samples are; the aggregates
need that no two groups have a series in common, which is that no key is twice in the order in
which they were first seen (`SessionSteps`), or that an entry's key is among the labels of its
samples (`EntriesBatch`). Every request is sent once and no two have a metric in common
(`SentOnce`, `MetricsOfRequests`), so lists of different requests can be appended: `CycleInv` says
that `samples` is a batch of the metrics of the collectors behind `rc`, and `out` one of those of
the requests answered. `CollectTypeOK`, `ContractKept` and `ExportsAgree` follow from it, the last
with what the guard leaves of such a list (`SampleLemmas`).

*The promise*: what a list of items gives is, up to order, one set of samples (`EmissionsAgree`), and
`fl=` asks for every field that is read (`SentComplete`); so `out` holds what the answered
requests give (`BuilderInv`) and a `Returns` is a step `Contributes` of `Contributions`. For the
sizing collector the maps must be those of the definition: `IInv` determines the maxima, and
`FirstFastest`, that among equally fast instances the map has the first, the throughputs.

*Zeros*: a list is `Truthful` when its zeros are sent by an item of the list, in the field its metric
is read from; a size sent as an object without a value counts as one that sends zero, and a
policy's flag is exempt. Item by item this is so because a reading that is not `ok` emits nothing; a group
of sessions has a session, and sums to zero only over readings that are zero (`RealGroup`, kept by
`addSession`); an entry of a map of maxima is some instance's; retentions and durations are
positive, and a throughput rounded up is zero only for no bytes. `TruthInv` says it of `out` and
`samples`, since the server is the same throughout a cycle, and gives `NoFalseZero`.

*Aggregates*: a tally counts the positions read so far that have a key (`TallyCounts`), and a group of
sessions counts those of its mode and client and adds up the readable ones (`GroupSums`, kept by
`joined`), so an emission is a table with one sample for each entry (`SessionsSaid`, `AlertsSaid`).
`AddUpInv` says that `out` and `samples` have these tables of the server's items, or no sample of
the request at all; that later collectors add none follows from `CycleInv`. By `OncePerSeries` a
sample is found by its labels, so `AggregatesAddUp` compares sums over positions with counts of
items: a finite set has as many elements as its parts together (`SumOfParts`). The sum over a set
removes its elements in an order that `CHOOSE` fixes; `SumAdds` shows that the order is
irrelevant, by induction on the cardinality.

Folds and `FlattenSeq` are defined by recursion on sequences; as for `FlattenUnfolds`, a fold is
unrolled once for each folded operator (`ByPrioritySteps`, `SessionSteps`), because the provers
cannot instantiate a lemma that is general in it.

| theorem | for every |
|---|---|
| `GuardProofs!TypeCorrect`, `ScanInvariant`, `GuardIsCorrect`, `GuardIsGatherSafe`, `AccountedAlways` | list of samples |
| `SampleLemmas!GuardedGatherSafe` | list of samples without the guard's name |
| `CollectorProofs!TypeCorrect`, `PolledWithinLimitAlways`, `StoreGatherableAlways`, `StoreIsOneCycleAlways`, `OneUpPerSystemAlways`, `LoopImplementsSnapshots` | number of systems, collectors and slots, and behaviour of the servers |
| `CollectorProofs!HealthyReportedUpWhenIsolated` | the same, under `Isolated` |
| `PollTimingProofs!TypeCorrect`, `AgeBoundedAlways`, `NothingLostAlways` | interval, deadline, windows and `MaxMissed` |
| `ResourceProofs!MaximaAlways`, `FastestInstanceAlways` | answer, of any length and order |
| `ResourceProofs!CollectTypeOKAlways`, `ExportsAgreeAlways`, `ContractKeptAlways`, `CollectImplementsContributions`, `NoFalseZeroAlways`, `AggregatesAddUpAlways` | content of the server, and set of requests that fail |
| `ClientProofs!TypeCorrect`, `RefusedOnceAlways`, `LateOnceAlways`, `GetImplementsRequest` | number of retries, and set of replies of the server |
| `ProcessProofs!TypeCorrect`, `OneFreshSnapshotAlways`, `HealthNeverAheadAlways`, `FlushedLastAlways` | number of scrapers, samples and swaps |
| `ConfigProofs!TypeCorrect`, `UnsetWindowsFollowAlways`, `FirstSourceWinsAlways`, `VerdictStableAlways` | config files, values of the variable, defaults and edits |

Only model-checked: the properties with fairness (`StopsWhenCancelled`, `ImplementsFairSnapshots`,
`CallEnds`, `EndsWhenCancelled`, `ScrapesNeverWait`, `HangupAnswered`, `OutageOverDelivered`), since
liveness is out of the prover's reach; `ValuesExported`; and `HealthyReportedUp` without `Isolated`, which is false in
general.

## Where the code and its documents differ

A run has a counterexample for each of the first three; the others were met while modelling, and the
models have the behaviour of the code.

- **Hung servers starve the ones behind them** (`starvation`). ADR-0001:22-23 says each fetch is
  isolated and `config.yaml:13` calls the timeout a per-system deadline; `collector.go:108` puts
  one deadline on the whole cycle, waiting for a slot included. With `maxConcurrentSystems` hung
  servers, systems that answer are published as down.
- **`backupWindow` is truncated to hours** (`truncated_window`). `sizing.go:141` asks for less than
  what validation ensures, and a save set written between two polls may never be listed;
  `jobs.go:69` rounds up for this reason.
- **The configured OTLP endpoint is not used** (`endpoint`). `main.go:161-169` only asks whether
  there is one; `NewGRPCExporter` reads the environment. The same holds of `insecure`.
- **A system that is down still has series**. ADR-0001:23-24 says a failing system emits `nsr_up` 0
  and no other series; `collectSystem` (`collector.go:161-171`) keeps the samples of the collectors
  that answered, which `Snapshots` states as the promise.
- **Shutdown reports reachable systems as down**. A signal during a cycle cancels its requests;
  `CollectOnce` still swaps in the result (`collector.go:154`). `docs/metrics.md:15` says `nsr_up`
  is 1 if the system was reachable.
- **Snapshots are older than the interval**. ADR-0001:34 and ADR-0004:42 say at most `interval`; the
  bound is an interval and a cycle (`AgeBounded`).
- **Two intervals do not tolerate a missed cycle**. `config.go:203-204` says so of `jobWindow`; the
  window that suffices is `Reach`, which is longer.
- **A renamed field is not a failure**. ADR-0003:28-29 says it makes one; `Get` returns nil, and the
  system is up with no series of that collection.
- **An early SIGHUP ends the process**. The handler is installed after the server, the signal
  context and the loop (`main.go:107`; `HangupKills` in `Process`).
- **The verdict of a SIGHUP ignores the .env files**, which a restart reads; as long as these are
  unedited the two agree (`VerdictStable`). ADR-0005:17-18 does not make the exception.
- **`/metrics` does not block behind a cycle**. `docs/deployment/docker.md:74-76` and ADR-0012:50-51
  say that it can. A scrape takes the store's read lock for one pointer (`store.go:26-39`,
  `prometheus.go:26`) and the loop takes the write lock for one assignment, after the cycle's
  requests; `ScrapesNeverWait` holds with a cycle that never ends.
- **A negative interval is accepted** (`config.go:189-232`), and makes `time.NewTicker` panic after
  the first cycle.
- **A size without a value is zero bytes** (`quantity.go:12-14`; `decoded`), against ADR-0008:23-24.
- **Collectors do not fan out**. ADR-0002:18-19 says a cycle iterates a system's collectors via an
  `errgroup` fan-out; `collectSystem` (`collector.go:161`) runs them in turn, and only systems are
  polled concurrently.
- **A scrape drops nothing for its label keys**. ADR-0006:26-28 says `PromCollector.Collect` drops
  samples whose keys disagree with the first of their name; it does not look at them
  (`prometheus.go:27-41`). That the collectors use one set of keys per name is `ContractKept`.
- **A help text differs between the exports**. ADR-0004:39 calls the metadata shared;
  `nsr_session_transfer_bytes_per_second` has one help in `sessions.go:84` and another in
  `catalog.go:40`. The models leave help texts out.
- **OTLP has counters**. ADR-0004:24-25 says the callback observes gauges; `newObservable`
  (`otlp.go:62`) makes counters of the seven metrics that are counters when scraped, which is what
  `ExportsAgree` needs.

## Limits

Not modelled: the logging, which is output only; the mock server (`cmd/mocknw`), a fixture that
serves static files; dashboards and charts; durations and clocks outside `PollTiming`
(`nsr_collection_duration_seconds` is a constant), the text of metric names, labels and helps
beyond equality, log output, TLS and authentication. `seriesKey` is one-to-one in the model; the
code's string is so as long as no label value contains the two control characters it uses as
separators. A server's behaviour is fixed for a cycle and chosen anew for the next; a faulty one
may answer or fail at each request, so this loses nothing in the runs where the deadline may pass
at any moment.

`PollTiming` assumes positive durations, which validation does not ensure for the interval, and
has the loop take no time of its own. `Client` has no decoded values: what a failed decoding
leaves for the attempt after it is not modelled, nor are the lengths of the waits. `Process` has
failed pushes but not the counter of them; a failure of the last push can be seen by no scrape, the
server being closed. That validation rejects what it should is not stated as a property: each of its
rules is one guard, and a property would repeat it.
`Mapping` has integers for floats: a throughput is in thousandths of a byte per second, rounded up. A
metric's help is its name, a volume's `states` are one text, human units are those up to MB,
client and save set are one key and the `fl=` list of the backups is not modelled. Texts are
opaque: an answer that cannot be decoded is a failed request. `NoFalseZero` is stated with the
exception of sizes without a value, which read as zero, and of a policy's flag; it names the field
of each metric but not the item, since an aggregate is of several. `ValuesExported` names the item, for
the metrics that are exported item by item. `AggregatesAddUp` counts alerts against
`nsr_alert_info` and modes against `nsr_session_active`, so an item missing from both is not seen by
it (`ImplementsContributions` sees it); the exception that `ContractKept` makes for items listed
twice also covers two items that differ in no label of the metric.
`Sizing` keeps what the code keeps, which is less than it might: a save set whose size cannot be
read counts for no series, its retention included, and among instances of equal throughput the
first one listed decides the duration.
