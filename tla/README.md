# Formal models of bravyr-obs

bravyr-obs is a Go library that gives a service its logging (zerolog), tracing
(OpenTelemetry over OTLP), metrics (Prometheus), a Chi middleware that composes
the three, and a health endpoint. This directory holds TLA+ models of its
concurrent and failure-prone parts, TLC configurations that check them on small
instances, and proofs that TLAPS checks for every value of the constants.
Paths below are relative to the repository's root (`src/` in `PROJECT.json`).

## 1. The system

| Component | State | Operations | Hard behaviour | What makes it correct |
|---|---|---|---|---|
| `health.CachedCheck` (`health/checks.go:57-81`) | `mu`, `lastOK` | one closure, called by every poll | lookup and store are two critical sections with the probe between them; the TTL boundary; callers that race to store | a lookup is answered from the cache exactly when a recorded success is younger than the TTL; `lastOK` never goes back; a hung probe blocks nobody |
| `health.Checker` (`health/health.go`) | `checks`, `timeout`; per request: `results`, `mu`, `wg`, contexts | `AddCheck`, `Handler` | a goroutine per check, a shared slice, nested deadlines, clients that leave, checks that ignore their context or panic | one reply, sent after all checks, listing each once; 200 only if all are healthy; no context outlives the Checker's timeout |
| `middleware.Bundle` (`middleware/`) | per request: `statusWriter`; shared: the registry | the middleware, `statusWriter`, `logRequest` | concurrent requests, panics, 1xx codes, superfluous headers, flushes that bypass the wrapper, a route known only afterwards | the gauge is exact; a served request is counted once, under its route and the status its client got; a log line at the right level |
| `metrics.Registry` (`metrics/`) | the Prometheus registry | `Init`, `NewCounter`, `NewHistogram`, `RecordHTTPRequest`, the gauge, `Handler`; a standalone middleware | histogram and counter move separately, and a scrape comes between; two middlewares on one registry | counter and histogram agree but for requests in flight |
| `obs.Init`, `Obs.Shutdown` (`obs.go`) | the three providers | `Init`, `Shutdown`, building the middleware | failure half way; several Inits; discarded errors; contexts that end before the drain | a failed Init leaves nothing running; an Obs stops its own provider and no other; Shutdown leaves no span behind unless its context ends first |
| `trace.Init`, `Provider` (`trace/`) | the SDK provider, the process-wide global provider and propagators | `Init`, `Shutdown`, `buildSampler`, two middlewares | the global is never restored; chains capture it when built; every service decides on its own what to sample and what to pass on | spans go to the provider of their own Obs; a trace is recorded whole, joined where it should be, and its tracestate stays within the limit |
| `config.Config` | none | `Validate`, env defaults | numeric edges (NaN, 0), what it does not validate | accepts only what the others accept |
| `log` | the denylist | `New`, the level methods, `scrubWriter.Write` | redaction, repeated keys, malformed lines, short and failed writes of a rewritten line | no denied field is written, the others are kept; `Write` tells the truth |
| `redistrace` | the client's hooks | `Instrument` | it can fail half way, and is retried | one span per command |
| `pgxtrace`, `temporaltrace` | none of their own | option plumbing | - | - |
| `stack/` | external servers | configuration files, smoke scripts | - | not a program of this repository |

The parts meet in few places. `obs.Init` calls the loggers', tracers' and
registry's constructors in that order. `Obs.Middleware` builds a `Bundle` from
the logger and the registry; its trace wrapper takes a tracer from the global
provider, not from the `Obs`. A request crosses trace wrapper, gauge, status
writer and handler, then histogram, counter and log. A poll of the health
endpoint starts one goroutine per check, and a check may be a `CachedCheck`
that polls of other requests use at the same time. Services meet in the headers of
the requests they send each other.

## 2. Modules

| Module | Models | Form |
|---|---|---|
| `CachedCheck` | the closure, its mutex, the clock and the dependency | state machine, safety and liveness |
| `CachedCheckHistory` | the same steps as a poller sees them, with history variables | extends `CachedCheck` |
| `CachedCheckProofs` | theorems about `CachedCheck`, and that it implements `CacheContract` | TLAPS |
| `CachedCheckHistoryProofs` | theorems about what its pollers see | TLAPS |
| `CacheContract` | what a cached check promises its callers | abstract specification |
| `HealthReport` | what a health endpoint promises | abstract specification |
| `HealthHandler` | a `Checker`: registration, then one request to its `Handler` | state machine, refines `HealthReport` |
| `HealthHandlerProofs` | theorems about `HealthHandler`, and that it implements `HealthReport` | TLAPS |
| `Bundle` | concurrent requests through Bundle and the standalone middleware, and a scrape | state machine |
| `BundleProofs` | theorems about `Bundle` | TLAPS |
| `Config` | the configuration and the functions that judge it | pure operators |
| `Lifecycle` | `obs.Init`, `Shutdown`, the global provider, chains and spans | state machine, extends `Config` |
| `LifecycleProofs` | theorems about `Lifecycle` | TLAPS |
| `Redistrace` | `Instrument` on one Redis client | actions and state of `Tracing` |
| `Tracing` | one request through a chain of services | state machine, extends `Config` and `Redistrace` |
| `TracingProofs` | theorems about `Tracing` and `Redistrace` | TLAPS |
| `Logging` | a logger, its `scrubWriter` and the writer below | state machine, extends `Config` |
| `LoggingProofs` | theorems about `Logging` | TLAPS |
| `MC*` | instances for TLC | symmetry, constants |

Each module holds, besides the model, the mutated definitions its properties
were tried against; each is marked `Mutant` and used by nothing.

### CachedCheck

`pc[c]` follows one call through `checks.go:65-80`. `lookup` and `relock` wait
for the mutex; `look`, `stamping` and `storing` own it; `probing` and `probed`
are before and after the instant at which `fn` sees the dependency. Every lock,
clock reading, comparison and assignment that another call can observe or come
between is a step: in particular the reading of `time.Now()` (`ReadClock`) and
the assignment to `lastOK` (`Store`) are two, so that whether the lock covers
both is something the model can get wrong. `Observe` lets `fn` fail although
the dependency is up, since its context may be cancelled. `lastOK = Never`
stands for the zero `time.Time`, whose age `time.Since` saturates to the longest
duration and is below no TTL. Time is monotonic, as Go's clock readings are.
`answer` is what the last call returned, `recorded` the history of `lastOK`.

`CachedCheckHistory` remembers which calls saw the outage that still lasts,
whether one of them reported it, and which calls began after that.

`CacheContract` shows the callers one register, `newest`, and no mutex: a call
looks at it once (`Recall`, `Seek`), asks the dependency (`See`), and answers
with what it saw (`Deny`, `Confirm`). `CachedCheck` implements it under the
mapping `newest <- lastOK` and `stage <- Stage`, which gathers the labels of
`pc`: the lookup takes effect at `Hit` or `Miss`, the update at `Store`.

### HealthHandler

`Init` makes a Checker with any of `Timeouts`; `AddCheck` registers a name, again
if it likes, with any of `CheckTimeouts`; `Serve` ends that, since the Checker is
not meant for registration while it serves (`health.go:57-59`). Then `main`
follows the handler through `health.go:90-156`, `at[n]` the goroutine of check
`n` through lines 106-132. `append` is a read and a write of the shared
slice. `expires[n]` is the deadline of the check's context, computed when the
goroutine first runs. Checks are foreign code: `CheckReturns` may happen at any
time with any result; those in `Honouring` return once their context is done.
The order of the map iteration is any order. A check may also panic
(`CheckPanics`): the deferred `wg.Done()` runs as the goroutine unwinds (`Exit`),
and then, some time later, the runtime ends the process (`Die`). In between the
handler may pass its `WaitGroup` and send a reply that leaves the check out.

`HealthReport` is the promise: checks are registered, verdicts arrive, then one
reply lists each check once, and is 200 only if all it lists are healthy; a check
that panicked is not listed. `HealthHandler`
implements it under the mapping `verdict <- err`, `reply <- code`, `report <-
results` once replied.

### Bundle

`at[r]` follows a request through `middleware.go:48-77`, or, for the requests in
`standalone`, through `metrics/http.go:57-74`. Both end in one registry. chi fills
`pattern` in while the handler runs; the middleware, which was there before, reads
it into `path` in a step of its own (`ResolvePath`) and records under that. While it
is `handling`, the handler may call `WriteHeader` and `Write` on the status writer
and `Flush` on what `Unwrap` returns, return, or panic. `status` and
`wroteHeader` are the status writer's (the two packages have the same one);
`wire` is what net/http sends: the first code that is not 1xx, 200 for a body or a
flush before any, and 200 when the handler returns without either. `detour`
remembers a 1xx or flush that came before the final status. Metrics and logging
are on or off as chosen in `Init`; the standalone middleware always measures and
never logs. The logger's level is taken to let both levels of a log line through;
what a threshold drops is `Logging`'s. Durations, methods, request ids and the span are data no property is
about.

Prometheus gathers the collectors of a registry concurrently, so `Scrape` reads
histogram and counter in either order, with steps of requests between the two;
`between` remembers which requests stood between their own two updates meanwhile.
One scrape is enough: what it sees does not depend on an earlier one.

### Lifecycle

Several calls of `obs.Init`, each with a configuration out of `Configs`. `Init`
returns the error of the part that failed (`err`). `global` is the
process-wide provider and `delegate` the provider the default one forwards to,
as go.opentelemetry.io/otel does for tracers taken before the first
registration. `Build` is `Obs.Middleware` handed to a router: its tracer is the
global one of that moment. `Serve` ends a span of the chain of `i` that
the provider's sampler lets through; what a provider holds is exported or, if the
collector is away, lost.

`Obs.Shutdown` passes its caller's context to the SDK and discards the error it
gets. As of OpenTelemetry's `TracerProvider.Shutdown`, there are three ways for it.
`Shutdown` has the batch processor take no more spans and drain those it holds, as a
process of its own (`Drain`), and returns when that is over (`Returned`, stage
`down`). If the context ends first, it returns while the drain goes on (`CutOff`,
stage `cut`). If the context was over to begin with (`ShutdownLate`), the processor
is never told: the provider is `abandoned`, gives out no tracer that records, but
still takes and exports spans of chains that have one. `mute` holds the chains that
were built on a provider already shut down. Init's own call, when it unwinds, has
a context that never ends.

### Tracing

A request goes through services `1..N`, each a process with its own configuration,
global provider and propagators, so a call of one to the next is the only way for
anything to pass. `Receive` is the trace middleware: it caps the tracestate header
(`Cap`), extracts the parent (`Propagated`, nothing unless `trace.Init` had an
endpoint), and starts a span by the service's sampler (`Decisions`). `CallNext`
is the handler calling on with an instrumented client, `Return` the log line with
its trace id. A trace is named by the service that began it. A ratio decides
either way: nothing is assumed of the rate, or of the platform on which it is NaN.

The last service has a Redis client. `StartUp` calls `Instrument` any number of
times up to `MaxCalls`, after failures and successes alike, and serves even if it
never succeeded; `Command` opens one span per hook. `careful` remembers whether
the service kept to one success and asked for no metrics.

### Logging

`Log` is one event through zerolog's level filter, the `scrubWriter` if there is
one, and the writer it wraps, in one step: a zerolog event is written by one call
of `Write`, and concurrent events share nothing but the immutable denylist and the
writer, whose own calls are atomic. The writer takes a line whole, takes a part
and fails, or takes a part and returns no error. A line is a sequence of fields,
in which a key may come twice, and a mark that it is malformed. zerolog produces
nothing but objects, so lines that do not begin with a brace are left out. Nested
objects are values: the code does not look into them. Names are sequences of
pieces, so that one occurs in another, in either case.

### Config

Fields take one value per class that some function treats differently: levels
and environments that differ in case, an endpoint by its shape and kind of
address, a rate by its side of 0 and 1 (and NaN, with which every comparison is
false). `Accepted`, `TraceAccepted` and `MetricsAccepted` are the three
`Validate` methods; `BuildSampler` is the root sampler of `trace.go:88-104`.

## 3. Runs

| Run | Instance | Shows |
|---|---|---|
| `cached_check_calls` | 2 callers, TTL 2, clock 0..3, liveness | all properties of `CachedCheck`, refinement of `CacheContract`, and `FlapNeedsOverlap` |
| `cached_check_flap` | the same | **violated**: a reported outage can be hidden by an overlapping success |
| `cached_check_stampede` | 3 callers, the clock never reaches the TTL | **violated**: more than two probes |
| `health_handler` | up to 2 checks, one of which ignores its context, either may panic; Checker timeouts 0 and 2, check timeouts 0, 1 and 5, clock 0..3 | safety, refinement of `HealthReport`, `Answered` |
| `bundle_requests` | 2 requests through either middleware, 2 writer calls each, codes 103, 503, one scrape | gauge, counters, scraped page, status, the route recorded |
| `bundle_informational` | 1 request, codes 103, 503 | **violated**: 103 recorded for a 200 or 503 |
| `lifecycle_inits` | 2 Inits, 7 typical configurations each | partial failure, shutdowns with and without time to drain, where spans go |
| `lifecycle_configs` | 1 Init, all 18,144 configurations | the packages' validators agree |
| `lifecycle_noop` | as `lifecycle_inits` | **violated**: an Obs without endpoint exports |
| `tracing_chain` | 3 services; no endpoint, or rates 0, NaN and 1; 2 calls of `Instrument` | what a chain of services keeps together |
| `tracing_parent` | 2 services; rates 1 and a fraction, DevMode | **violated**: the default rate ignores the parent |
| `logging` | 2 events of any level, 6 lines, 5 denylists | redaction, the fields that are kept, honest writes |

The bounds. Two callers of `CachedCheck` suffice for a store to race with a
store, a lookup or a failing probe, and the proofs cover any number; the
stampede needs three because its bound is two. `MaxNow` exceeds the TTL, so
successes expire while calls are in flight; when the clock stops at its bound,
calls go on. A TTL of zero or less is no instance of TLC's: `LookupIsExact` covers
it by its proof alone. The timeouts of a check are none, below and above the Checker's,
and a Checker's may have passed before the request begins; two checks are the
least whose appends can race, and one of each kind has the handler wait for a
check that never returns while the other is done. Two writer calls per handler
are the least that put a 1xx or a flush before a final status, or a superfluous
header after one. Two Inits are the least with one provider replacing another,
and the proofs cover any number; the typical configurations hold one for each
way through Init and each sampler. Three services are the least with one in
between that cuts the chain, and two calls of `Instrument` the least that doubles
a hook; the four configurations of `tracing_chain` hold each of the samplers
`BuildSampler` makes. A second event follows every way the first one can fail, and
the lines repeat a denied key, an allowed one, and put a denied name inside a
longer one in another case.

The fairness. Go runs every runnable goroutine eventually (weak fairness of the
steps of library code) and `sync.Mutex` hands the lock to a waiter after at most
a millisecond of starvation (strong fairness of taking it). Time passes. A check
in `Honouring` returns or panics once its context is done, and a process that a
panic has doomed does end. Nothing is assumed of a probe,
of other checks, or of handlers. The other modules state no liveness.
Deadlock is checked everywhere but in `Lifecycle`, where every Obs may be down.

### What the violations say

* `FailureDetected`. `checks.go:54-55` promises that failures are detected on
  the next poll. Two polls overlap: one succeeds and stores, the other, which
  missed before, sees the dependency down and returns its error. The next poll
  finds a fresh `lastOK` and returns nil. `FlapNeedsOverlap` shows that a
  success recorded during or after a reporting call is the only way, and
  `SequentialDetects` that calls which never overlap keep the promise.
* `AtMostTwoProbes`. `checks_test.go:245-246` allows two calls of `fn` among ten
  goroutines. Nothing in the code bounds them but the number of callers.
* `StatusAsWritten`. The status writer keeps the first code it sees, 1xx
  included. `StatusFaithful` shows the record is right whenever no 1xx and no
  flush precedes the final status.
* `NoopExportsNothing`. `README.md:187-188` says an empty endpoint installs a
  no-op tracer. Nothing is installed; a provider registered by an earlier Init
  stays and the chain uses it.
* `ParentRespected`. `docs/integration-guide.md:245` says the sampler respects
  parent decisions, DevMode excepted. At rate 1, the default, and at 0 it does not
  look at the parent. `WholeTrace` shows that it does at every ratio.

Two results that hold say less than one might expect. `ImplementsReport` allows a
200 that leaves out a check that panicked. `CommandsTraced` bounds the spans of a
command by the calls of `Instrument`, and by one only for a service that asks for
no metrics and stops at its first success: with metrics, a retry after the second
half failed doubles them although no call returned nil before.

## 4. Proofs

Every invariant, action property and refinement that a passing run checks is
also a theorem of its specification, for every value of the constants under the
assumptions its module names. Each proof module states one inductive invariant
as a conjunction of named parts; TLC checked it as an invariant of the run's
instance before it was proved.

### CachedCheck

`CachedCheckProofs` proves, for any set of callers, any TTL (zero and negative
included) and any clock, the type invariant, `MutexDiscipline`,
`RecordedInOrder`, `LookupIsExact` and `LastOKMonotone`. They rest on the
inductive invariant `CacheInv`. Exactness of the lookup needs that `lastOK` is
the newest of `recorded`; that it stays so when a call stores needs that the
reading a call is about to store is no older than `lastOK`; and that needs the
mutex, since only its owner can have a reading outstanding. The assumptions are
that `NoCaller` is no caller, `TTL` an integer and `MaxNow` a natural number.

It also proves that `CachedCheck` implements `CacheContract` (`ContractCorrect`).
Each action maps to one of the contract's or to a stutter; the mapping needs
`SuccessInHand` besides `CacheInv`: a call that is about to record a success has
seen one, and nobody records any when the TTL disables the cache.

`CachedCheckHistoryProofs` proves `FlapNeedsOverlap`. `HistoryInv` adds to
`CacheInv` that a call which probes found the last success expired, and that it
is still expired unless another call recorded one meanwhile (`ProbesWhenStale`);
so, overlapping calls apart, a reported outage leaves nothing in the cache
(`ReportedStale`), and the calls that began after the report see the outage and
record nothing (`KnewIsDown`). `Moves` says what one step may do to one call, so
that the argument about histories never looks at an action. From the same
invariant follows `SequentialDetects`: under the hypothesis that at no moment two
calls are in progress, `FailureDetected`, which the run `cached_check_flap`
refutes without it, does hold.

### HealthHandler

For any finite set of names, any timeouts (negative ones included) and any clock,
`HealthHandlerProofs` proves the type invariant, `JoinsAll`,
`NoContextOutlivesTimeout` and `ImplementsReport`. In `HandlerInv` the WaitGroup
is the number of goroutines that have still to call `Done` (`CounterExact`), so
that zero means that all are through; `SliceOwned` says that only the owner of
the mutex is appending, and to the slice as it is now, so that no append is lost;
`SliceExact` that the slice then lists the checks that have appended, each once;
`StagesAgree` and `VerdictsAgree` tie the handler's line to its goroutines'; and
`DeadlinesNest` says that a deadline, whenever it was computed, lies within the
Checker's. The refinement maps each action to one of `HealthReport` or to a
stutter.

### Bundle

For any finite set of requests, any codes but 101, any patterns that are neither
empty nor `/unknown`, and any number of writer calls, `BundleProofs` proves the
type invariant, `GaugeExact`, `CountedOnce`, `ScrapeConsistent`, `StatusFaithful`
and `RouteRecorded`. The gauge and the metrics are sizes of sets of requests, and a
step moves one request into or out of such a set (`OneMore`, `SizesClose`). The
part that had to be found is `ScrapeHalf`: a page on which one metric was read
shows exactly some set of the requests observed so far, and whatever that set
misses, or holds that the other metric lacks, was between its two updates while
the scrape ran. `StatusFaithful` needs `WriterAgrees`: until a 1xx or a flush gets
ahead, the status writer and net/http agree on every request. `RouteRecorded` needs
`PathsMatch`: a request has a `path` only after its handler, when `pattern` can no
longer change, and the two agree. The label of a request is then fixed before the
first metric uses it, and the counts of `CountedOnce` by label are counts by
matched route.

### Lifecycle

`LifecycleProofs` proves, for any number of calls of `obs.Init` and any
configurations, the type invariant and the four properties of `Lifecycle` that
hold. `AcceptedIsUsable` rests on a lemma about the validators alone
(`ValidatorsAgree`) and on `Validated`, which remembers that a configuration
still to be looked at was accepted. `FailedInitHoldsNothing` and
`StoppedByOwn` follow from `StagesAgree`, which ties the state of each provider
to the stage of its Init, and its buffer to its own state, whatever the steps of
other Inits and the chains that send to it do. `SpansReachOwnOrNewer` needs most: `GlobalIsNewest`
says that `older` is an asymmetric order whose newest element is the global
provider, so that a chain built after its own Obs registered takes a tracer at
least as new (`TracerIsNewEnough`), and `SpansOnTrack` that every span held or
sent came by such a tracer. Assumed are that `NoInit` is no Init and that
`Configs` are configurations.

### Tracing

For a chain of any positive length, any configurations and any number of calls of
`Instrument`, `TracingProofs` proves the type invariant, `WholeTrace`,
`StateCapped`, `LinesJoin` and `CommandsTraced`. The invariant is stated so that
no induction along the chain is needed: each part relates any two services
that the request has reached, and a step extends it by the last one, from what
it says of the one before. `TracesJoin` identifies a trace by the service
that began it; `WholeTrace` and `StateCapped` then are inductive as they stand.
`HooksAgree` counts what the calls of `Instrument` left on the client.

### Logging

For any lines, any denylist and any number of events, `LoggingProofs` proves the
type invariant, `NoDeniedValueWritten`, `OthersKept` and `WriteHonest`. Assumed is that a line is a sequence of fields. Most of the
work is one write (`OneWrite`), from lemmas about the operators on lists: the last
field of a key that occurs exists (`LastOfKey`), a prefix is no larger than its
list and so never passes for a whole line (`PrefixOf`), and `Marshal` writes each
key of its map and no other (`ListsAll`, `Rewritten`). What is true of a write
stays true, since events and writes are only appended.

### Only model-checked

Liveness, which is out of the prover's reach: `CacheNeverBlocks` and `Answered`.
The properties that runs find violated have no theorems; what does hold in their
place is `FlapNeedsOverlap` and `SequentialDetects`, `StatusFaithful`,
`SpansReachOwnOrNewer` and `WholeTrace`. That the deadlocks TLC looks for do not
occur is a statement about `ENABLED` and stays with TLC as well.

## 5. Not modelled

* `pgxtrace` and `temporaltrace` pass options on and keep no state.
* `stack/` configures external servers.
* `Registry.NewCounter` and `NewHistogram` hand a name to Prometheus and return
  its error; which names collide is decided there, and a model of it would be one
  of Prometheus.
* Which events the level lets through, their order, and the end of the process at
  fatal are steps of `Logging`, but no property is about them: they are zerolog's.
* `UserAttributesMiddleware` adds two attributes to a span that is recorded.
* `resolveRequestID` and `normalizeMethod` choose strings no property is about.
  Durations, messages and the wording of errors are data as well.
* Several polls over one `CachedCheck`. Their calls are the callers of
  `CachedCheck`, and that module shows what overlapping ones do to each other; how
  old an observation a healthy reply may rest on depends on how long a probe runs,
  which nothing in the code bounds.

## 6. Plan

Every invariant that a run checks is proved. What may follow, in this order:

1. What holds in place of `AtMostTwoProbes`: while nothing fails and the first
   success is fresh, the probes are no more than the callers.
2. What holds in place of `NoopExportsNothing`: a chain without an endpoint
   exports only to a provider that another Init registered.
3. Action properties of the metrics: a scrape never sees a counter go down.
