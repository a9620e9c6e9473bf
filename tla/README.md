# tidb-clinic-client in TLA+

`tidb-clinic-client` is a Go SDK and command line client for the Clinic backend:
it resolves clusters, queries metrics, logs and slow queries, downloads collected
bundles, and compiles metric series into digests with an embedded WebAssembly
kernel written in Rust. This directory holds TLA+ modules of its core, the TLC
configurations that check them on small instances, and TLAPS proofs of their main
properties for every value of the constants.

Contents: [parts of the system](#1-the-parts-of-the-system),
[modules](#2-the-modules-and-the-code), [runs](#3-what-the-runs-show),
[fairness](#4-fairness), [proofs](#5-what-is-proved),
[disagreements](#6-where-code-and-documentation-disagree),
[limits](#7-what-is-not-modelled), [plan](#8-plan).

## 1. The parts of the system

Calls go downwards; the only callbacks are the request hooks (from the transport
up to the progress display), and the only goroutines besides the caller's are the
display's reminders.

    cmd, cli        flags, environment, portal URL      progress display
      |             runner: one function per command  <--- hooks ------.
    clinic          resolve a target, select a bundle, wait, query      |
      |                          \                                      |
    clinicapi       one method    \-> compiler adapter -> wasm kernel   |
      |             per endpoint                                        |
    transport       attempts, backoff, error classes, hooks -----------'
      |
    Clinic backend  (external)

| Component | State it keeps | Operations | What is hard | What makes it correct |
|---|---|---|---|---|
| Transport `clinicapi/transport.go` | attempt number, last error, the context | `doJSON`, `doBytes`, `doOnce`, `sleepWithJitter` | requests that were served although they failed; late copies; a context that ends at any point; hooks | nothing definite is retried, hooks are well-formed, success means served, a done context ends the call |
| Catalog readiness `clinicapi/retained.go` | `triggeredRebuild`, the deadline | `EnsureCatalogDataReadable`, `catalogStatusPoller` | polling records that change; a non-idempotent request in a retrying transport; records without ids | success means readable, one rebuild of the right item, the wait ends |
| Metrics range queries `clinicapi/metrics.go`, `clinic/metrics.go` | recursion, merged series | `QueryRangeWithAutoSplit`, merge, second pass for the parent | integer halving, refusals in any pattern, partial failure | the range is covered without holes, the recursion is bounded |
| Progress display `cli/progress.go` | stage flags, two tickers, a mutex | three hooks, `Close`, goroutines | hooks in any order, retries, goroutines that outlive their channel | no leak, no double close, no repeated line |
| Collected-data and slow-query commands `cli/runner.go`, `clinic/slowqueries.go`, `clinic/collected_data.go` | none but the call stack | resolve, list, select, ensure, download or query, wait | waits without bound, display and client judge errors separately | the display tells what happens, nothing outlives the command |
| Bundle selection `clinic/retained.go`, `cli/config_base.go` | none | default range, conversion, `selectCatalogItem` | a ranking by several keys; two commands that must agree | the right bundle, and the same one |
| Compiler adapter `internal/compiler` | none | `BuildAnalyzeRequest`, `CompileMetricQueryRange*` | gaps, repetitions and text in series; grouping heuristics | what is compared is aligned, no series is lost |
| Kernel binding `compilerwasm`, `compiler-rs/src/lib.rs` | runtime, guest memory, result and error buffers | `New`, `AnalyzeJSON`, `Close` | a dozen points of failure between allocation and release | a success is this request's analysis; nothing stays open |
| Compiler kernel `compiler-rs/crates` | none | normalize, segment, detect, rank, merge, project | floating point; order of hash maps; positions instead of times | what it averages belongs together; results do not depend on hash order |
| Cluster resolution `clinic/resolve.go`, `target.go`, `availability.go`, `clinicapi/clusters.go` | none | lookup by id among the hits of a search, the organization, platform, capabilities, five targets | a page of a text search; four fields that tell the platform, read in different orders by each decision | the cluster found is the one that was meant, and cloud and OP services stay apart |
| Routing `clinicapi/routing.go`, `types.go` | none | what a request names, what it must have | ids of the record, of its tenant, of its parent and of the portal URL | every request reaches the cluster |
| Cloud slow queries `clinicapi/slowqueries_cloud.go` | none | one list, then one detail request per item, all of it repeated while the log is processing | one failure among many requests; a list that changes between repetitions | all or an error |
| Logs, profiling, diagnostics | none | requests one after the other, a feature gate and a token before a profile | refusals by platform, tier, deletion and gate | refused for the clusters that cannot serve them |
| Client and command configuration `clinicapi/client.go`, `model/types.go`, `cli/config_*.go`, `root.go`, `portal_url.go` | package variables of flags | flags, environment, `.env` file, portal URL (parsed twice), `MergeConfig`, `Valid` | three rules of precedence; two parsers of one URL | flags win, groups are not mixed, cluster and range are of one route |
| Output `cli/output.go` | the file | JSON, files | a failure between the file and the report | what is left is known |
| Benchmarks, viewer | none | development tools | - | - |

`PROJECT.json` lists the components with their sources, and under `hazards` each
thing that is hard to test, at its line, with the properties that cover it.

## 2. The modules and the code

`PROJECT.json` (`map`) gives the lines of every definition. In all modules an
action is one step of the code between two points where something else can
happen: a request or its reply, a hook, a wait, a failure.

**RemoteCall** is the abstract specification of one call of the API: copies are
issued at most `MaxAttempts` times and never after the answer, each is served once
at most, in any order and possibly late, and success means that the last copy was
served. Its state is what a caller and the backend can tell: `issued`, `served`,
`outcome`.

**Transport** is `doJSON`/`doBytes` in detail. `pc` is the place in the retry loop
(`head`, `build`, `sent`, `backoff`, `returned`), `wire[a]` what became of the copy
of attempt `a`, `reply[a]` and `err[a]` what it came back with, `hook[a]` the last
hook of the attempt, `ctx` the context. The classes and retry flags come from
`classifyHTTPError` and `classifyTransportError`; a 2xx body that does not decode
fails after `OnRequestDone`, as in the code. It implements RemoteCall by the mapping
at its end.

**CatalogReadiness** is `EnsureCatalogDataReadable`: validate, probe, perhaps
trigger, wait. The backend's `status` of each record changes at any time; `snapshot`
is what the last probe saw. A probe is one atomic request with a delayed answer
(it changes nothing), the rebuild request is an instance of RemoteCall: that is how
a late copy of it can restart a rebuild after the call returned. `expires` tells
whether the backend withdraws data on its own.

**MetricsAutoSplit** is the recursion of `QueryRangeWithAutoSplit` as an explicit
stack: `pos` is how far the range has been answered, `pending` the ends of the
ranges still open. `merged` is the result, as the times collected of each series;
`Evaluated` is the backend's grid, cut to seconds as the decoder does. `TryParent`
is the second pass of `clinicServiceClient.QueryRange`.

**Progress** is the display: `printed` and `said` (stage flags and what was
printed), the two ticker variables, the goroutines (`running`) and the channels that
were closed (`stopped`). A hook is one action, as its state changes are under one
mutex; a reminder goroutine may print although its channel is closed.

**CollectedCommand** composes Progress with the commands: each request of the
client is started, retried, done or failed through the hooks, the waits are actions
of their own, and the display's variables are those of Progress. Its steps
are put together from Progress's, so that what is proved of the display under any hook
calls holds in every command.

**DataSelection** is a sequence of commands on one portal URL: the range each one
derives (the clock is read by each command anew, a default of ten minutes, milliseconds
converted by the sample query only),
the listing of the catalog, the ranking of `selectCatalogItem`. `Outranks` is the
comparison of the code, `Firsts` the stable sort's first element.

**SeriesGrouping** holds the pure part of the compile: conversion, metric and
entity identities, buckets, common times, trimming, and how the kernel reads what it
is sent (sorting, repetition, averaging by position). **MetricsCompile** is the call
around it: build, marshal, instantiate, allocate, write, call, read, free, close,
decode, each with its failures, and the guest's two buffers.

**KernelEvents** is the kernel after its statistics: a finding of a series is any that
its detectors could make, with any score above the least one of its kind (`Floor`).
`AnalyzeLine` places the events (`Window`), keeps three (`Tops`) and derives the state;
for a group `MergeKind` is one turn of the loop over the hash map `by_kind`, in any
order, `MergeAverage` one event of the average, also in any order, then come the
imbalance among peers and the cut. `Project` is the period in the payload's text and
the problem range of the adapter's digest. Scores of a group are kept whole by counting
in parts of 1/(20 n).

**ClusterTargets** holds the decisions taken from a cluster record as operators: which
hit of a search it is, routing type, platform, context of a slow query, the targets of
each kind of request. A field is `""` when it is absent; provider, region and project
are one value, `place`, as they are only used together.

**CommandLine** holds what a command is told. A portal URL is two routes, its path and
its fragment; `PortalRoute` is the SDK's choice between them, `CLIRoute` the command
line's. Environment, `.env` file and flags are partial functions from options to
`good`, `zero`, `bad` or, for a flag, blank; an option that was decided keeps where it
is from (`by`), which is what precedence is about. `Config(job)` is what loading
yields, `LoadRefused(job)` when it fails.

**ClusterCommand** is one command of the command line over these two: `Load`, `Connect`,
then one action per request with its reply (`LookUp`, `OrgKnown`, `Gated`, `Tokened`,
`Catalogued`, `Ensured`, `SamplesListed`, `Detailed`, `Answered`), the waits, `Deliver`.
`pc` names the request to send next; `RequestFails` and `Refuse` are its two ways of
not succeeding; `sent` is a history of the requests with what they name. A request is
one step here: Transport, CatalogReadiness, MetricsAutoSplit and DataSelection say what
happens within it.

| Module | Constants | Bounds in the runs |
|---|---|---|
| Transport | `RetryMax`, `Statuses` | 2 retries; one status of each class |
| CatalogReadiness | `Records`, `Items`, `Statuses`, `MaxCopies` | 3 records, 3 items, 2 copies of a PUT |
| MetricsAutoSplit | `Requests`, `Series`, `Second` | ranges of up to 11 s, steps of 0.5 to 5 s, zero, negative, unparseable; one series |
| Progress, CollectedCommand | `MaxTickers` | 3 reminders |
| DataSelection | `Ids`, `Bundles`, `Times`, `Clock`, ... | 3 bundles of 6 kinds, 4 times in the URL, 2 of the clock, 2 commands |
| MetricsCompile | `Keys`, `Series`, `Queries`, `MaxSeries` | 3 series of 14 kinds, 2 labels, 3 queries |
| KernelEvents | `Points`, `Spacing`, `Findings`, `PeerScores`, `MaxMembers` | 12 samples a minute apart, 8 sets of findings, 3 members, 2 scores of an imbalance |
| ClusterCommand (CommandLine, ClusterTargets) | `Cases`, `Listings`, `PageLimit`, `Now`, `Window` | jobs that vary one thing at a time (below), listings of up to 2 samples, a page of 2 hits, time 100, window 10 |

The `MC*` modules give these values; the `.cfg` files bind them.

## 3. What the runs show

| Run | Module | Shows |
|---|---|---|
| `transport` | Transport | `HookLifecycle`, `OkMeansServed`; the refinement of RemoteCall; `ContextBoundsCall` (liveness) |
| `catalog_readiness` | MCCatalogReadiness | `OkMeansReadable`, `AtMostOneTrigger`, `RebuildsTheItem`, `OkIsUsable` |
| `catalog_live` | MCCatalogReadiness | `ContextBoundsWait` and `ReadableIsNoticed` (liveness) on two records |
| `catalog_raw_error` | MCCatalogReadiness | violation: `ErrorsAreClassified`, see section 6 |
| `metrics_auto_split` | MCMetricsAutoSplit | `OkCoversRange`, `NoHoles`, `RequestsBounded` |
| `progress` | Progress | `TickersMatchGoroutines` under any hook calls |
| `collected_command` | CollectedCommand | `ReadyIsTrue`, `WaitsAreReminded`, `OutcomeIsTold`, `CommandGoesQuiet` (liveness) |
| `data_selection` | MCDataSelection | `PickReachesRange`, `SlowLogIsFound`, `PickIsKept` |
| `data_selection_default` | MCDataSelection | violation: `LatestByDefault`, see section 6 |
| `metrics_compile` | MCMetricsCompile | `GroupsAligned`, `LastSampleWins`, `NothingLeftOut`, `ScopeIgnoresOrder`, `RuntimeIsClosed`, `OkIsTheAnalysis` |
| `cluster_command` | MCClusterCommand | `RequestsReachTheCluster`, `OneMatchOnly`, `PlatformsStayApart`, `SamplesAreComplete`, `OneRoute`, `FlagsDecide`; `CommandEnds` (liveness) |
| `kernel_events` | MCKernelEvents | `HashOrderIsInvisible`, `UnanimityIsKept`, `EventsInWindow`, `PeriodsAgree` |

The modules' `TypeOK`, and two properties that follow from them with little more
(`RetriesOnlyPassingTrouble` of Transport, `StageLinesOnce` of Progress), are in no run:
they are proved (section 5). Each property has a mutant (an
operator next to the definition it stands for, marked `Mutant:`) that a plausible bug
would amount to, and that TLC finds with the run's own configuration.

Why the bounds are enough:

- *Transport*: two retries give a first, a middle and a last attempt. The statuses
  are one of each class of `classifyHTTPError` and 304, which is neither a success nor
  an error class of its own.
- *CatalogReadiness*: a record with the item's id, one without an id and one of
  another item, all of one range, are the ways in which a record can match; two copies
  of the rebuild request suffice for one to be late. The liveness run is smaller as its
  behaviours are longer; its formulas hold for one record already.
- *MetricsAutoSplit*: the code treats series one by one, and nothing relates two of
  them; one series, present or not in each part, is all there is to see. Eleven
  seconds give three levels of halving with odd and even lengths; the half-second unit
  gives steps below a second and steps that seconds cut down.
- *Progress*: three reminders are one more than the two tickers, so that a leak shows.
- *DataSelection*: comparisons are between two bundles, and a third is what can make a
  ranking intransitive; bundles lie before, across and after the ranges, lack a start
  or an end, a log or a slow log. `PickIsKept` relates consecutive commands, which run
  at either of two times, before which different bundles lead in the default range. Its
  premise is a portal URL with an end (`to`). Without one the range ends when the command
  runs (`config_base.go:45`), and a second command may well pick another bundle that was
  listed all along; nor does it hold of the two slow-query commands on a URL in
  milliseconds, which only the sample query converts.
- *MetricsCompile*: three series are two in one bucket and one beside it, or three in
  one; their kinds include gaps, repetitions out of order, NaN, text, too few samples,
  too few common times, and labels that render alike. A sample's value is its place, so
  that two samples of a time can be told apart.
- *ClusterCommand*: the decisions about records, URLs and options are independent of
  each other, so each family of cases varies one of them in full and keeps the others
  plain. Records: every combination of three cluster types, six deploy types, three
  newer ones, a parent or none and three organization types, through seven commands;
  then each missing field and both ways of being deleted, through all commands. URLs:
  four paths by eleven fragments by two hosts, with either, both, neither or contradictory
  bounds of the range. Options: every set of variables, `.env` entries and flags of
  each command, good, zero, bad and blank. Two hits are a page, so that three show a hit
  beyond it; two samples are the fewest with an order, or with one that fails after
  another succeeded.
- *KernelEvents*: the sets of findings hold up to four events, one more than is kept,
  with ties between kinds, windows cut at the end of the series, a tail too short to
  count and one or two changes of regime; twelve samples are the fewest that can have
  two. Three members are two that agree and one that does not.

## 4. Fairness

Safety runs assume none. The liveness runs assume:

- `WF_vars(Caller)` in Transport and CatalogReadiness: the caller's goroutine is
  scheduled, timers fire and `http.Client.Do` returns once its context is done. Nothing
  is assumed of the network or the backend; `ContextBoundsCall` and `ContextBoundsWait`
  hold although no request is ever answered. `Caller` does not contain the backend's or
  the network's actions.
- `ReadableIsNoticed` adds, as a premise, that the backend answers probes and serves
  requests (`BackendAnswers`). Without it, and without a deadline, the code waits for
  ever, as it is written to.
- `ClusterCommand`: `WF_vars(Program)`, the steps that are the program's own: loading,
  refusing an invalid request, the end of a wait, going from sample to sample, delivering.
  Nothing is assumed of a request that was sent: the commands run on
  `context.Background()` and no timeout reaches their `http.Client` (hazard at
  `client.go:63`), so that one which is never answered keeps its command for ever.
  `CommandEnds` says that this and the repeated wait for a log that is processing are the
  only two ways for a command not to end. (`Refuse` for what a selected bundle lacks is not
  in `Program`: whether it lacks anything is open here.)
- `CollectedCommand`: a reminder whose channel is closed returns (`select` picks fairly
  among ready cases), and a command that has its result exits. The requests and waits of
  the command have no fairness: on `context.Background()` they may last for ever.

## 5. What is proved

All theorems are about `Spec` (`CommandSpec` in CollectedCommand), for every value of the constants that satisfies the
named assumptions of the module (types of the constants; in ClusterCommand that profiles
and files have no flags, as in the code; in CatalogReadiness also that
an id names one record, in DataSelection that ids are numbers).
`PROJECT.json` lists them with the property each one states.

| Module | Theorems | The inductive invariant, and why it is needed |
|---|---|---|
| TransportProofs | type, hooks, success, retries, refinement | `Control` ties `pc` to `attempt` and `result`; `Retried` says that every failure left behind was retryable, which is what makes `RetriesOnlyPassingTrouble` hold of the next one; `Wire` that nothing beyond `attempt` was sent and that only served copies have replies. The refinement maps each action to an action of RemoteCall or a stutter, with the invariant's help. |
| CatalogReadinessProofs | type, readable, one rebuild, right item, usable, one call | `Seen`: what is readable, or was in the last answer, has been readable. `Counted`: `triggeredRebuild` and the phase determine the number of rebuilds. `Validated`: only valid items get past the checks (the lemma on rebuild requests needs it). For `OkIsUsable` also `Settled` (the copy issued last was served once the trigger returned) and `Fresh` (what an answer showed readable still is). `RebuildIsOneCall`: the rebuild requests of a whole wait are a behaviour of RemoteCall, so that what Transport promises of one call (`ImplementsRemoteCall`) is what CatalogReadiness takes it for. |
| MetricsAutoSplitProofs | type, coverage, requests bounded, no holes | `Chain`: the answered queries follow each other from the start to `pos`. `Ahead`: the last pending end is the range's. `Counted`: the range is whole, or every part of it, answered, under way or waiting, is as long as the shortest part (`Parted`), and the requests of a pass are two for each answered part and one for each waiting one, less one; the lemmas on products, quotients and halves turn this into `Pass`. `Dense`: in a series that all answers so far contain, each second up to `pos` has a sample within a step before it (`GridIsDense`, the grid cut down to seconds). |
| CollectedCommandProofs | of the display: type, no leak, lines once; of the command: ready, waits, outcome, no leak | `TInv`: the two tickers hold distinct goroutines, and these are the ones not told to stop. `LInv`: a line was printed exactly when its flag is set. Each step of the command is a hook call of Progress or leaves the display alone, by the way CollectedCommand is written, so a command keeps both (`CommandsKeepProgress`). `RebuildReminded` and `OperationReminded` say at which places of the command which ticker runs, and that the second one takes over from the first; `Told` what has been printed of the operation before it returned. |
| DataSelectionProofs | in range, slow log, latest, kept | Lemmas: the ranking is total and transitive, an overlap is a natural number, positive exactly when the ranges meet. `PickIsFirst`: the picked bundle is first among the listed ones for the range its command had at some time. With an end in the URL that range is the same at all times (`RangeStays`), hence `PickIsKept`. |
| ClusterCommandProofs | type, one route, flags, one match, on target, platforms, samples | Lemmas: `Steps` (but for three actions a step leaves the history alone or adds the request `pc` names) and `Ways` (which phase follows which). `Configured`: past loading the configuration is the job's, which was not refused. `Located`: the cluster found is the one exact match of the page. `OnTarget` and `Apart` say of every request sent what it names and which platform allowed it; `Apart` also that `slow_query` is reached without `ensure` for cloud contexts only, and a record that says OP is never one (`SaysOPWaits`). `Complete`: the details are those of the listing's prefix, a repetition starts both anew. |
| KernelEventsProofs | type, in the samples, periods agree, hash order, unanimity | Lemmas: a set of numbers has a least element, a finite one a greatest (well-foundedness of the naturals); an event is within the samples whatever is found; the hull of some events lies in the hull of all. `Merging` and `Lines` say that events are good ones (`GoodEvent`) and finitely many, which makes the three that are kept a sequence; `Results` that the period and the range are those of the top events. For the hash order, `Grouping`: there is one event of a kind, it depends on the kind alone, and after the average it is the one of `Total`; scores and kinds then rank the events without ties (`KeysRank`, `RanksDiffer`), so that the three kept are one sequence (`TopsAreRanked`). `Shown` says that each line's events are its three first. For unanimity: a kind that leads in every member has the highest best score and as many members as any other (`LeadOfMembers`), a tie is decided by the kind as it was in the member, and the average supports it most (`LeadOfAverage`). |
| MetricsCompileProofs | type, aligned, last sample, none lost, order, common times, runtime, success | Lemmas: a set of places has a last one (well-foundedness of the naturals); a trimmed member has exactly the common times and keeps the last sample of each; the buckets partition the drafts; what is sent after encoding are numbers. The invariant says that the request is the one the arguments give, that the runtime is open exactly between instantiation and close, and that a text without an error is this request's analysis. `intersectTimestamps`: its count of a time after n places is the number of members in a row, from the first on, that have it (`Rows`); the recursion is followed to the place where it would first go wrong, as induction over data is not available. Hence `CommonIsShared`, and with it `OrderNeverMatters`: in another order of the answer the buckets, their labels, times, lengths and distinct identities are images of the old ones (`BucketsMove`, `CommonMoves`, `DifferencesMove`); only the numbers of unlabelled series change, and these differ in any order. |

Only model-checked: liveness (`ContextBoundsCall`, `ContextBoundsWait`,
`ReadableIsNoticed`, `CommandGoesQuiet`, `CommandEnds`), which is beyond the prover. All
safety properties that a passing run checks are theorems. The order in which `Ordered`
puts the common times stays opaque in the proofs, as nothing depends on which one it is:
`GroupsAligned` holds because all members have one set of times.

## 6. Where code and documentation disagree

- `catalog_raw_error`: a deadline that passes during the backoff of the rebuild request
  returns the bare `ctx.Err()` from `doBytes` (`transport.go:99`), unclassified; the test
  at `retained_test.go:404` expects every timeout of the wait as an `*Error` of class
  `ErrTimeout`. All other paths do classify.
- `data_selection_default`: the help of `op-pkgs download` (`root.go:423`) says that
  without a range the latest bundle is chosen. Without a range the command uses the last
  ten minutes, and the overlap with them ranks before the end of the bundle.

Further observations, in the models without a property or next to one, as nothing in
the repository promises otherwise:

- One NaN among the samples of one series makes the whole compile fail (`Encodable`). A
  download may rank a bundle first that the readiness check then refuses (`refused`).
- A portal URL whose fragment leads to a page that is not a cluster's, while its path is a
  cluster's, yields the cluster of the path with the organization and range of the
  fragment (`LeadsElsewhere`, the premise of `OneRoute`).
- `cluster` asks with the organization of the URL, every other command with that of the
  record that was found.
- Whether a slow query waits for the bundle goes by other fields than the platform. Records
  that call a cluster neither cloud nor OP, but have an OP organization or a deploy type
  that is not known, are queried without the wait; `PlatformsStayApart` says that none
  which calls itself OP is.
- A cluster that has the newer deploy type only is refused by the NGM services' check
  ("deploy type is required"), as `NGMTarget` reads the older one. A premium cluster without
  a parent is asked itself: the error of `ProfilingTarget` is dropped.
- Deleted clusters are refused metrics, logs and files, but not events, slow queries and
  bundles.
- A variable that does not parse is refused even when a flag hides it; the limit of a log
  query is checked in a variable and not in a flag.
- Both kinds of file are downloaded from the OOM records' service. A list of samples in an
  unknown shape (`{"slowQueries": null}`) counts as one sample without a locator.
- A direct cluster URL (no `portal`, no fragment) keeps its route in the path of the API
  (`BasePath`).

## 7. What is not modelled

- The decoding of slow query records from their several spellings, and of other payloads
  beyond the distinctions the modules name (decodes or not, usable or not, located or not).
- Defaults that only set durations and counts, and `WithTransportConfig`, which changes the
  caller's `http.Client` in place. The SDK surface: re-exports and copies between types.
- The package variables of the flags: a process runs one command, around which they are
  set and restored.
- The floating point part of the kernel (statistics, PAA, scores, thresholds): out of
  TLC's reach, and no property of the adapter depends on it.
- HTTP headers, the URLs of requests, jitter, the wording of messages: no property is about them.
- Data races: the display's mutex covers every access to its state, and the client has
  no other shared mutable state on the modelled paths.
- The benchmark crate and the regression viewer: development tools. The wording and layout
  of output; that it is written, partly or not at all is in ClusterCommand.

## 8. Plan

Done, in this order: RemoteCall and Transport; CatalogReadiness on top of it;
MetricsAutoSplit; Progress, then CollectedCommand over it; DataSelection;
SeriesGrouping and MetricsCompile; KernelEvents; ClusterTargets, CommandLine and
ClusterCommand; proofs of each, of all safety properties that the runs check.

Left:

1. ClusterCommand with CollectedCommand as one: `platform` and `skipEnsure` of the latter,
   which are free there, derived from the record.
2. The rest of the kernel and of the metrics merge: ranks among peers
   (`attach_peer_context`), the projection of events into texts, regimes for any set of
   change points, and the key by which `mergeMetricRangeResults` matches series.
3. Proofs: what connects the components - that ClusterCommand's requests, one step each
   there, are calls of Transport and CatalogReadiness - once the first item is done.
