# TLA+ model of the versioning demo

The repository is a demo of Temporal Worker Versioning: a **backend** publishes
pizza orders and serves a dashboard, **pizza workers** of several builds run
them, and an operator moves traffic between the builds. This directory models
the parts of it that are concurrent, checks them with TLC and proves theorems
about them with TLAPS.

## 1. Inventory

Paths are relative to the repository root.

| Component | State | Operations | Hard behaviour | What makes it correct |
|---|---|---|---|---|
| Order publishing (`internal/publishing/workflow.go`, `publisher.go`) | workflow run: history, memo mark, timers; activity attempts in backends; pizza orders on the server | `OrderPublishing`, `PublishOrders`/`publish`/`isCurrent`, `CloseOrders`/`openOrdersBefore` | attempts that freeze, die, are superseded or outlive their run; check-then-act between `isCurrent` and `ExecuteWorkflow`; timers and timeouts; results that arrive late | no stream of orders from a stopped run; orders of the right runs closed, kept or spared; a mark that is atomic and true; every run ends |
| Switch (`internal/publishing/switch.go`) | per backend: `open`, `pausedRunID`, `mu`; the run itself is on the server | `Ensure`, `Pause`, `Resume`, `Refresh`, `Run` | calls that fail or whose answers are lost; Describe results used later; two backends; restarts | a paused run never reads as open, a resumed one does, the cache converges, a pause misses no run that was there |
| Rollout actions (`internal/dashboard/actions.go`, handlers of `server.go`) | routing config on the server; nothing local but the label cache | `Ramp`, `Promote`, `Rollback`, `EnsureCurrentVersion`, `RecoverOne` | describe-then-call without a conflict token; retries against a deadline; labels that appear late | bootstrap targets v1 and leaves the rest alone; a version name reaches a build of that version |
| Version labels (`internal/dashboard/versions.go`, `cmd/worker/main.go`) | label in the version metadata; cache in the backend | `publishVersionLabel`, `LabelResolver.label` | late, missing and failing labels; concurrent fetches | only published labels are cached |
| Pizza orders (`internal/pizza`) | steps, failing flag, pinned build | the v1, v2, v3 workflows, their activities, the `getState` query | retries of v3's drone, recovery by reset onto another build, from several clicks, beside `CloseOrders` | a run's history is its build's, a recovered run stays on the good build and is delivered, every order ends |
| Dashboard feed (`poller.go`, `sse.go`, `server.go`) | latest state, subscriber channels | `tick`, `Publish`, `Subscribe`, `handleSSE`, `republishLatest` | slow subscribers, frames dropped, read-then-publish | every browser ends up with the newest state |
| Temporal reader (`temporal_reader.go`) | none | `DeploymentSnapshot`, `OpenOrders` | one page of at most 50, a query per order that may fail | consistent payloads |
| State and views (`state.go`, `render.go`) | none | `BuildState`, the Deploy modal's view, the stepper | mixed labels, boundaries | percentages add up, the modal proposes what is, the stepper shows what is done |
| Backend process (`cmd/backend/main.go`) | goroutines | start, shutdown order | the worker's stop races the attempt's loop | an attempt is handed over, not lost |
| Front end, manifests, Makefile, CI | – | – | – | not modelled |

How they interact: the backend hosts a Temporal worker for the publishing
workflow and its activities; HTTP handlers call the switch and the rollout
actions; both only change the world through calls to the Temporal server, and
read it with Describe. Everything that is shared between two backends, or
between a backend and its own earlier life, is on the server. Pizza orders are
started without a version: the server routes them by the routing config.

The hazards this leads to are listed in `PROJECT.json`, each at its line, with
the properties that cover it.

## 2. Plan

1. `PublishingRuns`, the abstract specification: what Describe shows of the runs. *(done)*
2. `OrderPublishing`, the core: runs, attempts and orders; it implements `PublishingRuns`. *(done)*
3. `OrderPublishing_proofs`: typing, the mark, late orders, the order of the runs
   and the refinement `ShownRuns`; `OrderClosing_proofs`: what is closed, kept and
   spared. *(done)*
4. `PublishingSwitch`, the switches of one or two backends over `PublishingRuns`;
   `PublishingSwitch_proofs`, for any number of them. *(done)*
5. `Rollout`: builds, labels, routing, bootstrap and requests; `Rollout_proofs`. *(done)*
6. `PizzaOrders`: an order's life, its pinning and its recovery; `PizzaOrders_proofs`. *(done)*
7. `Dashboard`: poller, hub, subscribers, `republishLatest` and the pause stamp; `Dashboard_proofs`. *(done)*
8. `DeployModal`: cards and the modal's proposal over the states of `Rollout`;
   `DeployModal_proofs`. *(done)*
9. `OrderIds`: the clock seed, the ticker and the counter; `OrderIds_proofs`. *(done)*

Every safety and action property of a passing run is now a theorem. Open are the
three hazards without a property.

## 3. Modules

### `PublishingRuns`

One variable per thing a Describe can show: `phase[r]` (none, open, closing,
over) of run `r`, numbered in order of start, and the set of signalled runs. Its
actions are a start without a live run, a start that replaces the live run, a
signal, the stop of publishing and the end of a run. It is both the abstract
specification of `OrderPublishing` and the world of `PublishingSwitch`.

### `OrderPublishing`

| In the code | In the model |
|---|---|
| execution status (Terminated and TimedOut are both "killed"), memo mark, signal in the history | `status`, `mark`, `signalled` |
| where `OrderPublishing`, `publish`, `closeOrders` stand | `stage`: new, publishing, waiting, closing |
| start of the close timer; `startedBefore` | `stopAt`; `bound` |
| `PublishOrders` on the server: pending state, attempt number, result | `activity`, `attempt`, `outcome` |
| the loop of one attempt in one process | `pc[r][k]`: loop (at the select), checked (between `isCurrent` and `ExecuteWorkflow`), leaving (nil on its way), gone |
| `CloseOrders` on the server and in a process | `closing`; `closer`, `toClose` |
| pizza orders | `orderState`, `order` (run, attempt, start time, and whether the run had stopped) |

A workflow task is one action, as the server commits its commands together: the
mark and the timer (`StopPublishing`), or the bound and the `CloseOrders` command
(`CloseTask`). An activity attempt takes one step per call. `FirstTask` may find
the pause signal already in its history. A failed attempt is retried or, too
close to the deadline, closes the activity with retry state TIMEOUT
(`RetryOrGiveUp`, `windowRanOut`). `ReturnNil` and `EndAttempt` only count when
the server still waits for that attempt.

Abstracted: the ticker's period, order IDs and menus; pages of `ListWorkflow`
(read in full before any termination, so taken as one read); heartbeats, except
for their absence. A check that fails skips the tick and changes nothing, so it
is a stutter. The `default` branch of `publish` (an activity failure that is
neither a cancellation nor a timeout) cannot be reached: the retry policy has no
limit of attempts and no error is marked non-retryable. The `CloseOrders`
activity has no heartbeat timeout, so the server never starts a second attempt
beside a first. The list of open orders is taken as exact; visibility's delay is
not modelled. Start times and `workflow.Now` come from one clock.

### `PublishingSwitch`

`mu`, `open` and `pausedRunID` of each backend, and one step per Temporal call
under `mu`. The handler thread runs `Ensure` when the backend boots and `Pause`
or `Resume` for requests; the refresher thread runs `Refresh`. A call may fail
without effect, succeed with its answer lost, or stay on its way and reach the
server after its caller has given up (`strays`). A backend may crash at any
step. `paused` and `resumed` are history variables for the properties.

### `Rollout`

`version[b]` is the code of build `b`, numbered in the order of `CreateTime`;
`published` and `cached` are the labels in the metadata and in the
`LabelResolver`; `current`, `ramp`, `pct` are the routing config. The bootstrap
loop and each request read with Describe (`Seen`), look labels up
(`FindLabels`) and call, in steps that interleave. `TargetOf` is `versionIndex`
with its CreateTime fallback, `BootstrapTargets` is `bootstrapBuildID` without
it. The server refuses to ramp the Current build and clears the ramp of a build
that becomes Current: this is taken from the server, not from `src/`.
Two builds have distinct CreateTimes.

### `Dashboard`

| In the code | In the model |
|---|---|
| `Hub.latest`, `hasData`; the zero `DashboardState` | `latest`, `hasData`; `Zero` |
| a subscriber's channel of capacity 1 | `chan[b]`, a set of at most one frame |
| the loop of `handleSSE`; the frame in `writeFrame` | `conn[b]`: select, taken, stamped; `hand[b]` |
| what the page shows | `shown[b]` |
| `tick` | `poller`: two reads, then `Publish` |
| `handlePause`, `handleResume` | `handler[h]`: the switch's part, `Latest`, `Publish` |

A frame is a version of the routing and one of the orders; `Stamp` adds the pause
state when the frame is written, as `writeFrame` does. Hub methods are atomic,
everything between them interleaves. The switch is reduced to its cached `open`,
changed by requests and by `Refresh`. A frame's regions reach the page together;
an order's query reads the same version as the list it comes from.

### `DeployModal`

`Cards` is `BuildState` of the routing config and the builds of `Rollout`, and
`buildDeployModalView` what the modal proposes from it, so that both are checked
in every state that the bootstrap and the requests reach. A poll may have found
any set of labels that lies between the cached and the published ones
(`MayFind`). The stable sort of the cards is the one listing of the builds that
is ordered by `Before`: by label, and by age for equal labels. The slider is a stop, which is what `POST /deploy` sends. A draining
build counts as inactive, which is how the modal treats it; pinned counts are left
out. Of two builds with one label the modal reads the older one's card while
Deploy goes to the younger one; `ModalKeepsRouting` asks for unique labels and says
nothing of such a pair.

### `PizzaOrders`

| In the code | In the model |
|---|---|
| the chain of runs of a workflow ID; its latest run | `Runs`; `latest` |
| execution status | `status[r]` |
| pinned version; `VersioningOverride` of a reset | `build[r]`; `override[r]` |
| history: one completed workflow task per step | `history[r]`, the steps scheduled |
| `CurrentStep`, `Failing`, `Done` of `getState` | `CurrentStep`, `Failing`, `Done`, read off the history |
| `RecoverOne` in the handler of one click | `request[q]`: Current build, Describe, history, reset |
| `CloseOrders` | `closing`, `toClose` |
| routing config; builds with workers | `current`, `ramp`; `served` |

A workflow task of an order is one action: the activity that was under way has
ended and the next is scheduled. The first task pins the run. `Complete` is the
last task, `DroneWindowOver` the one that gets the drone's error. A failed drone
attempt is retried by the server and changes nothing. A reset names the run that
was described and the task it rewinds to; the server ends the open run, whichever
that is, and starts another with the base's history before that task. The model
allows any reset point; that it is always the first one, so that the new run
starts afresh, is what `Replayable` rests on.

`FixOffered` is the only guard a click has: the page offers Fix on a failing
card, and may show a card that is out of date. `RecoverOne` does not look whether
the run it resets is failing. So a second click may reset a run that is healthy
again, or even deliver the order of a completed run once more: the run `fix_twice`
shows it against the comment of `RecoverOne`. What a recovery does promise is
`RecoveriesDeliver`: onto a build without the drone it gets the order delivered,
unless it is reset again, its build goes, or `CloseOrders` finds its run open. A
`CloseOrders` that had listed the run before terminates by run ID and spares it.

One build per version is assumed, and that a build keeps its code.

### `OrderIds`

The loop of `PublishOrders` with its ticker and counter, at the price of all else.
Time runs in fractions of a second, a ticker holds at most one tick, and an
attempt may die, lag or be overtaken at any step. All attempts read one clock,
and only the newest one passes the check: the window in which an overtaken
attempt passes it, between the end of the activity and the mark, is left out here.

Operators whose comment starts with "Mutant of" are variants of the definition
after them, with the bug the comment names. They are not part of any
specification; putting one in the place of its original makes a property fail.

## 4. Runs

| Run | Bounds | Shows |
|---|---|---|
| `attempts` | 1 run, 2 attempts, 2 orders, clock 0..1 | at most one late order per attempt, the mark is true and atomic, with attempts that freeze and overlap; pauses, windows and closing phases end |
| `resume` | 2 runs, 1 attempt each, 1 order, clock 0..2 | a resume at any point: closed, kept and spared orders; refinement of `PublishingRuns` |
| `frozen` | 1 run, 1 order, starts may take longer than `closeDelay` | **violated**: `SparedBelongToNewer` |
| `outage` | 1 run, 1 order | **violated**: `StoppedMeansClosed` |
| `switch` | 2 backends, 5 runs, 2 requests, 1 fault, 1 stray call | the cache tells the truth after a pause and a resume, with the other backend and late calls, and converges; a pause misses only a run that was started meanwhile |
| `rollout` | 2 builds, 1 request, 1 fault | bootstrap and requests over labels that appear at any time; the cards and the modal in each of these states |
| `rollout_labels` | 3 builds, 1 request | **violated**: `MetadataFirst` |
| `bootstrap_race` | 2 builds, 1 request, no faults | **violated**: `BootstrapOnlyWithoutCurrent` |
| `dashboard` | 1 browser, 2 requests, 1 change of the world, 1 flip, 1 fault | a pause reaches every page without another poll, and every page converges |
| `recovery` | builds 1 and 3, 2 requests, 3 runs, 1 fault | an order and its recoveries beside promotes, ramps, sunsets and `CloseOrders` |
| `fix_twice` | builds 1 and 3, 2 requests, 3 runs, no faults | **violated**: `ResetsInErrorOnly` |
| `ids` | half seconds, intervals of 0.5, 1 and 1.5 s, 3 attempts, 3 s | no ID is used twice from an interval of a second on |

Why the bounds are enough. Two attempts give a superseded and a current one; a
third adds nothing that the second does not do to the first. Two orders let
each attempt start its late order, or one of them two. Two runs give an
old and a new one, and a clock of two ticks lets the new one start after the old
one has scheduled `CloseOrders`. One order is enough for properties that speak of
one order at a time. In `switch` two requests are a pause and a resume, of one
backend or of both, and a restart, a failed call or a late one is the fault beside
them; five runs are as many as two backends, a restart and two resumes can start, so that
no start ever waits for the bound. What holds of longer sequences of requests and
faults is proved (section 5), except `CacheConverges`. Two builds are the least that can be confused with each other; the
violated label property needs no more than a labelled and an unlabelled one.
Browsers do not affect each other, so one is enough; two requests overlap with
each other and with a poll, which is how `republishLatest` can put an older frame
over a newer one. In `recovery` v1 and v3 are the versions whose pipelines differ
most, and v3 the one that gets stuck; two requests give three runs, and the one
fault is a failed call, a lost answer or a second list. `Builds = {1, 2, 3}` with one
request passes as well. In `ids` one attempt lags while the next two follow.
`PauseReachesBrowsers` speaks of the moment when no request is
half done, and `BrowsersConverge` of the time after the last change.

`frozen` differs from `resume` by `PromptStarts = FALSE`: with it, time may pass
between an attempt's check and its start. `resume` shows that the claim in the
comments of `CloseOrders` holds as long as an order start takes less than
`closeDelay`, and `frozen` that it rests on that.

The violated properties are what comments or the README say; `PROJECT.json`
quotes them under `findings`. `bootstrap_race` is the window between the
bootstrap's Describe and its `setCurrent`, in which a promote is overwritten;
`BootstrapTargetsV1` holds all the same.

Two more boundaries came up that no run is spent on. The comment on the seed of
the order IDs (`publisher.go:63-65`) says without a condition that it keeps the IDs
of an attempt from colliding with open orders of an earlier one. `FreshIds` needs
an interval of at least a second, while `cmd/backend/main.go:47` takes any positive
one; without that premise `FreshIds` fails in the run `ids`, where the counter overtakes the
clock and the next attempt's first orders are silently not started. The default
of six seconds is far from it. And an attempt that was overtaken passes `isCurrent`
(`publisher.go:127-133`) between the end of the activity and the mark, since it
compares attempt numbers only while the activity is pending;
`AtMostOneLateOrder` holds all the same.

With two backends a `Pause` can succeed while publishing goes on: a `Resume`
between its Describe and its signal has replaced the run it signals.
`PauseMissesOnlyNewer` says that this is the only way: the run that goes on was
started while `Pause` was under way, so the outcome is that of the pause before
the resume, which is a lawful order of the two. `Refresh` then shows that run as
open.

### Fairness

`Fairness` of `OrderPublishing` assumes what the server and a polling worker owe:
workflow tasks run (`FirstTask`, `StopTask`, `CloseTask`, `LastTask`), time
passes, the timeout of `CloseOrders` fires, and an RPC comes to an end. It
assumes nothing of the closing attempt (it may die), of the ticker, or of the
operator. `PublishingEnds` alone also assumes that the server closes windows;
`PauseStops` must hold without it. `SwitchFairness` lets a backend's threads take
their steps and a signalled run stop; faults and requests are finite, and no
request is owed. In `Rollout` only the bootstrap loop is fair: neither workers
nor operators owe anything, and the deadline may come at any turn.
`DashFairness` lets the poller tick, connections be written and begun requests
end; faults are finite and a browser need not stay connected. `PizzaFairSpec`
owes the steps of an order on a build that has workers: they poll, and the retry
window ends. No request, no routing change and no `CloseOrders` is owed, so
`OrdersEnd` holds of orders that nobody recovers, and `RecoveriesDeliver` of a run
that one reset has made. `OrdersEnd` exempts runs that wait for a
build without workers, for instance a new order while there is no Current build.

## 5. Proofs

`OrderPublishing_proofs` proves, for every number of runs, attempts and orders
and every delay, from `ConstantsAssumption` alone:

- `TypeCorrect`: `Spec => []TypeOK`.
- `MarkIsTruthful` and `MarkAtomic`: `Spec => []MarkTruthful` and
  `Spec => []MarkedInTheSameTask`, from the inductive invariant `MarkInv`. The
  mark alone is not inductive: a nil result in flight could still become the
  outcome. `AttemptInv` adds that an attempt that is leaving with nil has seen its
  run stop or its number overtaken; both are for ever, so the server never
  accepts that nil, and no outcome is ever "nil".
- `LateOrdersBounded`: `Spec => []AtMostOneLateOrder`, from `LateInv`. An attempt
  that has started a late order is not past a check, its run is not open and
  never opens again, and only a check of an open run leads to another start.
- `RunsAsShown`: `Spec => ShownRuns` and `Spec => Shown!RunsSpec`, which say the
  same, that is, `OrderPublishing` implements `PublishingRuns`. Each action of a run maps to a start, a replacement, a signal, a
  stop or an end, each step of an attempt, of `CloseOrders` or of an order to a
  stutter. It rests on `RunInv` (`RunsInOrder`): runs start in order and only the
  latest is Running, without which a start would not be a start without a live run.

`OrderClosing_proofs` continues with the orders that `CloseOrders` closes:

- `NewerNeverClosed` (`[]NeverClosesNewer`) and `ResumesKeepOrders`
  (`ResumeKeepsOrders`), from `ClosingInv`. What is listed is older than the bound
  (`ListedBeforeBound`), and an order of a newer run is not, as that run had not
  started when the bound was taken (`NewerAfterBound`). Order starts of any length
  do no harm here.
- `SparedAreNewer` (`[]SparedBelongToNewer`) and `CompletedLeavesNone`
  (`[]NoneLeftOpen`), for `PromptStarts /\ Spec`, from `PromptInv`. An attempt
  that is still past its check when its run, or a newer one, has stopped checked at the
  time of that stop (`ChecksBeforeStop`); so the orders of these runs are born by then
  (`OrdersBeforeStop`), which is `closeDelay` before the bound, and the list
  overlooks none of them (`NoneOverlooked`).
  `PromptStarts` is needed: the run `frozen` violates the same property without it.

`PublishingSwitch_proofs` proves, for any number of runs, backends, requests,
faults and stray calls, from `SwitchAssumption` and `MaxRunsAssumption` alone:

- `RunsInvariant` and `LiveIsLatest` of `PublishingRuns` by itself.
- `SwitchLeavesOneRun` (`[]OneLiveRun`). Backends, stray calls and crashes change the
  runs by the steps of `PublishingRuns` only (the lemma `SwitchKeepsRuns`, which holds
  by the way the model is built), so that it follows from `LiveIsLatest`.
- `SwitchTypeCorrect` (`[]SwitchTypeOK`), `PausesLast` (`[]PausedReadsPaused`) and
  `ResumesLast` (`[]ResumedReadsOpen`), from `SwitchInv`. Only the thread that holds
  `mu` is under way (`LockInv`), nothing is paused or resumed before `Ensure` is done
  (`BootInv`), and what a thread has seen in a Describe is no older than the last
  run that this backend paused or resumed (`SeenInv`): an old answer cannot be
  stored over a newer one (`CacheInv`).
- `PausesMissOnlyNewer`: `SwitchSpec => PauseMissesOnlyNewer`. The run that `Pause`
  described has its signal or is over once the signal was sent, and stays so
  (`PauseInv`); as only the latest run is live (`LiveIsLatest`), a live run without a
  signal is newer than the described one.

`PizzaOrders_proofs` proves, for any builds, requests, runs and faults, from
`PizzaAssumption` alone:

- `PizzaTypeCorrect`: `PizzaSpec => []PizzaTypeOK`.
- `OrdersReplay`: `PizzaSpec => []Replayable`. `PointInv` says that a request only
  ever holds the reset point 1, so that a reset gives an empty history, and
  `HistoryInv` that a run's history is empty before it is pinned and a prefix of its
  build's pipeline afterwards.
- `RecoveredOnGood`: `PizzaSpec => []RecoveredRunsOnGood`. `GoodInv` adds that a run
  with an override is pinned to no other build, and that the run a request has made
  carries the request's build as its override.
- `StepperIsTruthful`: `PizzaSpec => []StepperTruthful`. By `HistoryInv` the steps
  scheduled are a prefix of the build's pipeline, and by `BegunInv` it is not empty
  once the run is pinned; the rest is which nodes of a prefix show as done.

`OrderIds_proofs` proves `IdsTypeCorrect` and `IdsAreFresh`
(`IdsSpec => []FreshIds`) from `IdsAssumption`. Two facts make freshness inductive:
a counter never runs ahead of the clock, given an interval of a second or more
(`BehindClock`: at most one ID per tick, and at most one tick per interval), and an
attempt's counter stays at or below the seed of every newer one (`BelowNewerSeeds`),
as the newer one was seeded from that clock and only the newest one passes a check.

`Rollout_proofs` proves, for any builds, requests and faults, from
`RolloutAssumption` alone, `RolloutTypeCorrect` (`RolloutTypeOK`),
`CurrentAfterBootstrap` (`BootstrapLeavesACurrent`), `LabelledGoRight`
(`LabelledTargetsRight`) and `BootstrapPicksV1` (`BootstrapTargetsV1`). The
invariant is `RolloutInv`: the loop has seen a Current only if there is one, since
nothing ever clears it, and it only promotes a build that is v1 (`BootInv`); what
a request saw of builds and labels stays true, since both only grow, and its
target is among the builds it saw (`RequestInv`). That the newest build of a
version exists is `MaxInSet`, from the well-foundedness of the natural numbers.

`Dashboard_proofs` proves, for any browsers, requests, changes and faults, from
`DashboardAssumption` alone, `DashTypeCorrect` (`[]DashTypeOK`) from `FeedInv`, whose
point is that versions do not run past what has changed, and
`RequestsReachBrowsers` (`[]PauseReachesBrowsers`) from `ReachInv`: a frame is there
for whoever connects once a request is answered, and `Publish` leaves every
connected browser with a frame in its channel, dropped or not (`PublishReaches`).

`DeployModal_proofs` proves, for the same parameters as `Rollout_proofs`,
`ModalMovesNoTraffic` (`[]ModalKeepsRouting`) and `CardsShowAllTraffic`
(`[]TrafficAddsUp`). `RoutingInv` says that traffic goes to registered builds, that
a ramp is another build than the Current one and has a stop below 100, and that
requests ask for a stop. The rest is about the operators: the builds can be put in
order, since each has its own number of builds before it (`CanBeOrdered`), and an
ordered listing reaches each build once (`OrderedReachesAll`), so that there is one
card per build (`CardsAreBuilds`). The modal's selection is then the only card of
the ramp, or else of the Current build (`SelectedCard`), and its unique label
leads back to that build (`ModalProposes`). The sum is the library's recursion over
sets; that it agrees with the shares of the two builds on every set is shown on a
least set on which it would not (`SumOfPercentages`).

Each lemma handles one group of actions; the last step of each theorem is
temporal. Only model-checked are the liveness properties, which are out of the
prover's reach: `PauseStops`, `ClosingEnds`, `PublishingEnds`, `CacheConverges`,
`BootstrapCompletes`, `BrowsersConverge`, `RecoveriesDeliver` and `OrdersEnd`.

## 6. Not modelled

Of the reader only its two reads are modelled, not its page of 50 orders: which
orders the server returns is not the code's choice. Of the views, the cards, the
modal and the stepper are; pinned counts, elapsed times and icons are not. The front
end, HTML templates, environment parsing, logging, HTTP shutdown, Kubernetes
manifests and the Makefile are plumbing without state that a model would add
anything to. The Temporal server is modelled from how `src/` uses it: starts
with a conflict policy, signals, memo, activity retries and timeouts, routing
config. Worker downtime is only present as steps that need not happen.
