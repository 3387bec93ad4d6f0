# IPNotify in TLA+

IPNotify watches a machine's local interface addresses and its public address
and tells subscribers about every change through chat services or webhooks.
This directory holds TLA+ modules translated from its Go code, TLC
configurations that check them on small instances, and TLAPS proofs of the main
results for every instance. Paths below are relative to the repository.

## The system

| component | state it keeps | operations | talks to |
|---|---|---|---|
| local watcher, `pkg/watcher/local` | `prev`, `cur` | `Watch`, `snapshot`, `diff` | OS; sends events |
| public watcher, `pkg/watcher/public` | `current`, `votes` | `Watch`, `resolve`, `fetch` | HTTP echo services; sends events |
| engine loop, `pkg/ipnotify` | events channel, dedup map `last`, `state` | `Run`, `changed`, `recordChange`, `Snapshot` | receives events, calls `dispatch` |
| delivery, `pkg/ipnotify` | `notifiers`, `state.LastNotify` | `dispatch`, `deliver`, `TestAll`, `AnnounceStartup`, `SetNotifiers` | calls notifiers |
| notifiers, `pkg/notifier/*` | none (configuration) | `Notify`, `Build` | HTTP to the chat services |
| gateway, `internal/gateway` | HTTP server | `/healthz`, `/status`, `/test`, `/reload` | calls the engine and the reload closure |
| application, `internal/app` | context, `done` | `Run`, `Start`, `Stop`, `RunTest` | starts all of the above |
| configuration, `internal/config` | none | `Load`, `UnmarshalYAML`, `applyDefaults`, `validate` | file |
| registry and options, `pkg/notifier` | `registry` | `Register`, `Build`, `String`, `StringMap` | called by `BuildNotifiers` |
| command line, `cmd/ipnotify` | none | `run`, `test`, `validate`, `service`, `version` | calls the application and the configuration |
| message text, region detection, installers | none | | |

Everything is goroutines of one process. Each watcher has one, the closer
(`wg.Wait(); close(events)`) one, the loop of `Run` one; a dispatch starts one per
notifier, the startup announcement runs beside the loop, and every HTTP request
has its own. They share the bounded events channel, `Engine.notifiers` and
`Engine.state` (under `mu`), and the context that `program.Stop` cancels. Nothing
is written to disk, so there is no recovery; a restart begins with empty maps.

What is hard here, and what makes each part right:

* **loop and watchers**: polls coalesce changes, sends block on a full channel,
  the loop drops what it takes for duplicates, and the context can end at any
  point. Right means that the changes told for one interface form an unbroken
  chain, that the status follows, and that a shutdown neither hangs nor sends on
  a closed channel.
* **snapshots**: the flags of all interfaces are read at once and their addresses one by
  one, while both change. Right means that nothing half-read sticks, and that a still
  network makes no events.
* **delivery**: retries, lost replies, slow notifiers, three concurrent callers,
  reloads. Right means that changes arrive in order, in a bounded number of copies,
  that a message is given up only when it must be, and that nobody blocks the others.
* **end to end**: a notifier that times out holds up the loop, through it the channel, and
  through that the polls. Right means that the subscribers of a notifier that is
  fine still read one story without gaps or repetitions, and catch up.
* **public lookup**: sources fail or lie, the address moves during the vote.
* **life cycle**: bounded waits on top of each other (10 s, 5 s, 12 s, 15 s).
* **reload**: reading, building and installing are not one atomic step.
* **commands**: `validate`, `test`, `POST /test` and `POST /reload` judge one file that is
  being edited; options, forms of intervals and overflow sit at the edges.
* **replies**: four services with four ways of saying yes.

`PROJECT.json` lists every hazard at its line with the properties on it.

## Modules

| module | what it models |
|---|---|
| `Ledger` | abstract: what the engine promises subscribers, per key |
| `EventPipeline` | both watchers, the channel, the closer, the loop with dedup and status |
| `EventPipelineProofs` | its theorems |
| `Delivery` | `dispatch`, `deliver`, `recordNotify`, `AnnounceStartup`, `TestAll`, `SetNotifiers` |
| `DeliveryProofs` | its theorems |
| `PublicWatcher` | `resolve`'s fetches and vote, `Watch`'s baseline and ticks |
| `PublicWatcherProofs` | its theorems |
| `Service` | `program.Start`, `app.Run`, `Gateway.Run`'s shutdown, `program.Stop`, with a clock |
| `ServiceProofs` | its theorems |
| `Reload` | concurrent `/reload` requests, the file, `SetNotifiers`, a dispatch |
| `Reply` | how the four `Notify` judge a response, under `deliver`'s retries |
| `ReplyProofs` | its theorems |
| `EndToEnd` | `EventPipeline` and `Delivery` composed, from the interface to the subscriber |
| `EndToEndProofs` | its theorems |
| `LocalWatch` | `snapshot` call by call, the filters, `Watch`, `CurrentIPs`; implements the watcher of `EventPipeline` |
| `LocalWatchProofs` | its theorems |
| `Config` | operators: what `Load`, `Build` and the options accept, and the intervals that come out |
| `Commands` | `Config` and `Reload` with the commands `validate` and `test` and `POST /test` |
| `CommandsProofs` | the theorems of `Reload` and `Commands` |
| `MC*` | instances for TLC (`Service` and `Reply` need none) |

Definitions whose comment says *Mutant* are plausible bugs in the definition that
follows them. No specification uses them; `PROJECT.json` names the property that
each of them breaks.

### How state and actions correspond to the code

**EventPipeline.** `events` and `closed` are the channel; `last` is the loop's map, and
a missing key reads as `NoAddrs`, as in Go; `state` and `changedKeys` are
`state.Local`/`state.Public` and the keys of `state.LastChange`. `prev`, `cur` and
`todo` are the watchers' locals, held per key; for the public watcher `prev` is the
`Old` of the event in hand. A watcher's program counter `wpc` is at its baseline, in
the outer select, or in its send loop. One send is one action, since the channel may
be full between two of them. `changed`, `recordChange` and the start of `dispatch` are
one action, `Accept`: nobody else writes the map or the state, and a reader sees
either side of the lock. `Snapshot(lost)` leaves out the interfaces whose `Addrs`
fails, all of them when `net.Interfaces` fails. A public address is a list of length
one; `NoAddrs` is `nil`, the empty slice and `""` alike, since `equal` and the code's
tests do not tell them apart.

**Delivery.** A job is one goroutine of `dispatch` or `TestAll`; `pc` is where it is,
`attempt` is `deliver`'s counter, `ok` the last result, `dead` whether the last call
began with its context done. Between the end of a call and `recordNotify` there is a
step, since another goroutine can take the lock in between. A call ends `ok`, `refused`,
or `lost` (the subscriber has the message, the caller an error). The sequence `inbox` is
what a subscriber has been sent. `SetNotifiers` is a reload; a dispatch under way keeps
the set it began with. `content` is how much the announcement's lookup knew.

**PublicWatcher.** One action per fetch, so that the address can move between two of
them; the range over the map of votes takes its keys in any order. An honest source
echoes the address of that moment or fails; a bad one answers anything.
`steady`, `honestSaid` and `badSaid` are history variables.

**Service.** Steps of the program take no time, `Tick` advances the clocks of the waits
that are under way, and may not while a step is due. The clocks count seconds since
`Stop` was called, since `Shutdown` was called, since the lookup began and since the
`/test` request came. `p.cancel()` does not reach the lookup (`context.Background`), nor
a `/test` handler (the request's context). A failed `Run` is logged and leaves the
process as it is. The gateway is "failed" when `ListenAndServe` has, at once or later: it
then ends without a `Shutdown`, and nothing waits for a handler that is busy.

**Reload.** A request is a goroutine of the HTTP server with the steps posted, built,
installed, answered; the history variable `alone` holds the requests during which no other
was pending. A version is one content of the file: good, rejected by `Load`, or rejected by
`BuildNotifiers`. `dispatch` is the set the current dispatch copied.
`g.reload` is never nil under `app.Run`, so the 501 does not occur.

**Reply.** A reply is a status, the verdict its body states, and how much of the body
is seen: the whole, or not, because it is longer than the 512 bytes that are read or because it
breaks off (`ReadAll`'s error is ignored, and so is `Unmarshal`'s, so that both leave the
zero values). `calls` is the history of the calls, each with
whether the service took the message and what came back. `Taken` and `Refused` are the
service, `NotReached` is a transport error or somebody else's page; `Judge` is the rest of
`Notify` and one round of `deliver`. `Accepts` has one operator per kind of notifier.

**EndToEnd.** Two instances on shared variables. The context is one variable, so `Cancel` is
a step of both; so are `Accept`, where the loop accepts an event and starts the goroutines
of its dispatch, and `DispatchReturns`. Everything else is a step of one component with
the other's variables unchanged. `story` is the history of the accepted events. `Delivery` counts
changes of its own; here these are the events accepted or sure to be
accepted, `Len(story) + Cardinality(Acceptable)`. Announcements, tests and reloads are left
out: `Delivery` has them.

**LocalWatch.** `Begin` (`List`, `ListFails`) is `net.Interfaces`, which returns the flags of all
interfaces; then each interface is skipped, read or found unreadable (`Skip`, `ReadAddrs`,
`ReadFails`), in the order of the system, with the flags of before and the addresses of
now; `Baseline`, `Tick` and `CurrentIPs` are what their callers do with the result.
`walking`, `left`, `flags`, `got` and `lost` are locals of `snapshot`. The history variables
`seen` and `budget` are the refinement's: `EventPipeline`'s addresses are what the walk has
seen of each interface last. Only one of the two callers runs in a behaviour, since neither
knows of the other. Names and addresses have classes (`Kind`, `Class`), which stand for the
deny-list and the ranges. `Kept` are the addresses the filters leave, and they come in any order;
`Sorted` is `sort.Strings`. `Described` is what the comment on `snapshot` says of
the same list (`local.go:94-95`), with the interfaces that the README says are watched (`Watched`) but
for loopback ones. It does not follow everything that is written: see the differences below on listed loopback
interfaces and on "sets". `SortedIPs` is written without sorting anything: its n-th member is the address
that n entries do not exceed.

**Config.** An interval has the form in which it is written. A bare number is decoded to
a float64, multiplied in float64 and converted: `Floats` are the numbers a float64 can hold, `Nearest`
what an operation rounds to, and `ToDuration` drops the fraction. Numbers and floats count `Parts`
of a unit, so that there is something to round and to drop. `Overflows` is what the conversion of a
float out of range gives, which the language leaves to the processor. An option is a text, the
empty text, null, a map or something else, or is not given.

**Commands.** It extends `Reload`, whose versions now have contents; `KindOf` says whether
`Load` or `BuildNotifiers` turns one down. `cmd` is the one command of a behaviour: a process of
its own that reads the file, or a handler that uses the engine's notifiers. `Finish(i, ok)` is
the end of the i-th goroutine of `TestAll`, which writes the i-th result.

## Runs

Passing runs:

| run | what it shows |
|---|---|
| `pipeline_safety` | `Chain`, `OrderlyShutdown`, `StatusAgreesWhenDrained`, `OnlyFirstLossDropped`, and that the pipeline refines `Ledger` (`ToldInOrder`) |
| `delivery_loop` | `ChangesArriveInOrder`, `StatusTellsTheOutcome`, through a reload and a cancellation; `AllDispatchesEnd`, `HealthyAreTold`, beside a notifier that need never answer well |
| `delivery_callers` | `BoundedCopies`, `OneLateCall`, with the announcement and a test beside the loop |
| `end_to_end` | `HealthyReadALedger`, `NothingSentAfterReturn`; that the composition implements both components, their fairness included (`PipelineImplemented`, `DeliveryImplemented`); `SubscribersCatchUp`, `ShutdownCompletes` |
| `local_watch` | `SnapshotIsWhatIsThere`: undisturbed snapshots are what the comment on `snapshot` describes; `EventuallyRight`; `WatcherImplementsPipeline`: the walk is as good as one look |
| `public_vote` | `HonestMajorityWins`, with five sources, two of them bad, and `ComesToRest` |
| `service_stop` | `OnlyTheLookupOutlastsStop`; `EarlyExitIsClean`: an early exit cuts off nothing but a `/test` request that nobody waits for any more; `WatchesUntilStopped`; with the code's own times |
| `commands` | of reloads that overlap `OnlyBuiltSetsAreUsed`, `LoneReloadIsInUse`, `EveryReloadIsAnswered`; of the commands beside them `ResultsAreTheOutcomes`, `TestFollowsReload`, `CommandsForetell`; of the intervals `IntervalsAreSafe` |
| `reply` | `SuccessIsTrue` and `ErrorsAreTrue`: which replies are misjudged, of those that `Reply` can tell apart |

Each run of a component with state of its own checks its type invariant, except that those of
`Reload` (part of `CommandsTypeOK`) and `Reply` (proved) have no run of their own. `Delivery` has
two more properties that are proved and have no run: `NoCopyAfterSuccess`, which `HealthyReadALedger` contains where it
matters, and `GivesUpOnlyWhenDue`. So has `EndToEnd`: `LoopIsFree`, defined beside its proof.

Runs in which TLC finds what the code does against its own comments:

| run | what happens |
|---|---|
| `pipeline_first_loss` | an interface of the baseline goes down: its event equals the missing map entry and is dropped |
| `delivery_repeat` | the announcement and a later event report the same address |
| `reload_overlap` | the older of two versions is installed last, after the newer one was acknowledged |

### Other differences between comments and code

Met while modelling, and visible in the actions named, but without a run of their own:

* "Establish a baseline first so we don't report the initial discovery as a change"
  (`public.go:65`): `PublicBaseline` and `TakeBaseline` can fail, and then the first
  successful lookup is reported.
* `State.Public` is "empty until the public watcher's first poll" (`engine.go:77`): the first
  poll is the baseline, which sends no event; `state[Public]` moves at the first `Accept`.
* `LastNotify` is per notifier (`engine.go:51`), but its key is `Name()`, the type (`Record`):
  hence the condition on names in `StatusTellsTheOutcome`.
* "the value agreed on by a majority of reachable sources" (`public.go:2`): `Count` takes the
  most votes, and among equals the key that the map offers first.
* The announcement is for learning "the current IP" (`event.go:29`); its lookup or a retry
  can bring it after a change it does not know of (`ReadAddresses`, `StartCall`).
* "the service would install but crash-loop" (`install.sh:245`): after `RunFails` the process
  stays up until somebody calls `Stop`.
* Feishu and DingTalk take any page with status 200 that states no code for a yes, and so
  also a refusal that is longer than the 512 bytes that are read, or that breaks off (`SuccessIsTrue` has
  the exceptions).
* `Success` of `LastNotify` (`engine.go:51`) is false after a Telegram success whose reply is longer
  than 512 bytes or breaks off: the cut JSON does not parse, and the message is sent again (`ErrorsAreTrue`).
* A bare number is "interpreted as seconds" (`config.go:40-41`), but through float64: `interval: 1.001` becomes
  1000999999 ns, and 2^63 - 1 ns is no float64 and rounds out of range (`Products`, `IntervalsAreSafe`).
* `ipnotify test` and the gateway's `/test` "return the same, config-accurate result" (`app.go:141-143`): not after
  the watch section was edited, since `Run` makes the providers once, and not when only
  `/test` can fall back on the last public address.
* A bare interval too large for the type becomes the default on amd64, where the conversion
  gives a negative number, and 292 years on arm64 (`Overflows`).
* "Fail fast if the generated config doesn't parse" (`install.sh:243`): `validate` accepts files whose notifiers cannot be
  built, such as one with a `chat_id` without quotes (`CommandsForetell` says what it does tell).
* Explicitly listed interfaces are "always honored verbatim" (`local.go:103`) and override the detection
  (`README.md:229`), but a loopback one is skipped all the same, as `local.go:94-95` says (`Wanted`, and
  `Described` with it: `SnapshotIsWhatIsThere` takes the side of the latter comment); "Empty means all non-loopback interfaces"
  (`config.go:89-90`), but virtual ones are skipped (`Wanted`).
* `diff` reports interfaces "whose address set changed" (`local.go:138-139`); the sets are lists,
  in which an address with two prefixes is there twice (`Collect`, and `SortedIPs` with it).

### Bounds

* `pipeline_*`: two interfaces (one goes while the other comes), two address lists, a
  channel of one or two slots instead of 16 so that it is full within a few changes;
  three changes, one faulty snapshot and one public answer let an event be in
  the dedup map, in the channel and in the watcher at once. Interfaces and lists are
  symmetric in the safety run.
* `delivery_loop`: two notifiers (independence needs two), two changes (order needs two), the
  code's two retries, one reload. `delivery_callers` and `delivery_repeat`: one notifier and one
  change, but two or three callers; the properties are about each notifier by itself.
* `end_to_end`: one interface with one address and the local watcher, a channel of one slot, one
  change and one faulty snapshot, which make up to three events, so that one is being delivered,
  one waits in the channel and one in the watcher; two notifiers, one healthy, one retry. With the
  public watcher or larger bounds TLC takes longer than is reasonable; the theorems of
  `EndToEndProofs` have no bounds. The bound `MaxEvents` on accepted events is
  not in the loop's way as long as it is what `EndToEndAssumption` asks for, an event for each change and
  answer and two per interface for each faulty snapshot (`DeliveryNeverBlocks`).
* `local_watch`: a physical interface, a tunnel and a loopback one, so that every filter has
  something to let through and something to stop; entries of every class, one address with two
  prefixes; three configurations; two moves, so that one can come between the flags and the
  addresses and one between two interfaces; one failing call.
* `public_vote`: five sources, as in the longest default list, two bad ones; three
  addresses, so that bad sources can agree with each other or not; two moves.
* `service_stop`: the code's numbers.
* `commands`, `reload_overlap`: two requests, as an overlap needs, and one edit; one command, since two
  commands share nothing but what reloads change. There are four good files and four
  bad ones, each bad for another reason. `MaxDuration` is 255 units and a second 3 of them, so that 60 seconds fit and
  overflow is near; floats have four binary digits and numbers count quarters of a unit, so that the two roundings, the
  fraction and a `MaxDuration` that rounds out of range all occur.
* `reply`: the code's two retries; one status of each sort that the code tells apart.

`CHECK_DEADLOCK FALSE` stands in the runs of `EventPipeline`, `Delivery`, `EndToEnd`, `LocalWatch`,
`Service` and `Reply` because there the system stops for good: Run or the watcher returns, every
caller of deliver returns, the process exits. `PublicWatcher`, `Reload` and `Commands` are
checked for deadlock.

### Fairness

Goroutines that can take a step take it (weak fairness per goroutine, or per action where
a select would otherwise choose for it). Tickers go on firing. A select whose `ctx.Done()` case
stays ready takes it. Calls end, because `nctx` and the HTTP clients have timeouts.
Nothing is assumed of the network, of an unhealthy notifier, of bad sources, of
`Cancel`, `Stop`, reloads or edits. In `Reload` and `Commands` nothing is assumed of deliveries.
In `EndToEnd` nothing is assumed directly of a dispatch's return: it follows from the fairness of
its goroutines. In `LocalWatch` a system call returns and the ticker fires again; somebody reads
the channel, which `EndToEnd` shows.

## Proofs

TLAPS proves, for all values of the constants that satisfy the named assumption of
each module (`PipelineAssumption`, `DeliveryAssumption`, `WatcherAssumption`,
`ServiceAssumption`, `ReloadAssumption`, `ReplyAssumption`, `ConfigAssumption`,
`CommandsAssumption`, `LocalWatchAssumption`, `EndToEndAssumption`):

* **EventPipelineProofs**: `TypeCorrect`, `ChainHolds`, `ShutdownIsOrderly`, `StatusAgrees`,
  `DropsAreFirstLosses`, `PipelineImplementsLedger`. The inductive invariant is `Chain`:
  with `Sent[k]` for what the watcher of `k` has put on the channel so far, `last[k]` is
  the `Old` of the first queued event of `k`, each event's `New` the `Old` of the
  next, and the last `New` is `Sent[k]`. The status alone says nothing of what
  is queued, so it is not inductive; with `Chain`, a receive takes the first event of
  a key (`StartsAt` moves on) and a send appends a last one (`EndsAt` moves on), and an
  event the loop drops can only be one whose key is not in the map. The lemmas on
  `Append` and `Tail` are stated for constant sequences first. The refinement maps
  `told` to `state`, `known` to `changedKeys` and `note` to the event in hand: `Accept`
  is `Tell`, everything else stutters.
* **DeliveryProofs**: `TypeCorrect`, `GivesUpWhenDue`, `OnlyOneLateCall`, `NothingAfterSuccess`,
  `ChangesInOrder`, `CopiesAreBounded`, `StatusTells`. `JobInv` ties a job's fields to its program
  counter; `OrderInv` says that dispatches before the one in hand are over and later ones have
  sent nothing, so that what is appended to an inbox is never older than what is
  there; `CopiesInv` bounds the copies by the attempt counter; `StatedInv` says that
  the status of a notifier whose type no other has is what its goroutine recorded last.
* **PublicWatcherProofs**: `TypeCorrect`, `VoteIsSound`, `MajorityWins`. Votes for the truth are at
  least the honest answers and votes for anything else at most the bad ones
  while the address stands still; the range loop holds a maximum of what it has seen.
* **ServiceProofs**: `TypeCorrect`, `LookupAlone`, `EarlyExits`, `EngineStays`. `ClockInv` relates the
  clocks: with `Shutdown` under way its clock is the stop's, and once the stop's is
  beyond `ShutdownBound`, only the lookup's, which is at least as old, lets time pass. `TestInv` says that a
  handler is busy only beside a gateway that serves, shuts down, has failed or has given up on it.
* **CommandsProofs**, of `Reload`: `TypeCorrect`, `OnlyBuiltSets`, `LoneIsInUse`. `BuiltInv` says of every
  set in use or on its way to be that it is good and not newer than the file; `LoneInv` that a request
  that is alone sees no other install, and that those pending after its answer came after it.
* **CommandsProofs**, of `Commands`: `CommandsImplementReload`, and with it `Reload`'s theorems of the larger
  system (`StillOnlyBuiltSets`, `StillLoneIsInUse`); `CommandsTypeCorrect`; `SafeIntervals`, by the forms of an
  interval, where rounding to the nearest float keeps the order (`NearestKeepsOrder`) and so does not jump over a number that needs none; `TestsFollow`, from `LoneReloadIsInUse` and that nobody takes an answer back; `ResultsAreRight`,
  where `ResultsInv` says what is written so far; `CommandsForetellReloads`, where the invariants say of every
  answer and of every verdict what `KindOf` says of the version it is about: an answer and a verdict on
  one version are then about one kind.
* **LocalWatchProofs**: `TypeCorrect`, `SnapshotIsRight`, `WatcherRefines`, `WatcherSendsAChain`. First that sorting is what is
  described: whatever arrangement of the entries comes back, the sorted list is the one `SortedIPs` describes,
  because an ordered list with the same counts is unique (`NthIsUnique`), and one exists (`CanBeSorted`).
  `WalkInv` says that the result of the walk is what was seen, where it could look; `CleanInv` that as long as
  nothing moved or failed the flags are still right, and that what has been read is what is described. `TypeOK` has
  budgets that must not run out, and needs `ChangesLeft`: what the watcher may yet see change, with the
  interfaces whose flags went stale, is paid for by the moves. The refinement maps a visit to a change of the
  network or to nothing, and the end of a walk to a snapshot that lost what could not be read; `RoomInv`
  says that the channel of the instance is long enough. `EventPipeline`'s `Chain` then holds of what is sent.
* **ReplyProofs**: `TypeCorrect`, `SuccessTrue`, `ErrorsTrue`. The invariants say of every judged call
  what its reply and its fate have to do with each other.
* **EndToEndProofs**: `EndToEndImplementsPipeline`, `EndToEndImplementsDelivery`, `DeliveryNeverBlocks`,
  `DeliveryCarriesOver`, `QuietAfterReturn`, `HealthyLedger`. The theorems of the
  two components are taken over through instances of their proof modules (`PP`, `DP`).
  `LoopInv` ties the loop's program counter to the dispatches: while it is not in one, all are
  over. `HealthyInv` says how far a healthy notifier's inbox has come. `StoryInv` takes `Chain` from
  the channel into `story`: per key, each event starts where the one before ended. That the changes
  `Delivery` takes from nowhere are the acceptable events needs three facts. A send adds one
  or none (`AcceptableAppend`), and the loop's receiving one takes off the accepted one and no other
  (`AcceptableTail`, where `Chain` is needed: the second event of a key that has gone starts at nothing, and so
  does not end there). And there are never more than `MaxEvents`: `RoomInv` is an account in which
  what is accepted, in the channel, at a watcher or still to be noticed (`Load`) is at most what changes,
  answers and faults have given cause for. `LoopIsFree` then says that `Accept`'s guards from `Delivery`
  hold whenever the engine alone would accept, and `AcceptIsPlain` that `Accept` is what the code
  does without them.

  The proof found the bound on events too small: one faulty snapshot can make every interface go and
  come back, and not only one. The assumption now says so; the run, with one interface, had it right.

Only model-checked: the liveness properties (`SubscribersCatchUp`, `ShutdownCompletes`,
`AllDispatchesEnd`, `HealthyAreTold`, `ComesToRest`, `EveryReloadIsAnswered`, `EventuallyRight`)
and the fairness in the refinements `PipelineImplemented` and `DeliveryImplemented` (the theorems have the
part without), because the prover reaches neither liveness under fairness nor ENABLED. Every invariant and every
action property of the passing runs is proved. In the runs with a violation there is nothing to
prove.

## Not modelled

Message texts, signatures and payloads (data that no property tells apart); timezone detection and
the installers (sequential, without state of their own); `ipnotify service`, `version` and usage; the times
in the status; the regular expression of `fetch`; the YAML parser; `/healthz`; the HTTP
server and the service library, except for what `Run` and `Stop` wait for. `PROJECT.json` has a
reason for each component.

## Plan

Done, in this order: `Ledger` and `EventPipeline` (the core), `Delivery`, `PublicWatcher`,
`Service`, `Reload`, `Reply`, `LocalWatch`, `Config`, `Commands` and the composition
`EndToEnd`, each with its run; proofs for all of them.

Next:

1. `PublicWatcher` as an implementation of `EventPipeline`'s public watcher, and what that carries over.
2. The safety half of the liveness properties: measures that the steps after a cancellation
   decrease (attempts left, goroutines alive, events queued), so that only fairness is left to TLC.
3. `EndToEnd` with the announcement and reloads, if a bound can be found that TLC
   finishes.
4. The text of a change message, if a property turns up that is about it.
