# A TLA+ model of CLIProxyAPI

CLIProxyAPI is a Go proxy server. It exposes OpenAI, Gemini, Claude, Codex and
Grok compatible APIs and answers every request with one of many upstream
credentials (OAuth accounts or API keys), held locally or leased from a control
center called *Home*. This directory models the parts of the server where the
order of concurrent steps decides whether it is correct, checks the models with
TLC on small instances, and proves the central invariants with TLAPS.

## 1. The system: components, state, operations

| Component | State it keeps | Operations | Interacts with |
|---|---|---|---|
| Home execution registry (`sdk/cliproxy/executionregistry`) | accepting / draining / closed, pending dispatch tokens, execution scopes and their resource, cumulative release sequence per credential and model, observation barriers, snapshot revision | `BeginDispatch`, `End`, `Install`, `Bind`, `EndWithRelease`, `SetReleaseSink`, `ObserveBarrier`, `FreezeInFlight`, `WaitPending`, `Drain`, `Close` | conductor (dispatch), subscriber (barriers, drain), in-flight publisher (snapshots), release flusher (sink) |
| Release flusher (`internal/home/concurrency_release.go`) | latest and acknowledged sequence per group, waiting tickets, sender, wake and force channels, backoff | `MarkDirty`, `Run`, `flush`, `Flush`, `SetSender`, `SetConfigProvider` | registry (its sink), Home connection (its sender) |
| Home subscriber (`sdk/cliproxy/service_home.go`) | generation, current client / registry / dispatch bundle, supervisor | `startHomeSubscriber`, `runHomeSubscriber`, config worker, `detachHomeSubscriberLifetime`, `drainDetachedHomeLifetime` | all Home parts |
| In-flight publisher (`auth/home_in_flight_publisher.go`) | publisher config | `StartHomeInFlightPublisher`, frame packing | registry, Home connection |
| Credential manager, "conductor" (`sdk/cliproxy/auth`) | credentials, per-model states, quota and cooldown, selector | `MarkResult`, `Update`, `Register`, pick, execute with retry, refresh | scheduler, model registry, cooldown store, executors |
| Scheduler (`auth/scheduler.go`) | shards per provider and model: ready views with cursors, cooling queue | `upsertAuth`, `removeAuth`, `pickSingle`, `pickMixed` | conductor |
| Selectors (`auth/selector.go`, `auth/session_cache.go`) | last picked credential, smooth weights, session bindings | `Pick`, cache operations | conductor |
| Auto refresh (`auth/auto_refresh_loop.go`, `auth/conductor_refresh.go`) | heap of due times, dirty set, job channel | `rebuild`, `applyDirty`, `handleDue`, `refreshAuth` | conductor, executors, store |
| Websocket relay (`internal/wsrelay`) | sessions per provider, pending requests per session | `request`, `dispatch`, `cleanup`, `NonStream`, `Stream` | AI Studio executor |
| Usage pipeline (`sdk/cliproxy/usage`, `internal/redisqueue`) | queue of records, plugins, retained payloads, subscribers | `Publish`, `run`, `Stop`, `enqueue`, `popOldest`, `subscribe` | executors, Home usage forwarder, Redis protocol |
| Model registry (`internal/registry`) | models per client, quota and suspension marks | register, suspend / resume, quota marks | conductor, handlers |
| Watcher (`internal/watcher`) | known credentials and hashes, pending updates, queue | file and runtime updates, dispatch loop | service |
| Request handlers (`sdk/api/handlers`) | none between requests | stream bootstrap and forwarding, combos, interceptors | conductor |
| Management (`internal/api/handlers/management`) | OAuth sessions, tunnel | session life cycle, credential files | service, stores |
| Caches (`internal/cache`) | bounded LRU, signature and replay caches | get / add / evict | executors, translators |
| Stores (`internal/store`), translators, executors, thinking, signature, plugins, TUI, desktop | data conversion and I/O | | |

### What is hard in it

* *Out-of-lock notifications.* The registry calls its release sink, and the
  conductor updates scheduler, model registry and cooldown store, after the lock
  that ordered the change is released: reports may overtake each other.
* *Shutdown.* `Drain`, `Close`, `WaitPending`, late `Install`s, `Bind`s and the
  owners' own `End`s run concurrently; a resource that is bound after the
  snapshot of `Drain` would never be closed.
* *Conclusions from absence.* Home reclaims a slot when a snapshot does not list
  it. That is right only if the snapshot cannot be missing an execution whose
  dispatch was answered but not installed yet.
* *Cumulative acknowledgements* that arrive after a newer sequence was recorded.
* *Clones that are written back.* A refresh works on a copy of the credential
  for as long as the provider takes, and then writes the copy.
* *Channels with several closers*, and bounded channels that drop or block.
* *Two records of the same thing*: the watcher's snapshot and the directory, the
  cooldown file and the manager's states, each changed without the other's lock.
* *Cooling credentials* that must come back, and rotation over a set of
  credentials that shrinks and grows between two picks.

### What makes each component correct

* *Registry.* After a drain or a close nothing is left open; no release is
  reported before its resource is closed and none is lost; a snapshot that
  carries a barrier is complete for that barrier; every waiter returns.
* *Release flusher.* A completed ticket, and a `Flush` that returned nil, are
  true statements about Home; no ticket waits for ever.
* *Scheduler.* The incremental indexes are those of the entries; a pick is the
  best available credential; a failure is real and the retry time of the
  cooldown error the earliest worth waiting for; rotation starves nobody.
* *Conductor and service.* What the scheduler knows follows what the manager
  knows: deleted credentials disappear, added ones become visible.
* *Selectors.* Rotation continues from the previous pick; smooth weights give
  each credential its share; a session keeps its credential while that is
  possible.
* *Cooldowns.* A restart brings back the blocks that were in force and no
  others; a burst of failures counts once; every pause ends when some failure said
  it would, and models do not get each other's.
* *Auto refresh.* No credential drops out of the loop, no refresh token is used
  twice, and the loop neither blocks for ever nor spins.
* *Websocket relay.* A request gets its messages in order and exactly one end,
  and no goroutine sends on a closed channel.
* *Usage pipeline.* A record reaches a consumer or is retained; none is handed
  out twice by the queue itself; channels are closed once.
* *Model registry.* Counts and suspensions equal what the registered clients add
  up to.
* *Watcher.* Coalesced updates end in the last state, and at rest the manager
  has the credentials that files and configuration call for.
* *Handlers, management, caches.* A stream starts once; an OAuth session ends
  once; caches respect bounds.

## 2. Modules

| Module | Models | Read it for |
|---|---|---|
| `ExecutionRegistry` | `executionregistry/registry.go`, `observation.go` | shutdown, release accounting, barriers |
| `ReleaseAccounting` | abstract | what the release path promises, in three actions |
| `ReleaseFlusher` | `internal/home/concurrency_release.go` | retries, tickets, `Flush`; implements `ReleaseAccounting` |
| `ModelShard` | `auth/scheduler.go`, one model shard | cooldowns, priorities, indexes, picks |
| `ShardRotation` | the same with a history of picks | round-robin fairness |
| `CredentialSync` | `conductor_*.go`, `service_auth.go`, `service_models.go` around the shard | clones that arrive late |
| `CredentialCooldown` | `conductor_cooldown.go`, `cooldown_state.go` | quota back-off, aggregation, saves that overlap, crash and restart |
| `AutoRefresh` | `auto_refresh_loop.go`, `conductor_refresh.go` | heap, dirty set and workers; clones written back |
| `AuthWatcher` | `internal/watcher`, the consumer in `service_auth.go` | two locks, three places that coalesce |
| `WsRelay` | `internal/wsrelay` | pending requests against cancellation and cleanup |
| `UsagePipeline` | `sdk/cliproxy/usage`, `internal/redisqueue`, the forwarder in `service_home.go` | retention, subscribers, pushes that fail halfway |
| `ExecutionRegistryProofs`, `ReleaseFlusherProofs`, `CredentialCooldownProofs`, `AutoRefreshProofs`, `AuthWatcherProofs`, `WsRelayProofs`, `UsagePipelineProofs` | | theorems about the module of that name |
| `SchedulerProofs` | | theorems about `ModelShard`, `ShardRotation` and `CredentialSync` |
| `MC...` | | the instances of the runs |

`CredentialSync` and `ShardRotation` extend `ModelShard`: the shard of the
composition is the one the proofs are about. `ReleaseFlusher` takes the place of
the registry's sink; the two share the operation `markReleasedLocked`, which
appears in the flusher's module as `Release`.

The other modules stand alone, each around the locks of its component; what they
share is stated in the same words. `CredentialSync` takes cooldowns as a block
of the model and the end of a credential-wide quota, `CredentialCooldown` says
how the two come about; `AutoRefresh` looks at the same `Update` for what it
does to refresh times, tokens and the disabled flag; `AuthWatcher` ends where
`CredentialSync` begins, with an update that the service applies.

Definitions named *Faulty variant* in a comment are not used by any
specification. Each is the form a plausible mistake would give to the definition
that follows it, and documents what the property it breaks protects against.

### 2.1 ExecutionRegistry

Each critical section of `Registry.mu` is one action, and `phase[i]` is the
program counter of the goroutine that owns dispatch `i`. `EndWithRelease` is
five actions, because it takes the lock three times and closes the resource and
calls the sink in between: `EndDeactivate`, `EndCloseResource`,
`markReleasedLocked`, `EndReport`, `EndDelete`. `Drain` and `Close` read the
scopes once and then visit them one by one (`DrainCloseScope`,
`CloseStartScope`, `CloseWaitScope`). Waiters sleep on the channel
`Registry.changed`: the set `asleep` holds those blocked on the current channel,
and `signalLocked` empties it. A context may expire whenever a thread waits
(`ContextDone`). The sink is external: `Hear` records the highest sequence it
was given. `barrierNext` is a history variable: it remembers what had been
dispatched when a barrier was observed.

### 2.2 ReleaseFlusher and ReleaseAccounting

`calls` are the sink calls the registry has under way; they arrive in any order.
The select loop of `Run` has one action per case, and a flush is a batch that is
sent group by group, one of which may fail while another succeeds, so that new
releases, a `Flush` and a cancellation come between a frame and its answer. Home
accepts a frame or not, and the answer may be lost either way (`SendOk`,
`SendError`). The loop may be cancelled and started again with another
connection, as `runHomeSubscriber` does; sequences and tickets survive. Time is
abstract: a timer that is armed may fire. The delay keeps its value because
`nextDelay` is arithmetic with a clamp.

`ReleaseAccounting` says what is promised without any of this: a count only
grows, Home never knows more than was released, and a ticket is confirmed only
if Home knows its sequence. The refinement maps `released` to `issued`, `known`
to `homeSeq` and `confirmed` to `done`.

### 2.3 ModelShard and ShardRotation

The scheduler's mutex makes every operation one step. A pick reads the clock
more than once in the code; the model takes these readings as one instant. A
snapshot of a credential carries its priority, whether it has a websocket
transport, the block of the model's state (quota, other failure, or disabled)
with the time it ends, and the end of a quota that holds for the whole
credential. The two ends are kept apart because `isAuthBlockedForModel` answers
the credential's quota first and does not look at the model's state while that
lasts: a failure of the model that was under way when the quota was set may have
given it a longer pause, since `updateAggregatedAvailability` returns early for
such a credential. The error of a failed pick then names the end of the quota
although the credential comes back later. `CooldownTimeIsEarliest` says what
holds all the same: until the time it names no retry can succeed, and then one
can, or such a hidden pause shows. For a credential without model states the
block is that of the credential itself. Credentials are numbers in the order of
their ids, because the ready views are sorted by id. Priorities are natural
numbers because the code only compares them. A request allows a subset of the
credentials: it stands for the pinned id, the ids already tried and the
eligibility rules. Weighted round-robin and picks over several providers are not
in this module.

`ShardRotation` adds who was picked before and how often each credential was
passed over since the shard last changed.

### 2.4 CredentialSync

The manager's lock and the scheduler's lock are different, and every writer
releases the first before it takes the second. A goroutine between the two is a
member of `calls` (results of requests, management deletions), or the service
goroutine's program counter `svc`, or the picker that resyncs (`picker`). The
models of a credential are registered by the service alone, between two of its
upserts, and the scheduler reads them when it is given a clone. A disabled
result clone is kept because the code upserts it and relies on
`upsertAuthLocked` to remove the entry. `Register` and `Update` hand the
scheduler the object the manager keeps, not a clone: `shared` holds the
credentials whose object both have, and what a result or a registration does to
such an object (`mutate`) shows in metadata and entry at once, before the
scheduler has rebuilt anything. In the code this is a data race; the model takes
the writes as one step. `erased` is a history variable: the credentials that a
management deletion took away.

### 2.5 CredentialCooldown

One credential with its own `.cds` file, which is replaced by a rename. A model
state keeps whether it is unavailable, when it may be tried again, the quota
(exceeded, for the whole credential, recovery time, level) and which error came
last; the credential has the same summary. `MarkResult` is one step under the
manager's lock and leaves a save due. `persistCooldownStates` takes
`configCooldownMu`, `cooldownStateRecordsSnapshot` reads the states, `Save`
writes the file or fails, and results, resets, refreshes, registrations and
configuration changes fall in between. `Restart` ends the process at any point,
also between these steps, and restores what the file has. Failures are the kinds
the code tells apart, with and without a Retry-After, a forced cooldown and a
quota of the whole credential. Messages, status texts and time stamps are left
out, results always name a model, and the credential stays enabled.

History variables: `unsaved` (the code changed the states without saving),
`stale` (the places - manager, clone of a refresh, save under way, file - that
hold what a reload made when it merged records that results had overtaken),
`granted` (for each model, and for the credential, the exact deadlines that
failures called for there) and `windows` (how many quota windows were opened). A
failure calls for the deadline of its own kind and rung at its own model
(`calledFor`), one that finds a quota window open calls for none, and a
credential-wide quota failure calls for its deadline, or the end of the window it
found, at every model.

An update by the service reads the model states under one lock and writes the
credential under another (`prepareCoreAuth`, `UpdateAuth`). A result in between is
overwritten; nothing comes of it, because the registration of models that follows
resets the states in any case.

### 2.6 AutoRefresh

The loop goroutine is a program counter with its reading of the clock `now`; the
due and the dirty credentials are handled one by one, since other goroutines run
between two of them. A refresh, by a worker or by a request that got a 401,
holds the credential's refresh lock from `BeginRefresh` to its end and works on
a clone. Writers are the management API (`PatchAuthFileStatus`), the service
(reload and login of a file) and `Remove`; each prepares a credential, writes it
later and tells the loop last. Tokens are numbers, so that `spent` can say which
ones a refresh has used up.

Two ways out of the loop are in the code and recorded in `forgotten`:
`MarkResult` clears a 401 without telling the loop, and `Remove` unschedules
after the credential may have been registered again. `restored` records that an
`Update` prepared earlier has written an older token back. Executors are taken
to be registered, and a credential to have a positive refresh lead (for others
`nextRefreshCheckAt` and `shouldRefresh` disagree).

### 2.7 AuthWatcher

A credential's value is its content and the excluded models the configuration
adds. A file may also be empty, malformed (ignored, no hash stored) or of no
known provider (hash stored, its credential deleted). A configuration is read
twice, for the hash check (`reloadConfigIfChanged`) and to be loaded
(`loadConfig`), and may fail to load, after which no hash is recorded. Four
kinds of goroutines compute updates under `clientsMutex` and dispatch them under
`dispatchMu`: the event loop (`ev`), reloads of the configuration (`rl`, the
first is the one `Start` runs), runtime providers and logins (`calls`).
`authRescanMu` excludes events from a rescan. Every change of a file is
notified, in order. `pending` is `pendingUpdates`, `queue` the bounded channel
with the batch behind it, and `handleAuthUpdates` applies what it drained.

The history variable `odd` names how a credential may go astray, because the
properties hold but for these: `crossed` (two updates of it were between the two
locks at once), `untold` (an entry of the snapshot was dropped without an
update), `stale` (made from a content or configuration that is not the one
recorded), `missed` (a removal within the debounce interval) and `lost` (the
configuration was written while its predecessor was being loaded). A file that
is empty or malformed is excepted too: its credential stays until the directory
is scanned again. TLC reaches each of them, and the properties fail without any
one of them. These are hazards the code has; `SettledIsDesired` does not claim
them away but says, with its proof, that there is no other way to diverge.

### 2.8 WsRelay

One session, with the handler that registers it, the reader, the heartbeat, a
caller per request, the goroutine that watches the request's context, and
`Stop`. `sync.Map.Range` visits what is there all the time and may or may not
visit what is stored meanwhile. The assignment `s.pending = sync.Map{}` is one
step. A send on a closed channel sets `panic` to the one who closed it: outside
an HTTP handler nobody recovers. The consumer of `Stream` is assumed to read its
channel or to end its context.

### 2.9 UsagePipeline

A record goes from the manager's queue through `Enqueue` (the enqueuers are the
dispatcher and a forwarder that puts a failed batch back) to all subscribers, or
into the retained items if there are none. `Broadcast` removes a subscriber that
is full; if it was the only one the record is lost, and `excused` says so, as it
does for records that were disabled, expired, published too late, or unread in
the channel of a subscriber that left (`Unsubscribe`, once per subscription: its
goroutine has returned). A record in a channel is offered, not delivered; it is
delivered when the goroutine writes it to its client, when a management client
popped it, or when Home received it. A write to a client that fails is not
retried by the code and counts as a write. `Enabled` is checked before the
queue's lock is taken, so a client or forwarder that checked in time pops later
(`ManagementPop`, `CheckQueue` and `PopBatch`). The forwarder's push may fail
before or after Home has received the record. Usage statistics are on.

## 3. Runs

| Run | Instance | Shows |
|---|---|---|
| `registry` | 1 dispatch, 1 group, 1 sink, 2 threads, 1 barrier, 1 snapshot, fairness | `DrainedIsQuiet`, `CloseReturnedLeavesNoResource`, `ReleaseNeverEarly`, `QuietSinkKnowsAll`, `FreezeComplete`, `WaitersReturn`, types |
| `flusher` | 2 groups with 2 releases and 1, 2 connections, 2 configurations, fairness | `TicketMeansKnown`, `NoStrandedTicket`, `FlushedMeansKnown`, `ImplementsAccounting`, `TicketsComplete`, types |
| `shard` | 2 credentials, 2 priorities, both transports, 19 snapshots, 3 instants | `PickIsBest`, `IndexMatchesEntries`, `FailureIsReal`, `PickSeesCurrentState`, `CooldownTimeIsEarliest`, `RotationCoversAll`, types |
| `sync_shard` | 1 credential, 3 outcomes, 2 clones under way, 3 updates, management deletions | `ShardMatchesMetas`, `RemovedIsNotOffered` |
| `cooldown` | 2 models, 8 failures, 2 results, 2 other operations, 2 instants | `RestartKeepsBlocks`, `LadderCountsWindows`, `DeadlinesWereGranted`, `CredentialPauseIsTotal`, types |
| `refresh` | 1 credential, worker, request and writer, 2 tokens, 3 instants, fairness | `TrackedUnlessForgotten`, `SpentTokenIsNotUsed`, `LoopComesToRest`, types |
| `watcher` | 1 file, 1 key, 1 runtime provider, 3 configurations, 5 contents, 3 changes, queue of 1 | `LatestIsCurrent`, `SettledIsDesired`, types |
| `wsrelay` | 1 request, 2 answers, channel of 1, fairness | `WaitingIsTracked`, `AnswerIsWhole`, `RequestsEndWithSession`, types |
| `usage` | 2 records, 1 subscriber with a buffer of 1, 1 forwarder, fairness | `NothingVanishes`, `DuplicateNeedsFailure`, `SubscriptionHasNoGap`, `ClosedOnce`, `AcceptedIsDispatched`, types |
| `sync_management` | 1 credential, 1 clone, 2 updates | counterexample to `GoneIsNotOffered` |
| `wsrelay_stop` | as `wsrelay` | counterexample to `StopIsGraceful` |
| `refresh_disable` | as `refresh`, time stands still | counterexample to `DisableSticks` |

### Why the bounds are enough

* *Registry and flusher.* Shutdown races are between one execution and one
  supervisor, or two supervisors. The group is chosen per scope, accounted or
  not. Two sequences are needed for a report that overtakes another and for a
  group that becomes dirty during a frame; a second group for a flush that
  succeeds for one and fails for the other; two connections for state that
  survives one. Larger numbers are what the proofs are for: the safety
  properties are theorems for any number of dispatches, threads, groups and
  barriers.
* *Shard.* Two credentials and two priorities give every comparison; three
  instants give a block that ends before, at and after a pick, and two blocks
  that end at different times. Snapshots are free, disabled, paused with and
  without an end, under a credential-wide quota, and under one with a longer pause
  of the model behind it; websocket credentials have the lower priority, so that
  preferring them shows. The theorems are for all snapshots.
* *Sync.* Credentials meet only in a resync, which replaces all of them: one
  suffices for what the properties say. Outcomes are success and the two scopes of
  a quota failure; other failures differ only in the kind of block.
* *Cooldown.* Two models are the least for aggregation; two results within one
  window are a burst, and with a ladder of two levels the second window is the
  clamped one. Two operations are enough for a refresh or a reload that spans a
  result, and a crash behind them.
* *Refresh.* Everything shared is per credential, except the loop goroutine and
  the job channel; with a capacity of one and one worker the channel is full as
  soon as a worker waits for a lock. Two tokens make one of them spent.
* *Watcher.* Three changes are: two that cross, and one that must still arrive.
  The configuration edit of the instance removes a key, changes the exclusions
  and forces a refresh at once; another does not load. One reload at a time: two in the model exceed the
  run's time; the module allows any number.
* *Relay.* Requests meet only in the reader and in cleanup, which handle them
  one after another; one request, with two messages for a channel of one, makes
  the full channel, the early end and the late answer happen.
* *Usage.* Two records make a batch that fails at its first or its second
  record, with one failure allowed for each; a buffer of one is filled by the
  first notice, and a subscriber that reads it in time leaves with a record unread.

Runs say `CHECK_DEADLOCK FALSE` where the system may stop because the bounds are
used up, a session or registry is closed, or nothing is left to do. The shard
never stops.

### Fairness

*Registry:* a dispatch token is always resolved and a scope always ended, since
their owners defer both; close functions return; a goroutine that can run does.
Nothing obliges anyone to dispatch, bind, install a sink, observe a barrier,
freeze, call or time out, so waiters return without help from their contexts.
*Flusher:* sink calls are made, the loop and its timer run, and the subscriber
reconnects. Home is assumed not to refuse one group's frame for ever (strong
fairness of `SendOk`): without it no retry policy confirms anything. No fairness
is assumed for cancellations, reconfigurations or `Flush`, and `FlushPoll` is
fair because of its ticker.
*Refresh:* the loop, its workers and writers run, time passes up to the bound,
and a refresh that was sent gets an answer or gives up, because the HTTP clients
have timeouts. Strong fairness of `BeginRefresh` for workers: Go's mutex hands
itself to a goroutine that has waited for a millisecond, so requests cannot keep
a worker out for ever. Nobody is obliged to call, write, start or stop.
*Relay:* cleanup, reader and callers run while the process lives; neither the
peer nor a context is obliged to anything.
*Usage:* only the dispatcher is obliged to run.

### Where code and comments disagree

* `sync_management`. A result is recorded and its goroutine pauses before it
  reaches the scheduler; a management deletion removes the credential from the
  manager and the scheduler; the result's clone puts it back, since its models
  are still registered; the service unregisters the models, and `Manager.Remove`
  returns early because the manager does not know the credential any more. The
  shard offers it until a failing pick resyncs. For credentials that management
  did not delete the property holds (`RemovedIsNotOffered`).
* `wsrelay_stop`. Cleanup closes the channel of a pending request, whose entry
  stays in the map until the whole map is replaced; the reader loads it for an
  answer that arrives meanwhile, its send panics, and nothing in that goroutine
  recovers. `Manager.Stop` is documented as graceful. Cancelling a request opens
  a smaller window, between the reader's load and its send.
* `refresh_disable`. A refresh clones the credential and calls the provider; the
  management API disables the credential; the refresh ends and writes its clone,
  enabled, over it.

Not contradicted by a comment, but visible in the models: a failing pick that
resyncs from an older snapshot hides a credential added meanwhile until the next
failure (`CredentialSync`); the scheduler's numeric round-robin cursor does not
follow the identity of the previous pick when the ready set changes
(`ShardRotation`); the retry time of a cooldown error may be the end of a
credential-wide quota (`selector.go:591`) behind which the model has a longer
pause (`ModelShard`); registration of models after a start discards cooldowns
that were just restored, and a denied refresh of a credential without model
states blocks it without an end and so without a record, which a restart forgets
(`CredentialCooldown`); a session that Stop or the heartbeat ends between its
entry in the table and `onConnected` leaves its credential behind (`WsRelay`);
and the ways astray listed in 2.6 and 2.7.

## 4. Theorems

Every theorem is of the form `Spec => []Inv`, or refinement, for every value of
the constants that satisfies the assumptions next to their declaration. TLC
evaluates these assumptions in every run of the module, and has checked the
inductive invariants on small instances before they were proved.

*ExecutionRegistryProofs.* No property is inductive alone. The invariant has a
part for each idea: `PhaseInv` (the maps agree with the program counters, ids
are given in order), `ResourceInv` (a resource is closed before its release is
counted), `BarrierInv` (no dispatch from before a published barrier is
unresolved), `DrainInv`, `CloseInv` (a `Close` under way still holds every open
resource in its copy) and `ReleaseInv` (the latest sequence has reached the
sink, or waits in the replay, or is in a call under way). Each part is shown to
be preserved by a lemma of its own, and `FreezeComplete` with `BarrierInv`.

*ReleaseFlusherProofs.* `Ordered` relates the copies of a sequence: acknowledged
≤ known to Home ≤ latest ≤ issued, and what is in a batch or an answer lies
between. With it the three promises are inductive, and every step maps to a step
of `ReleaseAccounting` or leaves its variables alone.

*SchedulerProofs.* Of `ModelShard`, the key is `Honest`: each entry is the
schedule its snapshot had at some earlier instant. An entry whose retry time is
not over is then still right (lemma `ScheduleLasts`), one without a retry time
never changes, and the others are the due ones, which the promotion finds
because the blocked index is that of the entries. Sorting is proved from its
defining property; that a finite set of numbers can be listed in order, and has
a greatest element, is derived from the well-foundedness of the naturals. A
retry time is the end of a credential-wide quota or of the model's state;
`ScheduleLasts` covers both, and the earliest of them over the allowed
credentials is what `CooldownTimeIsEarliest` is about. Cursors may stand one
past the end of a view after a pick, and rebuilding normalises them.

`RotationCoversAll` of `ShardRotation` needs to know where the cursor is: a
credential that was passed over `n` times lies at least `n` steps, counted round
the view, behind it (`Turn`). An unrestricted pick takes the credential after the
cursor and moves the cursor one step further from all others, and no credential
is as many steps away as the view has members. The theorem is for any number of
credentials; the run has two.

Of `CredentialSync`: what clones carry is not in the invariant, `SyncInv`
holds whatever clone arrives, because an upsert reads the model registry. It
says that a credential the service has removed, or never had, has no models
registered unless management erased it (`AbsentIsUnsupported`), and that the
scheduler credits a credential with models that are not registered any more only
while the service is at the steps that end in telling it
(`StaleIsBeingCleared`). With `ShardMatchesMetas` this keeps a removed credential
out of the shard.

*CredentialCooldownProofs.* Four invariants. `BoundInv`: whatever holds a copy
of the cooldowns - the manager, the clone of a refresh, a registration, a save,
a load, the file - has its type, and only levels that are at most the number of
windows opened and within the ladder. `GrantInv`: each deadline in any of these
places is an element of `granted` for the model that holds it, or for the
credential. A set of deadlines and not a bound, so that a pause stretched to the
cap, to another rung or to the deadline of another model would break it. Only a
failure adds to the sets or raises a level; spreading, aggregating, merging,
clearing, saving and restoring are shown, operator by operator, to take their
deadlines from their arguments: they choose a maximum or minimum of what is
there, for one model, and the credential's set contains those of all its models.
`PauseInv`: a quota of the whole credential keeps its recovery time, and a
paused credential has no model that is back sooner, in each of these places that
does not go back to records merged out of date. Restoring applies the records
one after another, and is proved about as a recursive function by a least
counterexample.

`FileInv` is about what a restart brings back. `Sound`: in each of the places, a
model state that is unavailable or out of quota says until when, and the end that
the credential as a whole has is that of its own quota or one a model waits for.
`Saved`: the records of a snapshot being written, and of the file when nothing is
under way and nothing is unsaved, show the manager (`Shows`): those that are not
over are records the manager would write now, and the only ones of the manager
that are missing are those of a pause of the whole credential that the record of
some model outlasts. Time takes records away on both sides alike, which is why a file
stays right without being rewritten. The order in which the records are restored
is that of a set, so restoring is shown to compute a value that does not depend
on it (`Rebuilt`), by the same least counterexample; that value blocks a model
exactly where a record that is not over does (`RebuiltBlocks`), and so does the
manager, apart from the exceptions of `RestartKeepsBlocks`.

Three facts about the model came out of these proofs. A flag `stale` that a restart
clears is wrong: the outcome of the merge can be saved and come back with the
next process, and TLC shows the pause that is not total with three operations,
where the run has two; `stale` therefore follows the copies. And the cases of
`failedState` overlapped for a disabled cooldown, which leaves the value open;
they are now disjoint, in the order the code tests them. The third: the step of a
denied refresh (401) of a credential without model states had no proof, for good
reason. It makes the credential unavailable without an end, a later save clears
`unsaved`, and there is no record to write; the sequence is longer than the run's
bounds. `RestartKeepsBlocks` now names this exception, and it is listed in
section 3.

*AutoRefreshProofs.* `SpentTokenIsNotUsed` rests on the refresh lock (one refresh
of a credential at a time) and on whose a token is: no two credentials share one,
a token that a login or a refresh is about to write is nobody's, only tokens
issued so far occur, and a credential outside `restored` has one that is not
spent. The assumption that there are at least as many tokens as credentials
gives each its first one. `TrackedUnlessForgotten` follows what the heap says
about a credential, or will say once the loop has written the entry it holds:
the entry is not too late, and it is there, unless the loop will look at the
credential again (dirty, still to do, or a reschedule under way). A non-empty
dirty set has a wake-up pending, and a waiting loop with entries has a timer.

*AuthWatcherProofs.* `Flows` says of every credential that is neither crossed nor
untold: at most one update of it is between the two locks, in the hands of the
event, of one reload or of one call; it carries what `currentAuths` has; and
without one, `Latest`, the last update in the channel, the batch and
`pendingUpdates` or else what the manager has, is that value. A step under
`clientsMutex` makes such a carrier or marks the credential, a dispatch turns the
carrier's value into `Latest`, and all other steps spare the credential. What
enqueueing a list does is a lemma about a recursive function, proved by a least
counterexample; that a refresh lists each credential once comes from `SetToSeq`
on a finite set, which is why the sets of names are assumed finite (they are the
keys of Go maps). The run of two goroutines past each other that the code allows
is exactly what `crossed` records: without that exception the step that takes a
second carrier has no proof.

`SettledIsDesired` adds where the values come from (`SourceInv`), in three parts.
*Configuration*: when the file is not the configuration in use, the timer, a
reload under way or an event is there to notice, and the hash recorded is that of
the configuration in use unless a reload is about to renew it; a file that does not
load leaves the configuration in use, which always loads; a change lost in
the named way is excepted. *Directory*: a hash is that of the file unless an event
for the file is in the queue, the removal is being waited for, or the first scan
is still under way; a file with a hash has an entry, or its event is about to
commit it. *Snapshot*: `currentAuths` has what connections, keys of the
configuration and hashes call for, unless a refresh is due, the file's event is
about to commit, or the entry is one of the stale ones the property excepts. At
rest none of the "unless" is left, and `Flows` carries the value on to the
manager.

*WsRelayProofs.* A caller that waits on an open channel is in the pending map,
and once the session is closed cleanup will still get to it: it has not started,
or the request is in the snapshot and not yet visited, or is being visited
(`WaitingIsPending`). For `AnswerIsWhole`, what was received is a prefix of what
the peer sent, the channel continues it up to the message that ends the loop, no
message is missing while the channel is open and holds no end, and whoever closes
it has put an end into it before. Requests whose channel was full are excepted,
as in the property.

*UsagePipelineProofs.* A subscriber of the map has an untouched channel that
holds the first notice and the stream since it joined; every other channel has
one close, done or to come. `NothingVanishes` and `DuplicateNeedsFailure` come
from there being one copy of a record outside the channels: each of queue, store,
backlogs and batches lists it once, no two of them have the same, and Home has received a record that
is still inside no more often than a push of it failed. The assumption that the
dispatcher is not one of the forwarders keeps the enqueuers apart.

Only model-checked:

* liveness (`WaitersReturn`, `TicketsComplete`, `LoopComesToRest`,
  `RequestsEndWithSession`, `AcceptedIsDispatched`), which the prover does not
  handle;
* the properties of the three runs that expect a violation: they are false.

Every invariant of a passing run is stated by a theorem.

## 5. Plan

The order is by importance for the requests a user sees, then by how hard the
code is to test.

1. *Done:* registry, flusher and its abstraction, shard, rotation, sync,
   cooldowns, refresh, watcher, relay, usage.
2. *Done:* proofs of every invariant the passing runs check, and of the
   refinement of the flusher.
3. `RequestRetry`: the execution loop over credentials with tried sets, waits
   for cooldowns and stream bootstrap, composed with the shard; termination and
   no credential tried twice.
4. `HomeLifetime`: the subscriber with generations, config worker, publisher;
   composition of registry and flusher, with the abstract specification that
   Home's count of busy slots is never too low for what runs and returns to
   zero.
5. `WeightedRotation`: smooth weighted round-robin against a reference share
   over bounded weights, and `pickMixed` composed of several shards.
6. `ModelCounts` for the model registry, OAuth sessions, the bounded LRU against
   a reference.

## 6. Not modelled

Translators, thinking and signature rewriting convert documents and keep no
state that two requests share. Executors, stores, OAuth exchanges, the Home
client and the plugin host are I/O with external programs; where the models need
them they appear as choices (a frame is lost, a result is a failure, a refresh
is denied). Configuration parsing, logging, the terminal and desktop front ends
and the command-line tools are outside the question of order that this project
asks. These make up by far the most lines of the repository.

Of the parts that are modelled: in the scheduler, credential weights and the
choice among providers; in the conductor, the retry loop, the aliasing of models
and the legacy selection path of custom selectors and plugins; in the usage
pipeline, other plugins, the error queue and changes of the retention; in the
watcher, files that hold several credentials, remote stores and a change of the
auth directory; in cooldowns, several credentials in one store, old file formats
and model states of models that are no longer registered.
