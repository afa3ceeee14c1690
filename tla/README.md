# Verification of grpc-rust: client channel, load balancing, xDS

TLA+ models of the parts of this repository that decide, under concurrency and
failure, where an RPC goes: the client channel of the `grpc` crate with its load
balancing policies and subchannels, the worker of the `xds-client` crate that
keeps a client's resources in step with a management server, and the circuit breaking of
`tonic-xds`. TLC checks the models on small instances; TLAPS proves every safety property
that holds on them, of every model, for all instances.

Run a check with `tlc -workers 2 -config X.cfg M`, the proofs with `tlapm M.tla` for
each `M` that ends in `Proofs`. PROJECT.json lists the runs, the source lines of every
definition, the hazards, and one mutation of the code per property that makes the
property fail.

## 1. The system

The repository holds four groups of crates:

- `grpc`: the new gRPC implementation. Client: `channel.rs`, `subchannel.rs`,
  `load_balancing/*`, `name_resolution/*`, deadlines, interceptors, transports. Server:
  builder, router, hyper transport. Around them metadata, compression, credentials and
  a runtime abstraction.
- `xds-client`, `grpc-xds`, `tonic-xds`: the xDS protocol client; the gRPC
  integration (dependency manager, cluster manager); the older tower-based stack
  (endpoint load balancing, outlier detection, circuit breaking, retries).
- `tonic` and its satellites (`tonic-health`, `tonic-reflection`, `tonic-web`,
  `tonic-types`): the HTTP/2 gRPC library.
- generators, examples, interop tests, benchmarks.

### Components, their state and their operations

| component | state | operations | what makes it hard |
|---|---|---|---|
| subchannel (`grpc/src/client/subchannel.rs`) | connectivity state in a mutex, one spawned task, a `Notify` for drop | `connect`, `dyn_invoke`, Drop; the task's connect / ready / backoff phases | the task runs on any thread; `notify_waiters` keeps no permit; updates lag behind the state |
| pick_first (`load_balancing/pick_first.rs`) | address list, cached states, selected subchannel, frontier, timer, steady state, last error | `resolver_update`, `work`, `exit_idle`, pickers | updates, timer and resolver in any order; cached states |
| subchannel sharing (`load_balancing/subchannel_sharing.rs`) | internal subchannel, remembered state and weak external subchannels per address | `new_subchannel`, delivery of updates, release | external subchannels die on any thread, their release is queued |
| graceful switch (`load_balancing/graceful_switch.rs`, `Child` in `child_manager.rs`) | active and pending child, their last pickers, suppression flags | `resolver_update`, `work`, `reconcile` | long sequences of configurations and child states |
| channel (`channel.rs`) | active channel (`ArcSwapOption` and mutex), work queue, `Watcher` with the current picker, config selector | first use, resolver update, picks, waiting for the next picker | lock-free readers, notification without permits, pointer comparison |
| ADS worker (`xds-client/src/client/worker.rs`) | per type: subscription, cache, version, nonce, watchers; timers; the stream | watch / unwatch, responses, timeouts, stream up / down | commands, timers, stream events and the server all interleave; reconnects |
| priority (`load_balancing/priority/mod.rs`) | ordered children, each with a state and up to two timers; the priority in use; what was published last | `resolver_update`, `work`, `exit_idle`; timer tasks | timers racing updates, reordering and the removal of children |
| circuit breaking (`tonic-xds/src/client/circuit_breaking.rs`) | process-wide map of counters; per cluster a config behind an `ArcSwap`; Arcs of both held by calls | CDS updates, `acquire`, release, drop of a channel, removal of unused counters | several channels and threads on lock-free counters; who drops the last reference |
| round_robin, weighted_target, child manager, lazy | children by key | as pick_first | work items routed to children that may be gone |
| DNS resolver, proxy resolver | pending lookups, backoff, last results | `resolve_now`, `work` | rate limit, backoff reset, merging of two resolvers |
| deadlines, interceptors, stream validators | per call | send / recv | deadline against trailers |
| grpc server | connections, shutdown state | serve, shutdown | graceful shutdown against its timeout |
| grpc-xds dependency manager | graph of clusters, watchers | resource updates | subscriptions must follow the graph |
| tonic-xds | endpoint channel states, ejection, concurrency limit, retries | per call and per resource update | futures polled by different calls |
| tonic | `Reconnect`, `Connection`, codecs, server | `poll_ready`, `call` | error kept until the next call |

How they interact: the channel's *work loop* is a task that takes items from one
unbounded FIFO queue. Resolver results, subchannel updates, timers and IDLE pickers only
append items; policies run inside the loop, one item at a time, through
sharing -> graceful switch -> child policy, and publish pickers through the `Watcher`.
Calls never enter the loop: they read the config selector and the picker lock-free, wait
for a newer picker when queued, and call `dyn_invoke` on the subchannel they picked. The
ADS worker is the same pattern: one actor, one FIFO queue, everything else posts.

### What makes each modelled component correct

- A subchannel has one lifecycle task at most, is never left in a state that nobody will
  change, and shows its policy the documented machine and nothing else.
- pick_first and sharing never cut a subchannel in use off from its updates, keep none for
  nobody, offer a READY picker only for a READY connection, ask for new addresses when
  they report failure, and do not get stuck.
- The channel is created once; no call is configured ahead of the policy that serves it;
  what is published is the active policy's picker; a switch completes as soon as it may;
  no queued call misses a picker.
- The priority policy uses the best child there is, publishes that child's latest picker,
  never deletes a child it uses, never forgets a timer, and fails over for good from a
  child that hangs or flaps.
- Circuit breaking has one counter per {cluster, EDS service name}, whatever channels,
  updates and cleanups do; its numbers are exact; no call passes beyond the limit; a
  counter nobody uses is removed.
- On a stream in use the server knows exactly what the watchers want, requests carry only
  nonces of that stream and versions that were accepted, cancelled timers do nothing, and
  watchers know what is cached. Unless `resource_initial_timeout` is None, every awaited
  resource has a timer, and every watch is answered in the end.

## 2. The modules

### Subchannel, SubchannelDoc, SubchannelProofs

`Subchannel` has one action per atomic step of `subchannel.rs`. The task's program counter
distinguishes the points where other threads can interfere: `spawned` (not yet polled),
the three `select!`s (`connecting`, `ready`, `tf`), the moment after a `select!` and before
the lock (`to_ready`, `to_tf`), and the moment after the lock and before the next `select!`
(`ready_gap`, `tf_gap`). `NotifyWaiters` reaches only tasks inside a `select!`. References
are counted by what can hold an Arc: the policy or its picker, queued updates, calls.
`InvokePanics` is the `todo!` of `dyn_invoke`, which poisons the mutex; each later
`lock().unwrap()` is then a panic of its caller.

`SubchannelDoc` is the abstract specification: the transitions that the documentation of
the `Subchannel` trait lists, as seen by the policy. `Subchannel` implements it with
`seen <- lbView`.

### PickFirst, MCPickFirst, PickFirstProofs, PickFirstFreshProofs

The policy's methods are functions of a call record (policy state, published picker,
subchannels told to connect, re-resolution, panic), so that one action of the work loop is
one whole handler, including the sharing layer's bookkeeping in `Finish`. What other
threads do only appends to the queue. Each internal subchannel is reduced to the
documented machine, which `Subchannel` is shown to implement: a live one moves
CONNECTING -> READY or TRANSIENT_FAILURE -> IDLE and READY -> IDLE, and reports each move.
A SharedSubchannel is an address and an identity; it is held by the policy's list, the
selection, a picker, a queued update or a picker some call still holds (`pinned`), and its
last holder's drop queues the release. Updates and releases carry the internal subchannel
itself, so those of a removed entry are deleted with it.

`reused` is a history variable: the sharing layer has handed out an entry that existed
before. Three properties hold only until then; see findings. A timer's flag and its work
item are one step here (`TimerFires`): a call into the policy that comes between the two
in the code sees the flag as it would after both, and the work item then finds it taken.

### GracefulSwitch, ClientChannel, ClientChannelProofs

`GracefulSwitch` gives the outcome of a call into the policy as operators on the active
and the pending child. A child is its name, its handle, the state of its last picker and
the suppression flag. `ClientChannel` adds the loop and the calls. `Watcher::update` is two
steps, store and notify; `Snapshot::next` is register, load-and-compare, await. LbStates
have addresses, which the allocator reuses once nobody holds the old value: this is what
the pointer comparison relies on. `SharedConfigSelector::update` is two stores.

Abstractions: a child that was just built publishes a picker for its first update (all
policies of the repository do); a child's handle is the number of the resolver result that
built it; the choice of a free address is fixed, as addresses are only compared; pickers
behave by state (READY and TRANSIENT_FAILURE end the pick, CONNECTING and IDLE queue it,
IDLE schedules work once, as pick_first's `IdlePicker` does).

### AdsWorker, MCAdsWorker, AdsWorkerProofs

The methods of the worker are functions of a *turn*; one action handles one message to the
end, as `run` does. The lifecycle task, timers, watchers and the server append messages.
Versions and nonces are numbers of responses. `firing` holds timer tasks whose sleep is
over and whose message is not sent yet: cancelling them is too late. `sent` holds the
subscriptions on the stream that the server has not got past, so that a response may answer
an old request. `gate` is the set of watchers holding a `ProcessingDone`; the read loop
waits for it. `told`, `last`, `dead` and `bad` are history. The constant
`ResourceInitialTimeout` says whether `resource_initial_timeout` is set: with None, a
documented setting, `start_pending_resource_timers` returns at once and no timer ever runs,
so `TimersCover` and `Answered` are stated for the other case only. With None and a silent
server a watch waits for ever, as the setting asks for.

Abstractions: a type without watchers has no TypeState in the code and the initial one in
the model; timer ids are the least unused instead of a counter (they are compared only with
expirations of the same resource); repeated identical subscriptions count once; the contents
of a resource, the snapshots for CSDS, metrics, shutdown and the length of the backoff
are left out. The management server is external: it may answer any request still on the
stream, with any subset of what it names, valid or not, or send bytes that do not decode.

### Priority, MCPriority, PriorityProofs

One action per operation of the policy, each ending in `Reconcile`, which is
`handle_deactivation_timers`, `update_child_data` and `choose_priority` as one function of
the list and the children. Children below the policy are any policy: whenever one is
called it may report any state. A timer's task is two steps, as in the code: it sets the
flag (`Expire`), then schedules work (`ScheduleWork`); a timer dropped during its sleep is
aborted, one dropped between the two steps still schedules its work (`firing`). `queued`
counts the `PriorityTimerWork` items in the channel's queue.

Abstractions: a published LbState is known by the child that made it and by which of the
child's pickers it holds (two per child tell the latest from the published one; pickers
are compared by allocation); a child's timer is absent, running or expired, without its
length; whether a child rejects its update only changes the result. The names of a list
are assumed distinct; `validate()` does not check this (a hazard in PROJECT.json).

### CircuitBreaker, MCCircuitBreaker, CircuitBreakerProofs

A step is one access to an atomic, an `ArcSwap` or the locked shard of the map. An update
is `compare` (the counter is found or inserted), `swap` (the new config counts as a user,
if the key changed), then `deactivate`, `drop`, `cleanup` for a config that was replaced by
one of another key, or whose channel went away. A call is `load`, `exchange` (the
compare-and-swap loop of `try_acquire`, which may fail spuriously), `running`, `drop`,
and, if its reference to the config was the last, `check`, `forget`, `cleanup`.

Abstractions: strong counts are not numbers but the set of places that hold a reference
(`ConfigHolders`, `CounterHolders`); identities of counters and configs are reused once
free, which is sound as they are only compared; `is_unused`'s two loads are one step, and
so are the swap of a config and the drop of the one of the same key that it replaces, whose
counter the new one keeps in use (`Swap`); the
dropped-requests statistic, which nothing reads back, and the wording of rejections are
left out; a call without a config in force does nothing here. One task watches a cluster
of a channel, so `update_lock` is never contended.

## 3. The runs

| run | bounds | checks |
|---|---|---|
| `subchannel` | 2 RPCs, 2 task identities, 4 queued updates | TypeOK, OneLifecycle, Driven, SeesDocumented (refinement), AttemptEnds (liveness) |
| `subchannel_drop` | 1 RPC | DropDisconnects: violated |
| `pick_first` | 2 addresses, lists of 0 to 2 (one with a duplicate), 3 resolver results, 2 identities per address, outside events wait at 2 queued items | TypeOK, NeverOrphaned, NoLeak, ReadyIsReady, AsksAgain, FreshNoPanic, FreshSelected, FreshNotStuck |
| `pick_first_panic` | the same with 2 resolver results, outside events wait at 3 queued items | NoPanic: violated |
| `client_channel` | 2 calls, 2 policies, 2 resolver results | TypeOK, OneChannel, ConfigNotAhead |
| `client_channel_switch` | 1 call, 3 policies, 3 resolver results | PublishedIsActive, SwitchIsPrompt, LatestMayResolve; NoMissedPicker, IdleIsLeft (liveness) |
| `ads_worker` | 1 type, 2 names, 2 watchers, 3 watches, 2 streams, 2 responses; timeout set | TypeOK, SubscriptionSent, NonceFresh, VersionAccepted, TimersCover, ToldWhatIsCached, NoEarlyTimeout |
| `ads_answered` | 1 name, 2 watchers, 3 watches, 2 streams, 1 response; timeout set | Answered (liveness) |
| `ads_absence` | 2 names, 1 stream; timeout None, on which the finding does not depend | ServerIndicatedAbsence: violated |
| `priority` | 3 names; lists abc, ba and the empty one; 2 pending timer tasks; children report CONNECTING, READY, TRANSIENT_FAILURE | TypeOK, BestOffered, PublishedIsCurrent, InUseKept, NoLostWakeup; Failover (liveness) |
| `circuit_breaker` | 2 channels, 2 keys, limits 1 and 2, 2 calls, 2 counters, 3 configs | TypeOK, OneCounter, SlotsBalanced, UsersBalanced; LimitRespected (action) |
| `circuit_breaker_leak` | the same | CleanedUp: violated |

Why the bounds are enough to be interesting. Two task identities would expose two tasks
running at once; the queue of updates may be full while the state moves on. With three
resolver results, pick_first replaces its list while subchannels of the first are in any
state, the sharing layer meets releases that are late, and a third list meets a policy
that was handed a reused subchannel. Three policies let a switch be
superseded by another before it completes. Two more addresses than calls is the least with
which a new LbState always finds a free one, so addresses are reused as early as they can
be. Two watchers and three watches cover a watcher that leaves and comes back while
another keeps the type alive; two streams cover everything around a reconnect. `MaxQueue`
in `AdsWorker` only delays producers: what is late is covered by `firing` (expirations),
`sent` (requests the server has not read) and stream events, which are never delayed.
Symmetry is used in `ads_worker` and `circuit_breaker`, which check no liveness.

The lists of `priority` reorder two children, drop one and drop all; IDLE is left out of
what children report there because the policy treats it as READY
(`from_connectivity_state`). In `circuit_breaker` a counter or config identity is needed
only while somebody refers to it; with three configs and two counters, updates wait for a
free one at worst. The limits are reached: with limit 1 the second call is refused, with
limit 2 it passes.

CHECK_DEADLOCK is off except in `priority`: a channel, a subchannel nobody uses, a worker
without watchers and a breaker without updates all rest, and the bounds end runs. The
priority policy can always be called.

### Fairness

- `Subchannel`: the runtime polls woken tasks, the connect timeout and the backoff timer
  go off, the loop delivers. Nobody owes a connection, a disconnection or a call.
- `ClientChannel`: calls that can move are polled; the loop finishes the item it is at; an
  IDLE picker's item gets its turn although other items come (the queue is FIFO), hence
  strong fairness for it. The resolver, children and new calls owe nothing.
- `AdsWorker`: the worker drains its queue, timers that were started run out, a stream that the worker
  cancelled ends, and a server that can be reached again and again is reached (strong
  fairness of `Connected`): without it no watch could be answered. The server owes no
  response, and watchers may keep their tokens.
- `Priority`: woken timer tasks run and the loop takes timer work (weak fairness). That no
  sleep lasts for ever is stated of the sleep itself, `[]<>~Running(n, t)`, and not as
  fairness of `Expire`: the bound on pending tasks may disable `Expire` again and again,
  which the runtime does not. Resolver and children owe nothing.

### Findings

1. **A drop can go unnoticed** (`subchannel_drop`). `Drop` calls `notify_waiters`, which
   stores nothing; a task outside its `select!`s misses it and keeps its connection.
   Keeping a permit (`notify_one`) or a cancellation token would close the gap.
2. **pick_first can panic the work loop** (`pick_first_panic`). With an entry reused from
   the sharing layer in TRANSIENT_FAILURE, a pass has no address to try and no error to
   report. For the same reason `FreshSelected` and `FreshNotStuck` carry their proviso:
   with a reused entry, a failure can replace a READY picker, and a subchannel recorded
   as CONNECTING may never report again. `AsksAgain` is stated of a policy with nothing
   selected for the same reason: when the failure of a reused subchannel has hidden a
   READY selection, a later resolver update that keeps the selection returns early from
   `subchannel_activate`, so calls keep failing and nobody asks for new addresses. This
   takes three resolver results; it came to light because the property without that
   proviso is not inductive, and the state that breaks it can be reached.
3. **A watcher can be told that a resource does not exist though the server was not
   asked** (`ads_absence`). The cache keeps entries of names without watchers while the
   type has others, and deletion is inferred from responses to older requests.
4. **A counter can stay in the map for ever** (`circuit_breaker_leak`). A call that drops
   the last reference to an outdated config looks at `is_unused` first and drops its
   reference to the counter later. If the config in force is deactivated in between,
   its cleanup finds the counter referred to, and the call has already decided not to
   clean up. The counter is used again if the key comes back, so only memory is lost.

A known gap of the code that is modelled and not a finding: `dyn_invoke` on a subchannel
that has left READY ends in `todo!` under the mutex and poisons it. `Driven` and
`AttemptEnds` hold except after that.

## 4. The proofs

`SubchannelProofs` proves, for every set of RPCs and tasks and every bound:

- `TypeCorrect`: Spec => []TypeOK
- `SingleLifecycle`: Spec => []OneLifecycle
- `NeverAbandoned`: Spec => []Driven
- `ImplementsDoc`: Spec => SeesDocumented, i.e. the refinement of `SubchannelDoc`

The only assumption on the constants is `MaxUpdates \in Nat`. The argument is one inductive
invariant, `IInv`, with a lemma per action. OneLifecycle is inductive with the
types: only `connect` on an IDLE subchannel starts a task, and OneLifecycle says there
is none then. Driven needs one more fact, `NotifiedMeansDropped`: a task that has been told
of the drop belongs to a subchannel that nobody holds, so the task that leaves on that
notification abandons nobody. The refinement needs `Path`: the queued updates, read after
the last one delivered, are a path of documented transitions, which ends in the
current state as long as updates are being sent. Delivering one moves along the path.

`ClientChannelProofs` proves, of `SafetySpec` and for any number of calls, policy names
and resolver results:

- `ChannelTypes`: []TypeOK
- `OneChannelBuilt`: []OneChannel
- `NeverAhead`: []ConfigNotAhead
- `PublishedPicker`, `PromptSwitch`, `LatestResolves`: []PublishedIsActive,
  []SwitchIsPrompt, []LatestMayResolve

It assumes what ClientChannel and GracefulSwitch assume of their constants: handles are
the numbers of resolver results, `NoChild` is none of the values it stands beside, and
there are two addresses more than calls (`FreePtrsNonempty` then shows that a new LbState
always finds a free one). The inductive invariant `IInv` has five parts. `Creation` ties
the mutex to the position of the call that holds it, and `built` to whether some call is
about to store what it built: OneChannel alone says nothing of a second call that is about
to build. `Configured` follows an epoch from the LB policy to the selector and from there
to the call; it needs the position of the loop, since the selector is stored in a step
after the policy's. `Switching` states the three switch properties for every loop
position, and `Sound` is what a call into the policy has to return for it to survive:
`ResolverOutcomeSound` and `WorkOutcomeSound` show that both operations do, by the cases
of Choose and Reconcile. `Snapshots` says that a picker without an owner is CONNECTING, so
that no IDLE picker schedules work for nobody.

`PriorityProofs` proves `AlwaysTypeOK`, `AlwaysBestOffered`, `AlwaysPublishedIsCurrent`,
`AlwaysInUseKept` and `AlwaysNoLostWakeup` of `SafetySpec`, for any names, any lists of
distinct names and any number of pending timer tasks. The five properties together are
inductive (`IInv`). The argument goes through `reconcile`: whatever an operation did to the
children (`Loose`), the first two phases leave only children whose state agrees with what
they reported and with their timers (`UpdateSettles`, `SettlingIsTidy`), and
`choose_priority` chooses the first usable child, else the first that still tries, else the
last (`ChooseSound`, by `FirstIsLeast`). `ChosenIsSound` draws the properties from this. The
timer tasks run outside `reconcile`: an expiration keeps the properties because the
children in use have no deactivation timer, and because it is itself the task that
NoLostWakeup asks for.

`CircuitBreakerProofs` proves `AlwaysTypeOK`, `AlwaysOneCounter`, `AlwaysSlotsBalanced`,
`AlwaysUsersBalanced` and `AlwaysLimitRespected` of `Spec`, for any keys, limits and finite
sets of clusters and calls. The invariant `IInv` adds `Consistent` to the balances: which
references each thread holds at each step (`UpdateShape`, `CallShape`), that what they
refer to exists, that a replaced config is not the one in force (so that dropping the last
reference frees nothing in use), that no counter serves two keys, and that a call at its
exchange saw a slot below its limit. A step of one thread leaves alone what the others
refer to (`ClusterFrame`, `CallFrame`, `WithoutSound`). The balances are counted with
`AddUser`, `RemoveUser` and `MoveUser`: a swap turns the announced user into the current
one and the current one into the previous one, which changes no number because the two
counters differ. The limit follows: all calls of a key hold slots of one counter, and its
in_flight, at the moment of the exchange, is what the call compared with the limit.

`PickFirstProofs` proves, for any addresses, families and lists and any bounds:

- `TypeCorrect`: Spec => []TypeOK
- `UsedIsKept`: Spec => []NeverOrphaned
- `UnusedIsReleased`: Spec => []NoLeak
- `ReadyPickerIsTrue`: Spec => []ReadyIsReady
- `FailingAsksAgain`: Spec => []AsksAgain

The assumptions are `ListsAssumption` (lists of addresses, each of one of three families)
and `BoundsAssumption`. The inductive invariant treats the queue as knowledge on its way.
`Sharing` is the sharing layer's half: an address in use, or with an update or a release
queued, has its entry (`Backed`); an entry nobody uses has a release queued (`Owned`); the
entry, then the internal updates queued, end in the subchannel's state (`Reported`); the
updates queued for the policy end in the entry's state (`Delivered`). The policy's half is
`ReadyKnown` (what it takes for READY is READY to the entry, or an update is on its way),
`Offered` (a READY picker offers the selected subchannel, which is listed) and AsksAgain.
The properties alone are not inductive: NeverOrphaned says nothing of releases that are
late, and ReadyIsReady speaks of drained queues only. The policy's methods are
followed as calls: `Good` is what a call must return, each method has a lemma that it
does, and `FinishKeeps` shows once that a good call, its releases and its reports keep
the invariant. TypeOK includes that the list repeats no address, so `CompileAddressSound`
shows what `compile_address` computes without induction: the place of an address in the
interleaving is an injective function of the address.

`PickFirstFreshProofs` proves the three properties with the proviso that no subchannel was
handed out twice: `FreshNeverPanics`, `FreshShowsSelection` and `FreshIsNotStuck` (Spec =>
[]FreshNoPanic, []FreshSelected, []FreshNotStuck). They need more than where the queue
ends: `FInv` says that the state of an address, read from the policy's cache through the
updates queued for the policy, the entry and the internal updates to the subchannel, is a
path of documented transitions (`Linked`, `FirstIn`, `ReportsMove`), where the policy may
be ahead by the CONNECTING it notes when it tells a subchannel to connect. So a listed
address fails in the cache only if the policy has seen the error (`Learns`), no address
other than the selected one can become READY (`Selection`, `Quiet`), and an idle
subchannel that the policy counts on has something to report (`Progress`, `Waits`). The
path needs one SharedSubchannel per address (`OneEach`), which is what the proviso gives.
The predicates take the connects of a call that is not finished as an argument, so that a
lemma per method carries them to `FinishFresh`, where the connects become reports.

`AdsWorkerProofs` proves, of `SafetySpec` and for any types, names and watchers and any
number of watches, streams and responses, with the resource timeout set or None:

- `TypeCorrect`: []TypeOK
- `StreamKnowsSubscription`, `NoncesAreOfThisStream`, `VersionsWereAccepted`:
  []SubscriptionSent, []NonceFresh, []VersionAccepted
- `WaitsAreTimed`: []TimersCover, whose premise is that the timeout is set
- `WatchersAreTold`: []ToldWhatIsCached
- `CancelledTimersAreIgnored`: NoEarlyTimeout, an action property

It assumes that `All` and `None` are no names (`NamesAssumption`) and that the bounds are
positive (`BoundsAssumption`); `ResourceInitialTimeout` is any Boolean
(`TimeoutAssumption`). The properties are stated of a turn (`WorkerInv`) and
followed through the worker's methods. They hold only because of what the queue can
hold, which is the rest of `IInv`: nothing of a stream is queued before it is up or after
it failed (`StreamOrder`), at most one response waits and the worker has not seen its id
(`ResponseOrder`), a watcher's Watch is ahead of its Unwatch and each is there once
(`WatchOrder`), and an expiration of a cancelled timer does not carry an id in use
(`DeadTimers`). The last one needs that a new timer always finds an id that no timer and no
expiration has, which is a pigeonhole argument on finite sets (`FreshIdSound`).

Every invariant and action property of the passing runs is proved. Model-checked only:
liveness (AttemptEnds, NoMissedPicker, IdleIsLeft, Answered, Failover), because fairness
and ENABLED are outside the prover. The four violations are TLC's counterexamples.

## 5. Plan

Done: the modules above, each with the proofs of its safety properties.

To model, in this order:
1. The grpc-xds dependency manager's cluster graph: subscriptions that follow aggregate
   clusters as they change.
2. The DNS resolver's rate limit and backoff; a call's deadline against its trailers; the
   graceful shutdown of the server.
3. Several pick_first children over one sharing layer (round_robin).

To prove: the safety parts of the liveness arguments, i.e. invariants that say which
fair action is enabled while a call waits (NoMissedPicker) or a watch is unanswered
(Answered); and what the modules above gain.

## 6. Not modelled, and why

Conversion and I/O (codecs, metadata, protobuf, transports, credentials, TLS), code
generators, examples and benchmarks have no state that interleaves. round_robin,
weighted_target and the child manager are sequential containers: they run inside the work
loop, and what runs beside them is modelled below pick_first, graceful switch and
priority. The endpoint load balancer of tonic-xds polls its state from one task; its
outlier detector is built with the default configuration, which disables it. The
resolvers, the dependency manager, deadlines and the server are left for later, as planned
above. `PickResult::Drop` (a `todo!` in `channel.rs`) is returned by no modelled policy.
Teardown of an idle channel is announced in a comment of `channel.rs` and not implemented.
Subchannels get `NopBackoff`, so the exponential backoff that the `Subchannel`
documentation mentions is not in the code; the model lets the backoff end at any time.
