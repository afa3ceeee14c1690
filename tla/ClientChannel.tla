---------------------------- MODULE ClientChannel ----------------------------
(***************************************************************************)
(* A client channel (grpc/src/client/channel.rs): calls that create the    *)
(* active channel on first use, wait for the first resolver result, read   *)
(* the config selector, pick with the current picker and wait for a newer  *)
(* one while they are queued; and the work loop, which runs the resolver   *)
(* and the graceful switch policy, and publishes through the Watcher.      *)
(*                                                                         *)
(* Calls run on any thread, so everything they and the loop do to shared   *)
(* state is cut into its atomic loads, stores and notifications.           *)
(***************************************************************************)
EXTENDS GracefulSwitch, Naturals, FiniteSets

CONSTANTS Rpc,          \* concurrent calls
          Ptr,          \* addresses of published LbStates
          MaxResolver   \* bound on resolver results

\* The update that builds a child gives it its identity.
ASSUME ResolverAssumption == MaxResolver \in Nat /\ Handle = 1 .. MaxResolver

ASSUME PtrAssumption == IsFiniteSet(Ptr) /\ IsFiniteSet(Rpc)
                        /\ Cardinality(Ptr) >= Cardinality(Rpc) + 2

ASSUME CallAssumption == NoChild \notin Rpc

VARIABLES
    stored,     \* PersistentChannel.active_channel is set
    lock,       \* who holds active_channel_init
    built,      \* number of ActiveChannels built
    loop,       \* where the work loop is
    current,    \* Watcher.current: address, state and owner of the LbState
    triggered,  \* addresses of LbStates whose IDLE picker has scheduled work
    work,       \* handles of children with work(None) in the queue
    selector,   \* SharedConfigSelector: update it is from, resolved or not
    lbEpoch,    \* resolver updates the LB policy has handled
    rpc         \* the calls

vars == <<active, pending, stored, lock, built, loop, current, triggered, work,
          selector, lbEpoch, rpc>>

LbState == [ptr : Ptr, state : ConnectivityStates, handle : Handle \cup {NoChild}]

RpcPC == {"idle", "locking", "recheck", "build", "store", "select", "snapshot",
          "pick", "register", "compare", "await"}

\* Where a call holds the snapshot it took.
Holding == {"pick", "register", "compare", "await"}

\* Where the Notified future of Snapshot::next exists.
Registered == {"compare", "await"}

TypeOK ==
    /\ active \in Child \cup {NoChild} /\ pending \in Child \cup {NoChild}
    /\ stored \in BOOLEAN /\ lock \in Rpc \cup {NoChild} /\ built \in Nat
    /\ loop \in {"none", "idle", "notify", "notify_update", "selector", "resolved"}
    /\ current \in LbState /\ triggered \subseteq Ptr
    /\ work \subseteq Handle
    /\ selector \in [epoch : 0 .. MaxResolver, resolved : BOOLEAN]
    /\ lbEpoch \in 0 .. MaxResolver
    /\ rpc \in [Rpc -> [pc : RpcPC, snap : LbState \cup {NoChild},
                        epoch : 0 .. MaxResolver, notified : BOOLEAN]]

\* A call that is not in progress.
IdleCall == [pc |-> "idle", snap |-> NoChild, epoch |-> 0, notified |-> FALSE]

Init ==
    /\ active = NoChild /\ pending = NoChild
    /\ stored = FALSE /\ lock = NoChild /\ built = 0
    /\ loop = "none"
    /\ current = [ptr |-> CHOOSE p \in Ptr : TRUE, state |-> "CONNECTING", handle |-> NoChild]
    /\ triggered = {}
    /\ work = {}
    /\ selector = [epoch |-> 0, resolved |-> FALSE]
    /\ lbEpoch = 0
    /\ rpc = [r \in Rpc |-> IdleCall]

channelVars == <<stored, lock, built>>
switchVars == <<active, pending>>
watcherVars == <<current, triggered, work>>
selectorVars == <<selector, lbEpoch>>

-----------------------------------------------------------------------------
(* The work loop.                                                          *)

\* Mutant: a snapshot that does not keep its LbState alive.
FreePtrsIgnoringSnapshots == Ptr \ {current.ptr}

\* Addresses the allocator may use for a new LbState: those of LbStates that
\* nobody holds any more.
FreePtrs ==
    Ptr \ ({current.ptr} \cup {rpc[r].snap.ptr : r \in {x \in Rpc : rpc[x].pc \in Holding}})

\* Watcher::update, first half: the new LbState is swapped in.  Addresses are
\* only compared for equality, so one free address is as good as another.
Store(publish) ==
    LET p == CHOOSE q \in FreePtrs : TRUE
    IN  /\ \E pk \in publish :
              current' = [ptr |-> p, state |-> pk.state, handle |-> pk.handle]
        /\ triggered' = triggered \ FreePtrs

\* The outcome of a call into the LB policy takes effect; the loop goes on at
\* notify if a picker was stored, at else otherwise.
Apply(out, notify, else) ==
    /\ active' = out.active
    /\ pending' = out.pending
    /\ IF out.publish = {}
       THEN loop' = else /\ UNCHANGED <<current, triggered>>
       ELSE loop' = notify /\ Store(out.publish)

\* ResolverChannelController::update: the LB policy first.  A new child
\* publishes a picker for its first update, an old one may.
ResolverUpdate(n, publishes, s) ==
    /\ loop = "idle" /\ lbEpoch < MaxResolver
    /\ Builds(n) => publishes
    /\ Apply(ResolverUpdateOutcome(n, lbEpoch + 1, publishes, s), "notify_update", "selector")
    /\ lbEpoch' = lbEpoch + 1
    /\ UNCHANGED <<channelVars, work, selector, rpc>>

\* A subchannel update or a timer makes a child publish a picker.
ChildWork(c, s) ==
    /\ loop = "idle"
    /\ c \in Children /\ s # c.state
    /\ Apply(WorkOutcome(c.handle, s), "notify", "idle")
    /\ UNCHANGED <<channelVars, work, selectorVars, rpc>>

\* work(None) from an IDLE picker: its child, if it still exists and is idle,
\* starts connecting, or finds that every address is failing; items of children
\* that are gone are dropped.
IdleWork(h, s) ==
    /\ loop = "idle" /\ h \in work
    /\ work' = work \ {h}
    /\ IF \E c \in Children : c.handle = h /\ c.state = "IDLE"
       THEN Apply(WorkOutcome(h, s), "notify", "idle")
       ELSE UNCHANGED <<active, pending, loop, current, triggered>>
    /\ UNCHANGED <<channelVars, selectorVars, rpc>>

\* Watcher::update, second half: notify_waiters.
Notify ==
    /\ loop \in {"notify", "notify_update"}
    /\ loop' = IF loop = "notify" THEN "idle" ELSE "selector"
    /\ rpc' = [r \in Rpc |-> IF rpc[r].pc \in Registered
                             THEN [rpc[r] EXCEPT !.notified = TRUE] ELSE rpc[r]]
    /\ UNCHANGED <<channelVars, switchVars, watcherVars, selectorVars>>

\* Mutant: the selector belongs to a later update than the LB policy has seen.
SelectorStoreAhead ==
    /\ loop = "selector"
    /\ loop' = "resolved"
    /\ selector' = [selector EXCEPT !.epoch = lbEpoch + 1]
    /\ UNCHANGED <<channelVars, switchVars, watcherVars, lbEpoch, rpc>>

\* SharedConfigSelector::update: the selector, then the resolved flag.
SelectorStore ==
    /\ loop = "selector"
    /\ loop' = "resolved"
    /\ selector' = [selector EXCEPT !.epoch = lbEpoch]
    /\ UNCHANGED <<channelVars, switchVars, watcherVars, lbEpoch, rpc>>

SelectorResolved ==
    /\ loop = "resolved"
    /\ loop' = "idle"
    /\ selector' = [selector EXCEPT !.resolved = TRUE]
    /\ UNCHANGED <<channelVars, switchVars, watcherVars, lbEpoch, rpc>>

-----------------------------------------------------------------------------
(* Calls.                                                                  *)

Goto(r, pc) == rpc' = [rpc EXCEPT ![r].pc = pc]

\* get_active_channel, fast path: a lock-free load.
StartCall(r) ==
    /\ rpc[r].pc = "idle"
    /\ Goto(r, IF stored THEN "select" ELSE "locking")
    /\ UNCHANGED <<channelVars, switchVars, loop, watcherVars, selectorVars>>

TakeLock(r) ==
    /\ rpc[r].pc = "locking" /\ lock = NoChild
    /\ lock' = r
    /\ Goto(r, "recheck")
    /\ UNCHANGED <<stored, built, switchVars, loop, watcherVars, selectorVars>>

\* Mutant: the second check, under the lock, is missing.
RecheckSkipped(r) ==
    /\ rpc[r].pc = "recheck"
    /\ lock' = lock
    /\ Goto(r, "build")
    /\ UNCHANGED <<stored, built, switchVars, loop, watcherVars, selectorVars>>

\* Another caller may have created the channel while this one waited.
Recheck(r) ==
    /\ rpc[r].pc = "recheck"
    /\ lock' = IF stored THEN NoChild ELSE lock
    /\ Goto(r, IF stored THEN "select" ELSE "build")
    /\ UNCHANGED <<stored, built, switchVars, loop, watcherVars, selectorVars>>

\* ActiveChannel::new_arc_for: builds the resolver and spawns the work loop.
Build(r) ==
    /\ rpc[r].pc = "build"
    /\ built' = built + 1
    /\ loop' = IF loop = "none" THEN "idle" ELSE loop
    /\ Goto(r, "store")
    /\ UNCHANGED <<stored, lock, switchVars, watcherVars, selectorVars>>

StoreChannel(r) ==
    /\ rpc[r].pc = "store"
    /\ stored' = TRUE
    /\ lock' = NoChild
    /\ Goto(r, "select")
    /\ UNCHANGED <<built, switchVars, loop, watcherVars, selectorVars>>

\* Mutant: the selector is read without waiting for the resolver.
SelectConfigAtOnce(r) ==
    /\ rpc[r].pc = "select"
    /\ rpc' = [rpc EXCEPT ![r].pc = "snapshot", ![r].epoch = selector.epoch]
    /\ UNCHANGED <<channelVars, switchVars, loop, watcherVars, selectorVars>>

\* select_config waits for resolved, then reads the current selector, which lets
\* the call go on or fails it.
SelectConfig(r) ==
    /\ rpc[r].pc = "select" /\ selector.resolved
    /\ \/ rpc' = [rpc EXCEPT ![r].pc = "snapshot", ![r].epoch = selector.epoch]
       \/ rpc' = [rpc EXCEPT ![r] = IdleCall]
    /\ UNCHANGED <<channelVars, switchVars, loop, watcherVars, selectorVars>>

\* Watcher::snapshot.
TakeSnapshot(r) ==
    /\ rpc[r].pc = "snapshot"
    /\ rpc' = [rpc EXCEPT ![r] = [IdleCall EXCEPT !.pc = "pick", !.snap = current]]
    /\ UNCHANGED <<channelVars, switchVars, loop, watcherVars, selectorVars>>

\* Mutant: an IDLE picker schedules work on the second use only.
PickWakesLate(r) ==
    /\ rpc[r].pc = "pick"
    /\ LET s == rpc[r].snap
           wakes == s.state = "IDLE" /\ s.ptr \in triggered
       IN  /\ IF s.state \in {"READY", "TRANSIENT_FAILURE"}
              THEN rpc' = [rpc EXCEPT ![r] = IdleCall]
              ELSE Goto(r, "register")
           /\ work' = IF wakes THEN work \cup {s.handle} ELSE work
           /\ triggered' = IF s.state = "IDLE" THEN triggered \cup {s.ptr} ELSE triggered
    /\ UNCHANGED <<channelVars, switchVars, loop, current, selectorVars>>

\* pick(): READY and TRANSIENT_FAILURE end it (the call goes to a subchannel or
\* fails), the others queue it; an IDLE picker schedules work the first time.
Pick(r) ==
    /\ rpc[r].pc = "pick"
    /\ LET s == rpc[r].snap
           wakes == s.state = "IDLE" /\ s.ptr \notin triggered
       IN  /\ IF s.state \in {"READY", "TRANSIENT_FAILURE"}
              THEN rpc' = [rpc EXCEPT ![r] = IdleCall]
              ELSE Goto(r, "register")
           /\ work' = IF wakes THEN work \cup {s.handle} ELSE work
           /\ triggered' = IF wakes THEN triggered \cup {s.ptr} ELSE triggered
    /\ UNCHANGED <<channelVars, switchVars, loop, current, selectorVars>>

\* Snapshot::next: the Notified future is created ...
Register(r) ==
    /\ rpc[r].pc = "register"
    /\ Goto(r, "compare")
    /\ UNCHANGED <<channelVars, switchVars, loop, watcherVars, selectorVars>>

\* ... the current LbState is loaded and compared by address ...
Compare(r) ==
    /\ rpc[r].pc = "compare"
    /\ rpc' = IF current.ptr # rpc[r].snap.ptr
              THEN [rpc EXCEPT ![r] = [IdleCall EXCEPT !.pc = "pick", !.snap = current]]
              ELSE [rpc EXCEPT ![r].pc = "await"]
    /\ UNCHANGED <<channelVars, switchVars, loop, watcherVars, selectorVars>>

\* ... and if it is the one the call holds, the call sleeps until notified.
Wake(r) ==
    /\ rpc[r].pc = "await" /\ rpc[r].notified
    /\ rpc' = [rpc EXCEPT ![r].pc = "register", ![r].notified = FALSE]
    /\ UNCHANGED <<channelVars, switchVars, loop, watcherVars, selectorVars>>

\* The application drops a call that is waiting.
Abandon(r) ==
    /\ rpc[r].pc \in {"select", "await"}
    /\ rpc' = [rpc EXCEPT ![r] = IdleCall]
    /\ UNCHANGED <<channelVars, switchVars, loop, watcherVars, selectorVars>>

CallStep(r) ==
    \/ TakeLock(r) \/ Recheck(r) \/ Build(r) \/ StoreChannel(r)
    \/ SelectConfig(r) \/ TakeSnapshot(r) \/ Pick(r)
    \/ Register(r) \/ Compare(r) \/ Wake(r)

IdleWorkOf(h) == \E s \in {"CONNECTING", "TRANSIENT_FAILURE"} : IdleWork(h, s)

LoopStep ==
    \/ Notify \/ SelectorStore \/ SelectorResolved
    \/ \E h \in Handle : IdleWorkOf(h)

Next ==
    \/ LoopStep
    \/ \E n \in Name, publishes \in BOOLEAN, s \in ConnectivityStates :
          ResolverUpdate(n, publishes, s)
    \/ \E c \in Children, s \in ConnectivityStates : ChildWork(c, s)
    \/ \E r \in Rpc : StartCall(r) \/ CallStep(r) \/ Abandon(r)

\* The runtime polls woken calls and the loop drains its queue.  The resolver,
\* the network and new calls owe nothing.  The loop's own items compete with
\* other work, but the queue is first in, first out: each handle's turn comes.
Fairness ==
    /\ \A r \in Rpc : WF_vars(CallStep(r))
    /\ WF_vars(Notify \/ SelectorStore \/ SelectorResolved)
    /\ \A h \in Handle : SF_vars(IdleWorkOf(h))

SafetySpec == Init /\ [][Next]_vars

Spec == SafetySpec /\ Fairness

-----------------------------------------------------------------------------
(* Properties.                                                             *)

\* The picker calls use is the active policy's latest, whenever the loop is
\* between items: no call waits on, or is sent by, a policy that was torn down.
PublishedIsActive ==
    loop = "idle" /\ active # NoChild =>
        current.handle = active.handle /\ current.state = active.state

\* "When the pending policy leaves the CONNECTING state, or when the active policy
\* is not READY, graceful switch will promote the pending policy": between work
\* items a pending policy is still connecting behind a working one.
SwitchIsPrompt ==
    loop = "idle" /\ pending # NoChild =>
        pending.state = "CONNECTING" /\ active.state = "READY"

\* The policy that gets resolver updates, and only that one, may ask for more:
\* whatever sequence of configs starts, calls off and completes switches.
LatestMayResolve ==
    active # NoChild =>
        IF pending = NoChild THEN ~active.suppress
        ELSE active.suppress /\ ~pending.suppress

\* Concurrent first calls build one ActiveChannel.
OneChannel == built <= 1

\* gRFC A31, as channel.rs puts it: "the LB policy's update must be called and
\* return before the new config selector is used".  A call that takes a picker after it
\* was configured by some resolver update never takes one from before the LB
\* policy handled that update, and none is configured before the first.
ConfigNotAhead ==
    \A r \in Rpc : rpc[r].pc = "snapshot" => rpc[r].epoch \in 1 .. lbEpoch

\* A queued call that holds a superseded picker is woken: no update falls between
\* its check and its sleep, and none looks like the one it holds because it was
\* allocated where that one was.
NoMissedPicker ==
    \A r \in Rpc :
        (rpc[r].pc = "await" /\ rpc[r].snap # current) ~> rpc[r].pc # "await"

\* A call queued by an IDLE picker gets another one: the work it scheduled reaches
\* the policy that owns the picker, or that policy has been replaced.
IdleIsLeft ==
    \A r \in Rpc :
        (rpc[r].pc = "await" /\ rpc[r].snap.state = "IDLE") ~> rpc[r].pc # "await"
=============================================================================
