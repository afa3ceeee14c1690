--------------------------- MODULE CircuitBreaker ---------------------------
(***************************************************************************)
(* gRFC A32 circuit breaking of xDS clusters                               *)
(* (tonic-xds/src/client/circuit_breaking.rs).  Calls reserve a slot of an *)
(* in-flight counter that all channels of the process share by {cluster,   *)
(* EDS service name}; CDS updates replace a cluster's limit and counter    *)
(* while calls run; a counter nobody uses is removed from the global map.  *)
(*                                                                         *)
(* Counters and runtime configs are Arcs.  Their strong counts are not     *)
(* kept as numbers but read off the places that hold a reference.  A step  *)
(* is one access to an atomic, an ArcSwap or the (locked) map.             *)
(***************************************************************************)
EXTENDS Naturals, FiniteSets

CONSTANTS Key,      \* {cluster, EDS service name}
          Cluster,  \* a ClusterCircuitBreakerState: one cluster of one channel
          Call,     \* endpoint attempts
          Counter,  \* identities of InFlightCounters
          Config,   \* identities of CircuitBreakerRuntimeConfigs
          Cds,      \* what CDS may give each cluster: a key and max_requests
          None

ASSUME CdsAssumption == Cds \in [Cluster -> SUBSET (Key \X Nat)]

ASSUME FiniteAssumption == IsFiniteSet(Call) /\ IsFiniteSet(Cluster)

ASSUME NoneAssumption == None \notin Key \cup Counter \cup Config

\* Threads are told apart by what they are.
ASSUME ThreadAssumption == Call \cap Cluster = {}

VARIABLES
    counters,   \* ClusterRequestCounterState.counters, the process-wide map
    counter,    \* the InFlightCounters
    configs,    \* the live CircuitBreakerRuntimeConfigs
    current,    \* ClusterCircuitBreakerState.config
    update,     \* the CDS watch of each cluster, and the drop of its registry
    call        \* the endpoint attempts

vars == <<counters, counter, configs, current, update, call>>

RuntimeConfig == [key : Key, max_requests : Nat, counter : Counter]

ASSUME NoneIsNoConfig == None \notin RuntimeConfig

UpdatePC == {"idle", "compare", "swap", "deactivate", "drop", "cleanup"}

CallPC == {"idle", "load", "exchange", "running", "drop", "check", "forget", "cleanup"}

TypeOK ==
    /\ counters \in [Key -> Counter \cup {None}]
    /\ counter \in [Counter -> [in_flight : Nat, active_refs : Nat]]
    /\ configs \in [Config -> RuntimeConfig \cup {None}]
    /\ current \in [Cluster -> Config \cup {None}]
    /\ update \in [Cluster -> [pc : UpdatePC, key : Key \cup {None},
                               max_requests : Nat,
                               counter : Counter \cup {None},
                               config : Config \cup {None}]]
    /\ call \in [Call -> [pc : CallPC, config : Config \cup {None}, key : Key \cup {None},
                          counter : Counter \cup {None}, seen : Nat, unused : BOOLEAN]]

IdleUpdate == [pc |-> "idle", key |-> None, max_requests |-> 0, counter |-> None,
               config |-> None]

IdleCall == [pc |-> "idle", config |-> None, key |-> None, counter |-> None, seen |-> 0,
             unused |-> FALSE]

Unused == [in_flight |-> 0, active_refs |-> 0]

Init ==
    /\ counters = [k \in Key |-> None]
    /\ counter = [n \in Counter |-> Unused]
    /\ configs = [g \in Config |-> None]
    /\ current = [s \in Cluster |-> None]
    /\ update = [s \in Cluster |-> IdleUpdate]
    /\ call = [c \in Call |-> IdleCall]

-----------------------------------------------------------------------------
(* References.                                                             *)

\* Who holds an Arc of config g.
ConfigHolders(g) ==
    {s \in Cluster : current[s] = g \/ update[s].config = g} \cup {c \in Call : call[c].config = g}

\* Who holds an Arc of counter n, the map aside.
CounterHolders(n) ==
    {g \in Config : configs[g] # None /\ configs[g].counter = n}
        \cup {s \in Cluster : update[s].counter = n} \cup {c \in Call : call[c].counter = n}

\* Identities that new Arcs may get.  They are only compared for equality, so one
\* is as good as another.
FreeCounters == {n \in Counter : CounterHolders(n) = {} /\ \A k \in Key : counters[k] # n}

FreeConfigs == {g \in Config : configs[g] = None}

\* The configs without g, if nobody but t holds it: t drops its reference.
Without(g, t) == IF ConfigHolders(g) \subseteq {t} THEN [configs EXCEPT ![g] = None] ELSE configs

\* InFlightCounter::is_unused.
IsUnused(n) == counter[n].in_flight = 0 /\ counter[n].active_refs = 0

\* Mutant: the map drops a counter though somebody is about to use it.
RemoveUnused(k) ==
    counters' = IF counters[k] # None /\ IsUnused(counters[k])
                THEN [counters EXCEPT ![k] = None] ELSE counters

\* ClusterRequestCounters::cleanup_if_unused, with the map's shard locked.
CleanupIfUnused(k) ==
    counters' =
        IF counters[k] # None /\ IsUnused(counters[k]) /\ CounterHolders(counters[k]) = {}
        THEN [counters EXCEPT ![k] = None] ELSE counters

-----------------------------------------------------------------------------
(* CDS updates.  One task watches a cluster of a channel, so update_lock   *)
(* is never contended.                                                     *)

Sets(s, pc) == update' = [update EXCEPT ![s].pc = pc]

\* set_cluster_config begins: ClusterRequestCounters::counter finds the counter
\* of k in the map, or inserts a new one.
SetClusterConfig(s, k, max) ==
    /\ update[s].pc = "idle"
    /\ counters[k] = None => FreeCounters # {}
    /\ LET n == IF counters[k] # None THEN counters[k] ELSE CHOOSE f \in FreeCounters : TRUE
       IN  /\ counters' = [counters EXCEPT ![k] = n]
           /\ counter' = IF counters[k] # None THEN counter ELSE [counter EXCEPT ![n] = Unused]
           /\ update' = [update EXCEPT ![s] = [pc |-> "compare", key |-> k, max_requests |-> max,
                                               counter |-> n, config |-> None]]
    /\ UNCHANGED <<configs, current, call>>

\* The config cluster s has belongs to another counter, or it has none.
KeyChanged(s) == current[s] = None \/ configs[current[s]].key # update[s].key

\* Mutant: a new config is not counted as a user.
ActivateNever(s) == counter

\* Mutant: every accepted config is counted, even one of the same key.
ActivateAlways(s) == [counter EXCEPT ![update[s].counter].active_refs = @ + 1]

\* InFlightCounter::activate, when the key has changed.
Activate(s) ==
    IF KeyChanged(s) THEN [counter EXCEPT ![update[s].counter].active_refs = @ + 1] ELSE counter

\* update_state_config up to the swap: nothing to do for an equal config.
Compare(s) ==
    /\ update[s].pc = "compare"
    /\ IF ~KeyChanged(s) /\ configs[current[s]].max_requests = update[s].max_requests
       THEN update' = [update EXCEPT ![s] = IdleUpdate] /\ UNCHANGED counter
       ELSE Sets(s, "swap") /\ counter' = Activate(s)
    /\ UNCHANGED <<counters, configs, current, call>>

\* The new config is swapped in.  A previous one of the same counter is dropped
\* on the spot, any other is still to be deactivated.
Swap(s) ==
    /\ update[s].pc = "swap"
    /\ FreeConfigs # {}
    /\ LET g == CHOOSE f \in FreeConfigs : TRUE
           new == [key |-> update[s].key, max_requests |-> update[s].max_requests,
                   counter |-> update[s].counter]
           old == IF KeyChanged(s) THEN configs ELSE Without(current[s], s)
       IN  /\ configs' = [old EXCEPT ![g] = new]
           /\ current' = [current EXCEPT ![s] = g]
    /\ update' = [update EXCEPT ![s] =
                     IF current[s] # None /\ KeyChanged(s)
                     THEN [IdleUpdate EXCEPT !.pc = "deactivate", !.config = current[s]]
                     ELSE IdleUpdate]
    /\ UNCHANGED <<counters, counter, call>>

\* ClusterCircuitBreakerRegistryInner::drop, for one cluster: the channel is gone.
\* Its calls may go on.  The cluster of a later channel starts without config too.
DropRegistry(s) ==
    /\ update[s].pc = "idle" /\ current[s] # None
    /\ current' = [current EXCEPT ![s] = None]
    /\ update' = [update EXCEPT ![s] =
                     [IdleUpdate EXCEPT !.pc = "deactivate", !.config = current[s]]]
    /\ UNCHANGED <<counters, counter, configs, call>>

\* deactivate_config: InFlightCounter::deactivate,
Deactivate(s) ==
    /\ update[s].pc = "deactivate"
    /\ counter' = [counter EXCEPT ![configs[update[s].config].counter].active_refs = @ - 1]
    /\ Sets(s, "drop")
    /\ UNCHANGED <<counters, configs, current, call>>

\* then the reference to the config goes,
DropPrevious(s) ==
    /\ update[s].pc = "drop"
    /\ configs' = Without(update[s].config, s)
    /\ update' = [update EXCEPT ![s] = [IdleUpdate EXCEPT
                     !.pc = "cleanup", !.key = configs[update[s].config].key]]
    /\ UNCHANGED <<counters, counter, current, call>>

\* then the counter if it was the last.
UpdateCleanup(s) ==
    /\ update[s].pc = "cleanup"
    /\ CleanupIfUnused(update[s].key)
    /\ update' = [update EXCEPT ![s] = IdleUpdate]
    /\ UNCHANGED <<counter, configs, current, call>>

-----------------------------------------------------------------------------
(* Endpoint attempts.                                                      *)

\* ClusterCircuitBreaker::acquire: without a config the call goes on without a
\* slot and does nothing here.
Acquire(c, s) ==
    /\ call[c].pc = "idle" /\ current[s] # None
    /\ call' = [call EXCEPT ![c].pc = "load", ![c].config = current[s]]
    /\ UNCHANGED <<counters, counter, configs, current, update>>

\* Mutant: the permit is built before try_acquire has said no.
PermitFirst(c) ==
    /\ call[c].pc = "load"
    /\ LET g == configs[call[c].config]
           seen == counter[g.counter].in_flight
       IN  call' = [call EXCEPT ![c].pc = IF seen >= g.max_requests THEN "running" ELSE "exchange",
                                ![c].seen = IF seen >= g.max_requests THEN 0 ELSE seen]
    /\ UNCHANGED <<counters, counter, configs, current, update>>

\* try_acquire loads the counter: no slot is free, or it goes on to take one.
LoadInFlight(c) ==
    /\ call[c].pc = "load"
    /\ LET g == configs[call[c].config]
           seen == counter[g.counter].in_flight
       IN  call' = [call EXCEPT ![c].pc = IF seen >= g.max_requests THEN "drop" ELSE "exchange",
                                ![c].seen = IF seen >= g.max_requests THEN 0 ELSE seen]
    /\ UNCHANGED <<counters, counter, configs, current, update>>

\* Mutant: the slot is taken whatever others did since the load.
StoreSeen(c) ==
    /\ call[c].pc = "exchange"
    /\ counter' = [counter EXCEPT ![configs[call[c].config].counter].in_flight = call[c].seen + 1]
    /\ call' = [call EXCEPT ![c].pc = "running", ![c].seen = 0]
    /\ UNCHANGED <<counters, configs, current, update>>

\* compare_exchange_weak succeeds: the call has a permit.
TakeSlot(c) ==
    /\ call[c].pc = "exchange"
    /\ counter[configs[call[c].config].counter].in_flight = call[c].seen
    /\ counter' = [counter EXCEPT ![configs[call[c].config].counter].in_flight = @ + 1]
    /\ call' = [call EXCEPT ![c].pc = "running", ![c].seen = 0]
    /\ UNCHANGED <<counters, configs, current, update>>

\* It fails, as it may even if the value is the expected one.
ExchangeFails(c) ==
    /\ call[c].pc = "exchange"
    /\ call' = [call EXCEPT ![c].pc = "load", ![c].seen = 0]
    /\ UNCHANGED <<counters, counter, configs, current, update>>

\* The call fails, its body ends, fails or is dropped: the permit is dropped.
Release(c) ==
    /\ call[c].pc = "running"
    /\ counter' = [counter EXCEPT ![configs[call[c].config].counter].in_flight = @ - 1]
    /\ call' = [call EXCEPT ![c].pc = "drop"]
    /\ UNCHANGED <<counters, configs, current, update>>

\* ClusterRequestCounters::drop_config: Arc::into_inner gives the config to who
\* drops the last reference,
DropConfig(c) ==
    /\ call[c].pc = "drop"
    /\ LET g == call[c].config
       IN  /\ configs' = Without(g, c)
           /\ call' = [call EXCEPT ![c] =
                          IF ConfigHolders(g) \subseteq {c}
                          THEN [IdleCall EXCEPT !.pc = "check", !.key = configs[g].key,
                                                !.counter = configs[g].counter]
                          ELSE IdleCall]
    /\ UNCHANGED <<counters, counter, current, update>>

\* who looks whether the counter is unused,
CheckUnused(c) ==
    /\ call[c].pc = "check"
    /\ call' = [call EXCEPT ![c].pc = "forget", ![c].unused = IsUnused(call[c].counter)]
    /\ UNCHANGED <<counters, counter, configs, current, update>>

\* drops its own reference to the counter,
DropCounter(c) ==
    /\ call[c].pc = "forget"
    /\ call' = [call EXCEPT ![c] = IF call[c].unused
                                   THEN [IdleCall EXCEPT !.pc = "cleanup", !.key = call[c].key]
                                   ELSE IdleCall]
    /\ UNCHANGED <<counters, counter, configs, current, update>>

\* and removes it from the map, if it was unused then and is now.
CallCleanup(c) ==
    /\ call[c].pc = "cleanup"
    /\ CleanupIfUnused(call[c].key)
    /\ call' = [call EXCEPT ![c] = IdleCall]
    /\ UNCHANGED <<counter, configs, current, update>>

-----------------------------------------------------------------------------
UpdateStep(s) ==
    \/ \E d \in Cds[s] : SetClusterConfig(s, d[1], d[2])
    \/ Compare(s) \/ Swap(s) \/ DropRegistry(s)
    \/ Deactivate(s) \/ DropPrevious(s) \/ UpdateCleanup(s)

CallStep(c) ==
    \/ \E s \in Cluster : Acquire(c, s)
    \/ LoadInFlight(c) \/ TakeSlot(c) \/ ExchangeFails(c) \/ Release(c)
    \/ DropConfig(c) \/ CheckUnused(c) \/ DropCounter(c) \/ CallCleanup(c)

Next == (\E s \in Cluster : UpdateStep(s)) \/ (\E c \in Call : CallStep(c))

Spec == Init /\ [][Next]_vars

-----------------------------------------------------------------------------
(* Properties.                                                             *)

Live(g) == configs[g] # None

\* A counter that is in use, or about to be, is the one the map has for its
\* key: an update that found a counter, a call that outlives its config and the
\* cleanup of others never leave two counters for one key, over which the
\* limit would not hold.
OneCounter ==
    /\ \A g \in Config : Live(g) => counters[configs[g].key] = configs[g].counter
    /\ \A s \in Cluster :
          update[s].counter # None => counters[update[s].key] = update[s].counter
    /\ \A c \in Call : call[c].counter # None => counters[call[c].key] = call[c].counter

\* Attempts that hold a slot of counter n.
Permits(n) == {c \in Call : call[c].pc = "running" /\ configs[call[c].config].counter = n}

\* Attempts that hold a slot for key k, of whatever counter.
InFlight(k) == {c \in Call : call[c].pc = "running" /\ configs[call[c].config].key = k}

\* What counts as a user of counter n: the config of a cluster, the one that is
\* about to replace it, and one that is still to be deactivated.
Users(n) ==
    {<<"current", s>> : s \in {x \in Cluster : current[x] # None
                                  /\ configs[current[x]].counter = n}}
        \cup {<<"next", s>> : s \in {x \in Cluster : update[x].pc = "swap"
                                  /\ update[x].counter = n /\ KeyChanged(x)}}
        \cup {<<"previous", s>> : s \in {x \in Cluster : update[x].pc = "deactivate"
                                  /\ configs[update[x].config].counter = n}}

\* A counter's in_flight is the number of attempts that hold its slots, through
\* every change of config: no slot is lost and none is given back twice, so
\* release() never meets its assertion.
SlotsBalanced == \A n \in Counter : counter[n].in_flight = Cardinality(Permits(n))

\* A counter's active_refs is the number of configs in force that count by it:
\* deactivate() never meets its assertion, and a counter is not taken for unused
\* while some channel's config refers to it.
UsersBalanced == \A n \in Counter : counter[n].active_refs = Cardinality(Users(n))

\* An attempt is let through only while fewer than the max_requests of its
\* config hold a slot for the same {cluster, EDS service name}, whatever other
\* channels, configs and cleanups do meanwhile.
LimitRespected ==
    [][\A c \in Call, k \in Key :
          call[c].pc # "running" /\ c \in InFlight(k)'
              => Cardinality(InFlight(k)') <= configs'[call'[c].config].max_requests]_vars

\* drop_config: a counter that no request and no config uses any more is
\* removed by whoever drops the last reference.
CleanedUp ==
    (\A s \in Cluster : update[s].pc = "idle") /\ (\A c \in Call : call[c].pc = "idle")
        => \A k \in Key :
              counters[k] # None =>
                  \E s \in Cluster : current[s] # None /\ configs[current[s]].key = k

=============================================================================
