------------------------ MODULE CircuitBreakerProofs ------------------------
(***************************************************************************)
(* Proofs about CircuitBreaker, for any keys, clusters, calls and limits:  *)
(* every key has one counter, its numbers are those of the calls that hold *)
(* a slot and of the configs in force, and the limit holds.                *)
(***************************************************************************)
EXTENDS CircuitBreaker, TLAPS, FiniteSetTheorems

\* The references that an update and a call hold at each of their steps.
UpdateShape(u) ==
    /\ u.counter # None <=> u.pc \in {"compare", "swap"}
    /\ u.config # None <=> u.pc \in {"deactivate", "drop"}
    /\ u.pc \in {"compare", "swap", "cleanup"} => u.key # None

CallShape(a) ==
    /\ a.config # None <=> a.pc \in {"load", "exchange", "running", "drop"}
    /\ a.counter # None <=> a.pc \in {"check", "forget"}
    /\ a.pc \in {"check", "forget", "cleanup"} => a.key # None

\* What a cluster refers to exists, and the counter it has found is the map's.
ClusterSound(s) ==
    /\ UpdateShape(update[s])
    /\ current[s] # None => Live(current[s])
    /\ update[s].config # None => Live(update[s].config) /\ update[s].config # current[s]
    /\ update[s].counter # None => counters[update[s].key] = update[s].counter

\* The same of a call, which goes on to take a slot only below its limit.
CallSound(c) ==
    /\ CallShape(call[c])
    /\ call[c].config # None => Live(call[c].config)
    /\ call[c].counter # None => counters[call[c].key] = call[c].counter
    /\ call[c].pc = "exchange" => call[c].seen < configs[call[c].config].max_requests

ConfigSound(g) == Live(g) => counters[configs[g].key] = configs[g].counter

\* No counter serves two keys.
OneKey == \A j, k \in Key : counters[j] # None /\ counters[j] = counters[k] => j = k

Consistent ==
    /\ \A s \in Cluster : ClusterSound(s)
    /\ \A c \in Call : CallSound(c)
    /\ \A g \in Config : ConfigSound(g)
    /\ OneKey

IInv ==
    /\ TypeOK
    /\ Consistent
    /\ SlotsBalanced
    /\ UsersBalanced

-----------------------------------------------------------------------------
(* Permits and users, one at a time.                                       *)

\* Call c holds a slot of counter n.
Slot(c, n) == call[c].pc = "running" /\ configs[call[c].config].counter = n

Tag == {"current", "next", "previous"}

\* Cluster s is a user of counter n in the way of tag t.
Use(t, s, n) ==
    \/ t = "current" /\ current[s] # None /\ configs[current[s]].counter = n
    \/ t = "next" /\ update[s].pc = "swap" /\ update[s].counter = n /\ KeyChanged(s)
    \/ t = "previous" /\ update[s].pc = "deactivate" /\ configs[update[s].config].counter = n

\* Permits are the slots, before and after a step.
LEMMA PermitsAreSlots ==
    ASSUME NEW n
    PROVE  /\ Permits(n) = {c \in Call : Slot(c, n)}
           /\ Permits(n)' = {c \in Call : Slot(c, n)'}
           /\ IsFiniteSet(Permits(n)) /\ IsFiniteSet(Permits(n)')
  <1>1. /\ Permits(n) = {c \in Call : Slot(c, n)}
        /\ Permits(n)' = {c \in Call : Slot(c, n)'}
    BY DEF Permits, Slot
  <1>2. Permits(n) \subseteq Call /\ Permits(n)' \subseteq Call
    BY <1>1
  <1> QED BY <1>1, <1>2, FiniteAssumption, FS_Subset

\* Users are the uses, before and after a step.
LEMMA UsersAreUses ==
    ASSUME NEW n
    PROVE  /\ Users(n) = {p \in Tag \X Cluster : Use(p[1], p[2], n)}
           /\ Users(n)' = {p \in Tag \X Cluster : Use(p[1], p[2], n)'}
           /\ IsFiniteSet(Users(n)) /\ IsFiniteSet(Users(n)')
  <1>1. ASSUME NEW p \in Users(n) PROVE p \in Tag \X Cluster /\ Use(p[1], p[2], n)
    BY DEF Users, Use, Tag
  <1>2. ASSUME NEW p \in Tag \X Cluster, Use(p[1], p[2], n) PROVE p \in Users(n)
    <2>1. p = <<p[1], p[2]>> /\ p[1] \in Tag /\ p[2] \in Cluster
      OBVIOUS
    <2> QED BY <1>2, <2>1 DEF Users, Use, Tag
  <1>3. ASSUME NEW p \in Users(n)' PROVE p \in Tag \X Cluster /\ Use(p[1], p[2], n)'
    BY DEF Users, Use, Tag
  <1>4. ASSUME NEW p \in Tag \X Cluster, Use(p[1], p[2], n)' PROVE p \in Users(n)'
    <2>1. p = <<p[1], p[2]>> /\ p[1] \in Tag /\ p[2] \in Cluster
      OBVIOUS
    <2> QED BY <1>4, <2>1 DEF Users, Use, Tag
  <1>5. Users(n) = {p \in Tag \X Cluster : Use(p[1], p[2], n)}
    BY <1>1, <1>2
  <1>6. Users(n)' = {p \in Tag \X Cluster : Use(p[1], p[2], n)'}
    BY <1>3, <1>4
  <1>7. IsFiniteSet(Tag \X Cluster)
    <2>1. IsFiniteSet({"current"}) /\ IsFiniteSet({"next"}) /\ IsFiniteSet({"previous"})
      BY FS_Singleton
    <2>2. IsFiniteSet({"current"} \cup {"next"})
      BY <2>1, FS_Union
    <2>3. IsFiniteSet(({"current"} \cup {"next"}) \cup {"previous"})
      BY <2>1, <2>2, FS_Union
    <2>4. Tag = ({"current"} \cup {"next"}) \cup {"previous"}
      BY DEF Tag
    <2> QED BY <2>3, <2>4, FiniteAssumption, FS_Product
  <1>8. Users(n) \subseteq Tag \X Cluster /\ Users(n)' \subseteq Tag \X Cluster
    BY <1>5, <1>6
  <1> QED BY <1>5, <1>6, <1>7, <1>8, FS_Subset

\* A step that leaves the slots and in_flight alone keeps them balanced.
LEMMA SlotsFrame ==
    ASSUME SlotsBalanced,
           \A c \in Call, n \in Counter : Slot(c, n)' <=> Slot(c, n),
           \A n \in Counter : counter'[n].in_flight = counter[n].in_flight
    PROVE  SlotsBalanced'
  <1>1. \A n \in Counter : Permits(n)' = Permits(n)
    BY PermitsAreSlots
  <1> QED BY <1>1 DEF SlotsBalanced

\* A step that leaves the uses and active_refs alone keeps them balanced.
LEMMA UsersFrame ==
    ASSUME UsersBalanced,
           \A t \in Tag, s \in Cluster, n \in Counter : Use(t, s, n)' <=> Use(t, s, n),
           \A n \in Counter : counter'[n].active_refs = counter[n].active_refs
    PROVE  UsersBalanced'
  <1>1. ASSUME NEW n \in Counter PROVE Users(n)' = Users(n)
    <2>1. \A p \in Tag \X Cluster : Use(p[1], p[2], n)' <=> Use(p[1], p[2], n)
      OBVIOUS
    <2> QED BY <2>1, UsersAreUses
  <1> QED BY <1>1 DEF UsersBalanced

-----------------------------------------------------------------------------
(* What a step of one thread leaves alone.                                 *)

\* A step keeps cluster s, and the configs it refers to.
SameCluster(s) ==
    /\ current'[s] = current[s] /\ update'[s] = update[s]
    /\ current[s] # None => configs'[current[s]] = configs[current[s]]
    /\ update[s].config # None => configs'[update[s].config] = configs[update[s].config]

SameCall(c) ==
    /\ call'[c] = call[c]
    /\ call[c].config # None => configs'[call[c].config] = configs[call[c].config]

\* A step takes no counter out of the map that somebody refers to.
MapKept ==
    \A k \in Key : counters'[k] = counters[k] \/ counters[k] = None
                       \/ CounterHolders(counters[k]) = {}

\* A cluster that is left alone stays sound, and what it uses stays the same.
LEMMA SameClusterSound ==
    ASSUME TypeOK, NEW s \in Cluster, ClusterSound(s), SameCluster(s), MapKept
    PROVE  /\ ClusterSound(s)'
           /\ \A t \in Tag, n \in Counter : Use(t, s, n)' <=> Use(t, s, n)
  <1>1. UpdateShape(update[s])
    BY DEF ClusterSound
  <1>2. ASSUME update[s].counter # None
        PROVE  counters'[update[s].key] = update[s].counter
    <2>1. update[s].key \in Key /\ counters[update[s].key] = update[s].counter
      BY <1>1, <1>2 DEF ClusterSound, UpdateShape, TypeOK
    <2>2. s \in CounterHolders(update[s].counter)
      BY DEF CounterHolders
    <2> QED BY <1>2, <2>1, <2>2 DEF MapKept
  <1>3. ClusterSound(s)'
    BY <1>1, <1>2 DEF ClusterSound, SameCluster, Live
  <1>4. update[s].pc = "deactivate" => update[s].config # None
    BY <1>1 DEF UpdateShape
  <1> QED BY <1>3, <1>4 DEF SameCluster, Use, KeyChanged

\* So does a call, with its slot,
LEMMA SameCallSound ==
    ASSUME TypeOK, NEW c \in Call, CallSound(c), SameCall(c), MapKept
    PROVE  /\ CallSound(c)'
           /\ \A n \in Counter : Slot(c, n)' <=> Slot(c, n)
  <1>1. CallShape(call[c])
    BY DEF CallSound
  <1>2. ASSUME call[c].counter # None
        PROVE  counters'[call[c].key] = call[c].counter
    <2>1. call[c].key \in Key /\ counters[call[c].key] = call[c].counter
      BY <1>1, <1>2 DEF CallSound, CallShape, TypeOK
    <2>2. c \in CounterHolders(call[c].counter)
      BY DEF CounterHolders
    <2> QED BY <1>2, <2>1, <2>2 DEF MapKept
  <1>3. call[c].pc \in {"running", "exchange"} => call[c].config # None
    BY <1>1 DEF CallShape
  <1>4. CallSound(c)'
    BY <1>1, <1>2, <1>3 DEF CallSound, SameCall, Live
  <1> QED BY <1>3, <1>4 DEF SameCall, Slot

\* and a config.
LEMMA SameConfigSound ==
    ASSUME TypeOK, NEW g \in Config, ConfigSound(g), configs'[g] = configs[g], MapKept
    PROVE  ConfigSound(g)'
  <1> SUFFICES ASSUME configs[g] # None PROVE counters'[configs[g].key] = configs[g].counter
    BY DEF ConfigSound, Live
  <1>1. configs[g] \in RuntimeConfig
    BY DEF TypeOK
  <1>2. configs[g].key \in Key /\ counters[configs[g].key] = configs[g].counter
    BY <1>1 DEF RuntimeConfig, ConfigSound, Live
  <1>3. g \in CounterHolders(configs[g].counter) /\ configs[g].counter # None
    BY <1>1, NoneAssumption DEF CounterHolders, RuntimeConfig
  <1> QED BY <1>2, <1>3 DEF MapKept

\* A step of cluster s.
LEMMA ClusterFrame ==
    ASSUME TypeOK, Consistent, NEW s \in Cluster,
           \A x \in Cluster \ {s} : SameCluster(x),
           \A c \in Call : SameCall(c),
           \A g \in Config : configs'[g] = configs[g] \/ ConfigSound(g)',
           MapKept, OneKey', ClusterSound(s)'
    PROVE  /\ Consistent'
           /\ \A c \in Call, n \in Counter : Slot(c, n)' <=> Slot(c, n)
           /\ \A t \in Tag, x \in Cluster \ {s}, n \in Counter : Use(t, x, n)' <=> Use(t, x, n)
  <1>1. \A x \in Cluster \ {s} :
            /\ ClusterSound(x)'
            /\ \A t \in Tag, n \in Counter : Use(t, x, n)' <=> Use(t, x, n)
    BY SameClusterSound DEF Consistent
  <1>2. \A c \in Call : /\ CallSound(c)'
                        /\ \A n \in Counter : Slot(c, n)' <=> Slot(c, n)
    BY SameCallSound DEF Consistent
  <1>3. \A g \in Config : ConfigSound(g)'
    BY SameConfigSound DEF Consistent
  <1>4. Consistent'
    BY <1>1, <1>2, <1>3 DEF Consistent
  <1> QED BY <1>1, <1>2, <1>4

\* A step of call c.
LEMMA CallFrame ==
    ASSUME TypeOK, Consistent, NEW c \in Call,
           \A x \in Cluster : SameCluster(x),
           \A d \in Call \ {c} : SameCall(d),
           \A g \in Config : configs'[g] = configs[g] \/ ConfigSound(g)',
           MapKept, OneKey', CallSound(c)'
    PROVE  /\ Consistent'
           /\ \A t \in Tag, x \in Cluster, n \in Counter : Use(t, x, n)' <=> Use(t, x, n)
           /\ \A d \in Call \ {c}, n \in Counter : Slot(d, n)' <=> Slot(d, n)
  <1>1. \A x \in Cluster :
            /\ ClusterSound(x)'
            /\ \A t \in Tag, n \in Counter : Use(t, x, n)' <=> Use(t, x, n)
    BY SameClusterSound DEF Consistent
  <1>2. \A d \in Call \ {c} : /\ CallSound(d)'
                              /\ \A n \in Counter : Slot(d, n)' <=> Slot(d, n)
    BY SameCallSound DEF Consistent
  <1>3. \A g \in Config : ConfigSound(g)'
    BY SameConfigSound DEF Consistent
  <1>4. Consistent'
    BY <1>1, <1>2, <1>3 DEF Consistent
  <1> QED BY <1>1, <1>2, <1>4

\* Who drops a reference to config g leaves alone the configs that others refer to.
LEMMA WithoutSound ==
    ASSUME TypeOK, NEW g \in Config, NEW t
    PROVE  LET w == Without(g, t)
           IN  /\ w \in [Config -> RuntimeConfig \cup {None}]
               /\ \A h \in Config : h # g => w[h] = configs[h]
               /\ \A h \in Config : w[h] = configs[h] \/ w[h] = None
               /\ \A x \in Cluster : x # t =>
                     /\ current[x] # None => w[current[x]] = configs[current[x]]
                     /\ update[x].config # None => w[update[x].config] = configs[update[x].config]
               /\ \A c \in Call : c # t /\ call[c].config # None =>
                         w[call[c].config] = configs[call[c].config]
  <1> DEFINE w == Without(g, t)
  <1>1. configs \in [Config -> RuntimeConfig \cup {None}]
    BY DEF TypeOK
  <1>2. CASE ConfigHolders(g) \subseteq {t}
    <2>1. w = [configs EXCEPT ![g] = None]
      BY <1>2 DEF Without
    <2>2. \A h \in Config : h # g => w[h] = configs[h]
      BY <1>1, <2>1
    <2>3. \A x \in Cluster : x # t => current[x] # g /\ update[x].config # g
      BY <1>2 DEF ConfigHolders
    <2>4. \A c \in Call : c # t => call[c].config # g
      BY <1>2 DEF ConfigHolders
    <2>5. /\ \A x \in Cluster : /\ current[x] # None => current[x] \in Config
                                /\ update[x].config # None => update[x].config \in Config
          /\ \A c \in Call : call[c].config # None => call[c].config \in Config
      BY DEF TypeOK
    <2>6. w \in [Config -> RuntimeConfig \cup {None}] /\ w[g] = None
      BY <1>1, <2>1
    <2> HIDE DEF w
    <2>7. /\ w \in [Config -> RuntimeConfig \cup {None}]
          /\ \A h \in Config : h # g => w[h] = configs[h]
          /\ \A h \in Config : w[h] = configs[h] \/ w[h] = None
          /\ \A x \in Cluster : x # t =>
                /\ current[x] # None => w[current[x]] = configs[current[x]]
                /\ update[x].config # None => w[update[x].config] = configs[update[x].config]
          /\ \A c \in Call : c # t /\ call[c].config # None =>
                    w[call[c].config] = configs[call[c].config]
      BY <2>2, <2>3, <2>4, <2>5, <2>6
    <2> QED BY <2>7 DEF w
  <1>3. CASE ~(ConfigHolders(g) \subseteq {t})
    <2>1. w = configs
      BY <1>3 DEF Without
    <2> QED BY <1>1, <2>1
  <1> QED BY <1>2, <1>3

-----------------------------------------------------------------------------
(* The steps of a CDS update.                                              *)

\* Types of what a step reads.
LEMMA Types ==
    ASSUME TypeOK
    PROVE  /\ \A s \in Cluster :
                 /\ update[s] \in [pc : UpdatePC, key : Key \cup {None}, max_requests : Nat,
                                   counter : Counter \cup {None}, config : Config \cup {None}]
                 /\ current[s] \in Config \cup {None}
           /\ \A c \in Call :
                 call[c] \in [pc : CallPC, config : Config \cup {None}, key : Key \cup {None},
                              counter : Counter \cup {None}, seen : Nat, unused : BOOLEAN]
           /\ \A n \in Counter : counter[n] \in [in_flight : Nat, active_refs : Nat]
           /\ \A g \in Config : configs[g] # None => configs[g] \in RuntimeConfig
           /\ \A k \in Key : counters[k] # None => counters[k] \in Counter
  BY DEF TypeOK

\* Nobody uses a counter whose identity is free, so it counts nothing.
LEMMA FreeIsUnused ==
    ASSUME IInv, NEW n \in FreeCounters
    PROVE  n \in Counter /\ counter[n] = Unused
  <1>1. /\ n \in Counter
        /\ \A g \in Config : configs[g] # None => configs[g].counter # n
        /\ \A s \in Cluster : update[s].counter # n
    BY DEF FreeCounters, CounterHolders
  <1>2. Permits(n) = {}
    <2>1. ASSUME NEW c \in Call, Slot(c, n) PROVE FALSE
      <3>1. CallSound(c) /\ call[c].pc = "running"
        BY <2>1 DEF IInv, Consistent, Slot
      <3>2. call[c].config # None /\ Live(call[c].config)
        BY <3>1 DEF CallSound, CallShape
      <3>3. call[c].config \in Config
        BY <3>2 DEF IInv, TypeOK
      <3> QED BY <1>1, <2>1, <3>2, <3>3 DEF Slot, Live
    <2> QED BY <2>1, PermitsAreSlots
  <1>3. Users(n) = {}
    <2>1. ASSUME NEW t \in Tag, NEW s \in Cluster, Use(t, s, n) PROVE FALSE
      <3>1. ClusterSound(s)
        BY DEF IInv, Consistent
      <3>2. /\ current[s] # None => current[s] \in Config
            /\ update[s].config # None => update[s].config \in Config
        BY DEF IInv, TypeOK
      <3> QED BY <1>1, <2>1, <3>1, <3>2 DEF Use, ClusterSound, UpdateShape, Live
    <2>2. ASSUME NEW p \in Tag \X Cluster PROVE ~Use(p[1], p[2], n)
      BY <2>1
    <2> QED BY <2>2, UsersAreUses
  <1>4. counter[n].in_flight = 0 /\ counter[n].active_refs = 0
    BY <1>1, <1>2, <1>3, FS_EmptySet DEF IInv, SlotsBalanced, UsersBalanced
  <1>5. counter[n] \in [in_flight : Nat, active_refs : Nat]
    BY <1>1 DEF IInv, TypeOK
  <1> QED BY <1>1, <1>4, <1>5 DEF Unused

\* The counter found, or inserted, is the map's.
LEMMA SetClusterConfigSound ==
    ASSUME IInv, NEW s \in Cluster, NEW k \in Key, NEW max \in Nat, SetClusterConfig(s, k, max)
    PROVE  IInv'
  <1> DEFINE n == IF counters[k] # None THEN counters[k] ELSE CHOOSE f \in FreeCounters : TRUE
             u == [pc |-> "compare", key |-> k, max_requests |-> max, counter |-> n,
                   config |-> None]
  <1>1. /\ update[s].pc = "idle"
        /\ counters[k] = None => n \in FreeCounters
        /\ counters' = [counters EXCEPT ![k] = n]
        /\ counter' = IF counters[k] # None THEN counter ELSE [counter EXCEPT ![n] = Unused]
        /\ update' = [update EXCEPT ![s] = u]
        /\ configs' = configs /\ current' = current /\ call' = call
    BY DEF SetClusterConfig
  <1>2. n \in Counter
    BY <1>1 DEF IInv, TypeOK, FreeCounters
  <1>3. counters[k] # None => n = counters[k]
    OBVIOUS
  <1> HIDE DEF n
  <1>4. counter' = counter
    <2>1. CASE counters[k] # None
      BY <1>1, <2>1
    <2>2. CASE counters[k] = None
      <3>1. counter[n] = Unused /\ n \in Counter
        BY <1>1, <2>2, FreeIsUnused
      <3>2. counter \in [Counter -> [in_flight : Nat, active_refs : Nat]]
        BY DEF IInv, TypeOK
      <3> QED BY <1>1, <2>2, <3>1, <3>2
    <2> QED BY <2>1, <2>2
  <1>5. TypeOK'
    BY <1>1, <1>2, <1>4 DEF IInv, TypeOK, UpdatePC
  <1>6. MapKept
    BY <1>1, <1>3 DEF MapKept, IInv, TypeOK
  <1>7. OneKey'
    <2>1. ASSUME NEW j \in Key, j # k, counters[j] = n, counters[j] # None PROVE FALSE
      <3>1. counters[k] # None
        BY <1>1, <2>1 DEF FreeCounters
      <3> QED BY <2>1, <3>1, <1>3 DEF IInv, Consistent, OneKey
    <2>2. /\ counters'[k] = n
          /\ \A j \in Key : j # k => counters'[j] = counters[j]
      BY <1>1 DEF IInv, TypeOK
    <2> QED BY <2>1, <2>2 DEF IInv, Consistent, OneKey
  <1>8. update'[s] = u /\ counters'[k] = n
    BY <1>1 DEF IInv, TypeOK
  <1>9. ClusterSound(s)'
    <2>1. n # None /\ k # None
      BY <1>2, NoneAssumption
    <2>2. current[s] # None => Live(current[s])
      BY DEF IInv, Consistent, ClusterSound
    <2> QED BY <1>1, <1>8, <2>1, <2>2 DEF ClusterSound, UpdateShape, Live
  <1>10. \A x \in Cluster \ {s} : SameCluster(x)
    BY <1>1 DEF SameCluster, IInv, TypeOK
  <1>11. \A c \in Call : SameCall(c)
    BY <1>1 DEF SameCall
  <1>12. /\ Consistent'
         /\ \A c \in Call, m \in Counter : Slot(c, m)' <=> Slot(c, m)
         /\ \A t \in Tag, x \in Cluster \ {s}, m \in Counter : Use(t, x, m)' <=> Use(t, x, m)
    BY <1>1, <1>6, <1>7, <1>9, <1>10, <1>11, ClusterFrame DEF IInv
  <1>13. \A t \in Tag, m \in Counter : Use(t, s, m)' <=> Use(t, s, m)
    BY <1>1, <1>8 DEF Use
  <1>14. SlotsBalanced'
    BY <1>4, <1>12, SlotsFrame DEF IInv
  <1>15. UsersBalanced'
    <2>1. \A t \in Tag, x \in Cluster, m \in Counter : Use(t, x, m)' <=> Use(t, x, m)
      BY <1>12, <1>13
    <2> QED BY <1>4, <2>1, UsersFrame DEF IInv
  <1> QED BY <1>5, <1>12, <1>14, <1>15 DEF IInv

\* How the number of a counter's users changes.
LEMMA AddUser ==
    ASSUME NEW n \in Counter, NEW a \in Tag, NEW s \in Cluster, ~Use(a, s, n),
           \A t \in Tag, x \in Cluster : Use(t, x, n)' <=> Use(t, x, n) \/ (t = a /\ x = s)
    PROVE  Cardinality(Users(n)') = Cardinality(Users(n)) + 1
  <1>1. ASSUME NEW p \in Tag \X Cluster
        PROVE  Use(p[1], p[2], n)' <=> Use(p[1], p[2], n) \/ p = <<a, s>>
    BY <1>1
  <1>2. <<a, s>> \in Tag \X Cluster /\ <<a, s>>[1] = a /\ <<a, s>>[2] = s
    OBVIOUS
  <1>3. Users(n)' = Users(n) \cup {<<a, s>>} /\ <<a, s>> \notin Users(n)
    BY <1>1, <1>2, UsersAreUses
  <1> QED BY <1>3, UsersAreUses, FS_AddElement

\* A counter loses a user.
LEMMA RemoveUser ==
    ASSUME NEW n \in Counter, NEW a \in Tag, NEW s \in Cluster, Use(a, s, n),
           \A t \in Tag, x \in Cluster : Use(t, x, n)' <=> Use(t, x, n) /\ ~(t = a /\ x = s)
    PROVE  Cardinality(Users(n)') = Cardinality(Users(n)) - 1
  <1>1. ASSUME NEW p \in Tag \X Cluster
        PROVE  Use(p[1], p[2], n)' <=> Use(p[1], p[2], n) /\ p # <<a, s>>
    BY <1>1
  <1>2. <<a, s>> \in Tag \X Cluster /\ <<a, s>>[1] = a /\ <<a, s>>[2] = s
    OBVIOUS
  <1>3. Users(n)' = Users(n) \ {<<a, s>>} /\ <<a, s>> \in Users(n)
    BY <1>1, <1>2, UsersAreUses
  <1> QED BY <1>3, UsersAreUses, FS_RemoveElement

\* A cluster uses a counter in another way than before.
LEMMA MoveUser ==
    ASSUME NEW n \in Counter, NEW a \in Tag, NEW b \in Tag, NEW s \in Cluster,
           Use(a, s, n), ~Use(b, s, n),
           \A t \in Tag, x \in Cluster :
               Use(t, x, n)' <=> (Use(t, x, n) /\ ~(t = a /\ x = s)) \/ (t = b /\ x = s)
    PROVE  Cardinality(Users(n)') = Cardinality(Users(n))
  <1>1. ASSUME NEW p \in Tag \X Cluster
        PROVE  Use(p[1], p[2], n)' <=> (Use(p[1], p[2], n) /\ p # <<a, s>>) \/ p = <<b, s>>
    BY <1>1
  <1>2. /\ <<a, s>> \in Tag \X Cluster /\ <<a, s>>[1] = a /\ <<a, s>>[2] = s
        /\ <<b, s>> \in Tag \X Cluster /\ <<b, s>>[1] = b /\ <<b, s>>[2] = s
    OBVIOUS
  <1> DEFINE rest == Users(n) \ {<<a, s>>}
  <1>3. /\ Users(n)' = rest \cup {<<b, s>>} /\ <<b, s>> \notin rest
        /\ <<a, s>> \in Users(n) /\ IsFiniteSet(Users(n))
    BY <1>1, <1>2, UsersAreUses
  <1>4. IsFiniteSet(rest) /\ Cardinality(rest) = Cardinality(Users(n)) - 1
    BY <1>3, FS_RemoveElement
  <1>5. Cardinality(Users(n)) \in Nat
    BY <1>3, FS_CardinalityType
  <1> HIDE DEF rest
  <1>6. Cardinality(Users(n)') = Cardinality(rest) + 1
    BY <1>3, <1>4, FS_AddElement
  <1> QED BY <1>4, <1>5, <1>6

\* The users stay the same.
LEMMA KeepUsers ==
    ASSUME NEW n \in Counter,
           \A t \in Tag, x \in Cluster : Use(t, x, n)' <=> Use(t, x, n)
    PROVE  Cardinality(Users(n)') = Cardinality(Users(n))
  <1>1. \A p \in Tag \X Cluster : Use(p[1], p[2], n)' <=> Use(p[1], p[2], n)
    OBVIOUS
  <1>2. Users(n)' = Users(n)
    BY <1>1, UsersAreUses
  <1> QED BY <1>2

\* A counter with a user is counted as used.
LEMMA UserCounts ==
    ASSUME IInv, NEW n \in Counter, NEW a \in Tag, NEW s \in Cluster, Use(a, s, n)
    PROVE  counter[n].active_refs > 0
  <1>1. <<a, s>> \in Users(n) /\ IsFiniteSet(Users(n))
    <2>1. <<a, s>> \in Tag \X Cluster /\ <<a, s>>[1] = a /\ <<a, s>>[2] = s
      OBVIOUS
    <2> QED BY <2>1, UsersAreUses
  <1>2. Cardinality(Users(n)) # 0 /\ Cardinality(Users(n)) \in Nat
    BY <1>1, FS_EmptySet, FS_CardinalityType
  <1> QED BY <1>2 DEF IInv, UsersBalanced

\* An update that changes nothing ends, any other announces its config as a user.
LEMMA CompareSound ==
    ASSUME IInv, NEW s \in Cluster, Compare(s)
    PROVE  IInv'
  <1>1. /\ update[s].pc = "compare"
        /\ counters' = counters /\ configs' = configs /\ current' = current /\ call' = call
    BY DEF Compare
  <1>2. /\ ClusterSound(s) /\ UpdateShape(update[s])
        /\ update[s].counter \in Counter /\ update[s].key \in Key
    BY <1>1, Types DEF IInv, Consistent, ClusterSound, UpdateShape
  <1> DEFINE n == update[s].counter
  <1>3. \/ update' = [update EXCEPT ![s] = IdleUpdate] /\ counter' = counter
        \/ update' = [update EXCEPT ![s].pc = "swap"] /\ counter' = Activate(s)
    BY DEF Compare, Sets
  <1>4. \A x \in Cluster \ {s} : SameCluster(x)
    BY <1>1, <1>3 DEF SameCluster, IInv, TypeOK
  <1>5. \A c \in Call : SameCall(c)
    BY <1>1 DEF SameCall
  <1>6. MapKept /\ OneKey'
    BY <1>1 DEF MapKept, IInv, Consistent, OneKey
  <1>7. CASE update' = [update EXCEPT ![s] = IdleUpdate] /\ counter' = counter
    <2>1. update'[s] = IdleUpdate
      BY <1>7 DEF IInv, TypeOK
    <2>2. TypeOK'
      BY <1>1, <1>7 DEF IInv, TypeOK, IdleUpdate, UpdatePC
    <2>3. ClusterSound(s)'
      BY <1>1, <1>2, <2>1 DEF ClusterSound, UpdateShape, IdleUpdate, Live
    <2>4. /\ Consistent'
          /\ \A c \in Call, m \in Counter : Slot(c, m)' <=> Slot(c, m)
          /\ \A t \in Tag, x \in Cluster \ {s}, m \in Counter : Use(t, x, m)' <=> Use(t, x, m)
      BY <1>1, <1>4, <1>5, <1>6, <2>3, ClusterFrame DEF IInv
    <2>5. \A t \in Tag, m \in Counter : Use(t, s, m)' <=> Use(t, s, m)
      BY <1>1, <2>1 DEF Use, IdleUpdate
    <2>6. SlotsBalanced'
      BY <1>7, <2>4, SlotsFrame DEF IInv
    <2>7. UsersBalanced'
      <3>1. \A t \in Tag, x \in Cluster, m \in Counter : Use(t, x, m)' <=> Use(t, x, m)
        BY <2>4, <2>5
      <3> QED BY <1>7, <3>1, UsersFrame DEF IInv
    <2> QED BY <2>2, <2>4, <2>6, <2>7 DEF IInv
  <1>8. CASE update' = [update EXCEPT ![s].pc = "swap"] /\ counter' = Activate(s)
    <2>1. /\ update'[s].pc = "swap" /\ update'[s].key = update[s].key
          /\ update'[s].counter = n /\ update'[s].config = update[s].config
      BY <1>8, Types DEF IInv, TypeOK
    <2>2. TypeOK'
      <3>1. counter' \in [Counter -> [in_flight : Nat, active_refs : Nat]]
        BY <1>2, <1>8 DEF IInv, TypeOK, Activate
      <3>2. update' \in [Cluster -> [pc : UpdatePC, key : Key \cup {None}, max_requests : Nat,
                                     counter : Counter \cup {None}, config : Config \cup {None}]]
        BY <1>8 DEF IInv, TypeOK, UpdatePC
      <3> QED BY <1>1, <3>1, <3>2 DEF IInv, TypeOK
    <2>3. ClusterSound(s)'
      BY <1>1, <1>2, <2>1 DEF ClusterSound, UpdateShape, Live
    <2>4. /\ Consistent'
          /\ \A c \in Call, m \in Counter : Slot(c, m)' <=> Slot(c, m)
          /\ \A t \in Tag, x \in Cluster \ {s}, m \in Counter : Use(t, x, m)' <=> Use(t, x, m)
      BY <1>1, <1>4, <1>5, <1>6, <2>3, ClusterFrame DEF IInv
    <2>5. \A m \in Counter : counter'[m].in_flight = counter[m].in_flight
      BY <1>2, <1>8 DEF IInv, TypeOK, Activate
    <2>6. SlotsBalanced'
      BY <2>4, <2>5, SlotsFrame DEF IInv
    <2>7. KeyChanged(s)' <=> KeyChanged(s)
      BY <1>1, <2>1 DEF KeyChanged
    <2>8. \A t \in Tag, m \in Counter :
             Use(t, s, m)' <=> Use(t, s, m) \/ (t = "next" /\ m = n /\ KeyChanged(s))
      BY <1>1, <2>1, <2>7 DEF Use
    <2>9. ~Use("next", s, n)
      BY <1>1 DEF Use
    <2>10. ASSUME NEW m \in Counter PROVE counter'[m].active_refs = Cardinality(Users(m)')
      <3>1. counter[m].active_refs = Cardinality(Users(m))
        BY DEF IInv, UsersBalanced
      <3>2. CASE m = n /\ KeyChanged(s)
        <4>1. \A t \in Tag, x \in Cluster : Use(t, x, m)' <=> Use(t, x, m) \/ (t = "next" /\ x = s)
          BY <2>4, <2>8, <3>2
        <4>2. Cardinality(Users(m)') = Cardinality(Users(m)) + 1
          BY <4>1, <2>9, <3>2, AddUser DEF Tag
        <4>3. counter'[m].active_refs = counter[m].active_refs + 1
          BY <1>2, <1>8, <3>2 DEF IInv, TypeOK, Activate
        <4> QED BY <3>1, <4>2, <4>3
      <3>3. CASE ~(m = n /\ KeyChanged(s))
        <4>1. \A t \in Tag, x \in Cluster : Use(t, x, m)' <=> Use(t, x, m)
          BY <2>4, <2>8, <3>3
        <4>2. counter'[m].active_refs = counter[m].active_refs
          BY <1>2, <1>8, <3>3 DEF IInv, TypeOK, Activate
        <4> QED BY <3>1, <4>1, <4>2, KeepUsers
      <3> QED BY <3>2, <3>3
    <2>11. UsersBalanced'
      BY <2>10 DEF UsersBalanced
    <2> QED BY <2>2, <2>4, <2>6, <2>11 DEF IInv
  <1> QED BY <1>3, <1>7, <1>8

\* The new config takes the place of the one that is replaced, and both count as
\* users as long as the other is not deactivated.
LEMMA SwapSound ==
    ASSUME IInv, NEW s \in Cluster, Swap(s)
    PROVE  IInv'
  <1> DEFINE g == CHOOSE f \in FreeConfigs : TRUE
             n == update[s].counter
             old == current[s]
             new == [key |-> update[s].key, max_requests |-> update[s].max_requests,
                     counter |-> update[s].counter]
             rest == IF KeyChanged(s) THEN configs ELSE Without(old, s)
             u == IF old # None /\ KeyChanged(s)
                  THEN [IdleUpdate EXCEPT !.pc = "deactivate", !.config = old]
                  ELSE IdleUpdate
  <1>1. /\ update[s].pc = "swap" /\ FreeConfigs # {}
        /\ configs' = [rest EXCEPT ![g] = new]
        /\ current' = [current EXCEPT ![s] = g]
        /\ update' = [update EXCEPT ![s] = u]
        /\ counters' = counters /\ counter' = counter /\ call' = call
    BY DEF Swap
  <1>2. /\ ClusterSound(s) /\ UpdateShape(update[s])
        /\ n \in Counter /\ update[s].key \in Key /\ update[s].max_requests \in Nat
        /\ update[s].config = None
        /\ counters[update[s].key] = n
        /\ old \in Config \cup {None}
    <2>1. ClusterSound(s)
      BY DEF IInv, Consistent
    <2>2. update[s] \in [pc : UpdatePC, key : Key \cup {None}, max_requests : Nat,
                         counter : Counter \cup {None}, config : Config \cup {None}]
      BY Types DEF IInv
    <2>3. old \in Config \cup {None}
      BY Types DEF IInv
    <2> QED BY <1>1, <2>1, <2>2, <2>3 DEF ClusterSound, UpdateShape
  <1>3. g \in Config /\ configs[g] = None
    BY <1>1 DEF FreeConfigs
  <1>4. new \in RuntimeConfig /\ new # None /\ new.key = update[s].key /\ new.counter = n
    <2>1. new \in RuntimeConfig
      BY <1>2 DEF RuntimeConfig
    <2> QED BY <2>1, NoneIsNoConfig
  <1>5. old # None => Live(old) /\ old \in Config /\ configs[old] \in RuntimeConfig
    BY <1>2, Types DEF ClusterSound, Live, IInv
  <1>6. /\ rest \in [Config -> RuntimeConfig \cup {None}]
        /\ \A h \in Config : rest[h] = configs[h] \/ (rest[h] = None /\ h = old /\ ~KeyChanged(s))
        /\ \A x \in Cluster : x # s =>
              /\ current[x] # None => rest[current[x]] = configs[current[x]]
              /\ update[x].config # None => rest[update[x].config] = configs[update[x].config]
        /\ \A c \in Call : call[c].config # None => rest[call[c].config] = configs[call[c].config]
    <2>1. CASE KeyChanged(s)
      <3>1. rest = configs
        BY <2>1
      <3> HIDE DEF rest
      <3> QED BY <3>1 DEF IInv, TypeOK
    <2>2. CASE ~KeyChanged(s)
      <3>1. rest = Without(old, s)
        BY <2>2
      <3>2. old \in Config
        BY <1>2, <2>2 DEF KeyChanged
      <3>3. \A c \in Call : c # s
        BY ThreadAssumption
      <3>4. LET w == Without(old, s)
            IN  /\ w \in [Config -> RuntimeConfig \cup {None}]
                /\ \A h \in Config : h # old => w[h] = configs[h]
                /\ \A h \in Config : w[h] = configs[h] \/ w[h] = None
                /\ \A x \in Cluster : x # s =>
                      /\ current[x] # None => w[current[x]] = configs[current[x]]
                      /\ update[x].config # None => w[update[x].config] = configs[update[x].config]
                /\ \A c \in Call : c # s /\ call[c].config # None =>
                          w[call[c].config] = configs[call[c].config]
        BY <3>2, WithoutSound DEF IInv
      <3> HIDE DEF rest, old
      <3> QED BY <2>2, <3>1, <3>3, <3>4
    <2> QED BY <2>1, <2>2
  <1> HIDE DEF g, new, rest
  <1>7. /\ configs'[g] = new
        /\ \A h \in Config : h # g => configs'[h] = rest[h]
        /\ configs' \in [Config -> RuntimeConfig \cup {None}]
    BY <1>1, <1>3, <1>4, <1>6
  <1>8. /\ current'[s] = g
        /\ update'[s] = u
        /\ \A x \in Cluster : x # s => current'[x] = current[x] /\ update'[x] = update[x]
    BY <1>1 DEF IInv, TypeOK
  <1>9. \A h \in Config : configs[h] # None => h # g
    BY <1>3
  <1>10. /\ \A x \in Cluster : /\ current[x] # None => current[x] # g /\ current[x] \in Config
                               /\ update[x].config # None =>
                                     update[x].config # g /\ update[x].config \in Config
         /\ \A c \in Call : call[c].config # None => call[c].config # g /\ call[c].config \in Config
    BY <1>9, Types DEF IInv, Consistent, ClusterSound, CallSound, Live
  <1>11. \A x \in Cluster \ {s} : SameCluster(x)
    BY <1>6, <1>7, <1>8, <1>10 DEF SameCluster
  <1>12. \A c \in Call : SameCall(c)
    BY <1>1, <1>6, <1>7, <1>10 DEF SameCall
  <1>13. TypeOK'
    <2>1. u \in [pc : UpdatePC, key : Key \cup {None}, max_requests : Nat,
                 counter : Counter \cup {None}, config : Config \cup {None}]
      BY <1>2 DEF IdleUpdate, UpdatePC
    <2> HIDE DEF u
    <2>2. update' \in [Cluster -> [pc : UpdatePC, key : Key \cup {None}, max_requests : Nat,
                                   counter : Counter \cup {None}, config : Config \cup {None}]]
      BY <1>1, <2>1 DEF IInv, TypeOK
    <2>3. current' \in [Cluster -> Config \cup {None}]
      BY <1>1, <1>3 DEF IInv, TypeOK
    <2> QED BY <1>1, <1>7, <2>2, <2>3 DEF IInv, TypeOK
  <1>14. MapKept /\ OneKey'
    BY <1>1 DEF MapKept, IInv, Consistent, OneKey
  <1>15. \A h \in Config : configs'[h] = configs[h] \/ ConfigSound(h)'
    <2>1. ASSUME NEW h \in Config, h = g PROVE ConfigSound(h)'
      BY <2>1, <1>1, <1>2, <1>4, <1>7 DEF ConfigSound
    <2>2. ASSUME NEW h \in Config, h # g, configs'[h] # configs[h] PROVE ConfigSound(h)'
      <3>1. configs'[h] = None
        BY <2>2, <1>6, <1>7
      <3> QED BY <3>1 DEF ConfigSound, Live
    <2> QED BY <2>1, <2>2
  <1>16. old # None /\ KeyChanged(s) => configs'[old] = configs[old] /\ old # g
    BY <1>5, <1>6, <1>7, <1>9 DEF Live
  <1>17. /\ u.counter = None
         /\ u.config = IF old # None /\ KeyChanged(s) THEN old ELSE None
         /\ u.pc = IF old # None /\ KeyChanged(s) THEN "deactivate" ELSE "idle"
    BY DEF IdleUpdate
  <1>18. ClusterSound(s)'
    <2> HIDE DEF u, old
    <2>1. UpdateShape(u)
      BY <1>17 DEF UpdateShape
    <2> QED BY <1>3, <1>4, <1>5, <1>7, <1>8, <1>16, <1>17, <2>1 DEF ClusterSound, Live
  <1>19. /\ Consistent'
         /\ \A c \in Call, m \in Counter : Slot(c, m)' <=> Slot(c, m)
         /\ \A t \in Tag, x \in Cluster \ {s}, m \in Counter : Use(t, x, m)' <=> Use(t, x, m)
    BY <1>11, <1>12, <1>14, <1>15, <1>18, ClusterFrame DEF IInv
  <1>20. SlotsBalanced'
    BY <1>1, <1>19, SlotsFrame DEF IInv
  <1>21. \A m \in Counter :
            /\ Use("current", s, m)' <=> m = n
            /\ ~Use("next", s, m)'
            /\ Use("previous", s, m)' <=> old # None /\ KeyChanged(s) /\ configs[old].counter = m
    <2> HIDE DEF u, old
    <2>1. g # None
      BY <1>3, NoneAssumption
    <2> QED BY <1>4, <1>7, <1>8, <1>16, <1>17, <2>1 DEF Use
  <1>22. \A m \in Counter :
            /\ Use("current", s, m) <=> old # None /\ configs[old].counter = m
            /\ Use("next", s, m) <=> m = n /\ KeyChanged(s)
            /\ ~Use("previous", s, m)
    BY <1>1 DEF Use
  <1>23. old # None => counters[configs[old].key] = configs[old].counter /\ configs[old].key \in Key
    BY <1>5 DEF IInv, Consistent, ConfigSound, RuntimeConfig
  <1>24. ~KeyChanged(s) => old # None /\ configs[old].counter = n
    BY <1>2, <1>23 DEF KeyChanged
  <1>25. old # None /\ KeyChanged(s) => configs[old].counter # n
    <2> SUFFICES ASSUME old # None, KeyChanged(s), configs[old].counter = n PROVE FALSE
      OBVIOUS
    <2>1. configs[old].key # update[s].key
      BY DEF KeyChanged
    <2>2. n # None
      BY <1>2, NoneAssumption
    <2> QED BY <1>2, <1>23, <2>1, <2>2 DEF IInv, Consistent, OneKey
  <1> HIDE DEF u, old, n
  <1>26. ASSUME NEW m \in Counter PROVE Cardinality(Users(m)') = Cardinality(Users(m))
    <2>1. CASE KeyChanged(s) /\ m = n
      <3>1. \A t \in Tag, x \in Cluster :
               Use(t, x, m)' <=> (Use(t, x, m) /\ ~(t = "next" /\ x = s)) \/ (t = "current" /\ x = s)
        BY <1>19, <1>21, <1>22, <1>25, <2>1 DEF Tag
      <3>2. Use("next", s, m) /\ ~Use("current", s, m)
        BY <1>22, <1>25, <2>1
      <3> QED BY <3>1, <3>2, MoveUser DEF Tag
    <2>2. CASE KeyChanged(s) /\ m # n /\ old # None /\ configs[old].counter = m
      <3>1. \A t \in Tag, x \in Cluster :
               Use(t, x, m)' <=>
                   (Use(t, x, m) /\ ~(t = "current" /\ x = s)) \/ (t = "previous" /\ x = s)
        BY <1>19, <1>21, <1>22, <2>2 DEF Tag
      <3>2. Use("current", s, m) /\ ~Use("previous", s, m)
        BY <1>22, <2>2
      <3> QED BY <3>1, <3>2, MoveUser DEF Tag
    <2>3. CASE ~KeyChanged(s) \/ (m # n /\ ~(old # None /\ configs[old].counter = m))
      <3>1. \A t \in Tag, x \in Cluster : Use(t, x, m)' <=> Use(t, x, m)
        BY <1>19, <1>21, <1>22, <1>24, <2>3 DEF Tag
      <3> QED BY <3>1, KeepUsers
    <2> QED BY <2>1, <2>2, <2>3
  <1>27. UsersBalanced'
    BY <1>1, <1>26 DEF IInv, UsersBalanced
  <1> QED BY <1>13, <1>19, <1>20, <1>27 DEF IInv

\* The config of a channel that goes away is still a user until it is deactivated.
LEMMA DropRegistrySound ==
    ASSUME IInv, NEW s \in Cluster, DropRegistry(s)
    PROVE  IInv'
  <1> DEFINE old == current[s]
             u == [IdleUpdate EXCEPT !.pc = "deactivate", !.config = current[s]]
  <1>1. /\ update[s].pc = "idle" /\ old # None
        /\ current' = [current EXCEPT ![s] = None]
        /\ update' = [update EXCEPT ![s] = u]
        /\ counters' = counters /\ counter' = counter /\ configs' = configs /\ call' = call
    BY DEF DropRegistry
  <1>2. old \in Config /\ Live(old)
    BY <1>1, Types DEF IInv, Consistent, ClusterSound
  <1>3. /\ u.pc = "deactivate" /\ u.config = old /\ u.counter = None
        /\ u \in [pc : UpdatePC, key : Key \cup {None}, max_requests : Nat,
                  counter : Counter \cup {None}, config : Config \cup {None}]
    BY <1>2 DEF IdleUpdate, UpdatePC
  <1> HIDE DEF u
  <1>4. current'[s] = None /\ update'[s] = u
    BY <1>1 DEF IInv, TypeOK
  <1>5. \A x \in Cluster \ {s} : SameCluster(x)
    BY <1>1 DEF SameCluster, IInv, TypeOK
  <1>6. \A c \in Call : SameCall(c)
    BY <1>1 DEF SameCall
  <1>7. MapKept /\ OneKey'
    BY <1>1 DEF MapKept, IInv, Consistent, OneKey
  <1>8. TypeOK'
    BY <1>1, <1>3 DEF IInv, TypeOK
  <1>9. ClusterSound(s)'
    BY <1>1, <1>2, <1>3, <1>4 DEF ClusterSound, UpdateShape, Live
  <1>10. /\ Consistent'
         /\ \A c \in Call, m \in Counter : Slot(c, m)' <=> Slot(c, m)
         /\ \A t \in Tag, x \in Cluster \ {s}, m \in Counter : Use(t, x, m)' <=> Use(t, x, m)
    BY <1>1, <1>5, <1>6, <1>7, <1>9, ClusterFrame DEF IInv
  <1>11. SlotsBalanced'
    BY <1>1, <1>10, SlotsFrame DEF IInv
  <1>12. \A m \in Counter :
            /\ ~Use("current", s, m)' /\ ~Use("next", s, m)'
            /\ Use("previous", s, m)' <=> configs[old].counter = m
            /\ Use("current", s, m) <=> configs[old].counter = m
            /\ ~Use("next", s, m) /\ ~Use("previous", s, m)
    BY <1>1, <1>3, <1>4 DEF Use
  <1> HIDE DEF old
  <1>13. ASSUME NEW m \in Counter PROVE Cardinality(Users(m)') = Cardinality(Users(m))
    <2>1. CASE configs[old].counter = m
      <3>1. \A t \in Tag, x \in Cluster :
               Use(t, x, m)' <=>
                   (Use(t, x, m) /\ ~(t = "current" /\ x = s)) \/ (t = "previous" /\ x = s)
        BY <1>10, <1>12, <2>1 DEF Tag
      <3> QED BY <3>1, <1>12, <2>1, MoveUser DEF Tag
    <2>2. CASE configs[old].counter # m
      <3>1. \A t \in Tag, x \in Cluster : Use(t, x, m)' <=> Use(t, x, m)
        BY <1>10, <1>12, <2>2 DEF Tag
      <3> QED BY <3>1, KeepUsers
    <2> QED BY <2>1, <2>2
  <1>14. UsersBalanced'
    BY <1>1, <1>13 DEF IInv, UsersBalanced
  <1> QED BY <1>8, <1>10, <1>11, <1>14 DEF IInv

\* deactivate() finds its reference counted.
LEMMA DeactivateSound ==
    ASSUME IInv, NEW s \in Cluster, Deactivate(s)
    PROVE  IInv'
  <1> DEFINE n == configs[update[s].config].counter
  <1>1. /\ update[s].pc = "deactivate"
        /\ counter' = [counter EXCEPT ![n].active_refs = @ - 1]
        /\ update' = [update EXCEPT ![s].pc = "drop"]
        /\ counters' = counters /\ configs' = configs /\ current' = current /\ call' = call
    BY DEF Deactivate, Sets
  <1>2. ClusterSound(s) /\ UpdateShape(update[s]) /\ update[s].config # None
    BY <1>1 DEF IInv, Consistent, ClusterSound, UpdateShape
  <1>3. n \in Counter
    <2>1. update[s].config \in Config /\ configs[update[s].config] # None
      BY <1>2, Types DEF IInv, ClusterSound, Live
    <2>2. configs[update[s].config] \in RuntimeConfig
      BY <2>1, Types DEF IInv
    <2> QED BY <2>2 DEF RuntimeConfig
  <1>4. Use("previous", s, n)
    BY <1>1 DEF Use
  <1>5. counter[n].active_refs > 0
    BY <1>3, <1>4, UserCounts DEF Tag
  <1>6. \A m \in Counter : /\ counter'[m].in_flight = counter[m].in_flight
                           /\ counter'[m].active_refs =
                                 IF m = n THEN counter[m].active_refs - 1 ELSE counter[m].active_refs
    BY <1>1, <1>3 DEF IInv, TypeOK
  <1>7. /\ update'[s].pc = "drop" /\ update'[s].config = update[s].config
        /\ update'[s].counter = update[s].counter /\ update'[s].key = update[s].key
    BY <1>1, Types DEF IInv, TypeOK
  <1>8. TypeOK'
    <2>1. counter' \in [Counter -> [in_flight : Nat, active_refs : Nat]]
      <3> HIDE DEF n
      <3>1. counter \in [Counter -> [in_flight : Nat, active_refs : Nat]]
        BY DEF IInv, TypeOK
      <3>2. counter[n].active_refs - 1 \in Nat
        BY <1>3, <1>5, <3>1
      <3> QED BY <1>1, <1>3, <3>1, <3>2
    <2> HIDE DEF n
    <2>2. update' \in [Cluster -> [pc : UpdatePC, key : Key \cup {None}, max_requests : Nat,
                                   counter : Counter \cup {None}, config : Config \cup {None}]]
      BY <1>1 DEF IInv, TypeOK, UpdatePC
    <2> QED BY <1>1, <2>1, <2>2 DEF IInv, TypeOK
  <1>9. ClusterSound(s)'
    BY <1>1, <1>2, <1>7 DEF ClusterSound, UpdateShape, Live
  <1>10. \A x \in Cluster \ {s} : SameCluster(x)
    BY <1>1 DEF SameCluster, IInv, TypeOK
  <1>11. (\A c \in Call : SameCall(c)) /\ MapKept /\ OneKey'
    BY <1>1 DEF SameCall, MapKept, IInv, Consistent, OneKey
  <1>12. /\ Consistent'
         /\ \A c \in Call, m \in Counter : Slot(c, m)' <=> Slot(c, m)
         /\ \A t \in Tag, x \in Cluster \ {s}, m \in Counter : Use(t, x, m)' <=> Use(t, x, m)
    BY <1>1, <1>9, <1>10, <1>11, ClusterFrame DEF IInv
  <1>13. SlotsBalanced'
    BY <1>6, <1>12, SlotsFrame DEF IInv
  <1>14. \A t \in Tag, m \in Counter : Use(t, s, m)' <=> Use(t, s, m) /\ ~(t = "previous" /\ m = n)
    BY <1>1, <1>7 DEF Use
  <1> HIDE DEF n
  <1>15. ASSUME NEW m \in Counter PROVE counter'[m].active_refs = Cardinality(Users(m)')
    <2>1. counter[m].active_refs = Cardinality(Users(m))
      BY DEF IInv, UsersBalanced
    <2>2. CASE m = n
      <3>1. \A t \in Tag, x \in Cluster :
               Use(t, x, m)' <=> Use(t, x, m) /\ ~(t = "previous" /\ x = s)
        BY <1>12, <1>14, <2>2
      <3>2. Cardinality(Users(m)') = Cardinality(Users(m)) - 1
        BY <3>1, <1>4, <2>2, RemoveUser DEF Tag
      <3> QED BY <1>6, <2>1, <2>2, <3>2
    <2>3. CASE m # n
      <3>1. \A t \in Tag, x \in Cluster : Use(t, x, m)' <=> Use(t, x, m)
        BY <1>12, <1>14, <2>3
      <3> QED BY <1>6, <2>1, <2>3, <3>1, KeepUsers
    <2> QED BY <2>2, <2>3
  <1>16. UsersBalanced'
    BY <1>15 DEF UsersBalanced
  <1> QED BY <1>8, <1>12, <1>13, <1>16 DEF IInv

\* The reference that goes is to a config that is not the cluster's any more.
LEMMA DropPreviousSound ==
    ASSUME IInv, NEW s \in Cluster, DropPrevious(s)
    PROVE  IInv'
  <1> DEFINE g == update[s].config
             u == [IdleUpdate EXCEPT !.pc = "cleanup", !.key = configs[g].key]
  <1>1. /\ update[s].pc = "drop"
        /\ configs' = Without(g, s)
        /\ update' = [update EXCEPT ![s] = u]
        /\ counters' = counters /\ counter' = counter /\ current' = current /\ call' = call
    BY DEF DropPrevious
  <1>2. /\ ClusterSound(s) /\ g # None /\ g # current[s] /\ Live(g)
        /\ current[s] # None => Live(current[s])
    BY <1>1 DEF IInv, Consistent, ClusterSound, UpdateShape
  <1>3. g \in Config /\ configs[g] \in RuntimeConfig /\ current[s] \in Config \cup {None}
    BY <1>2, Types DEF IInv, Live
  <1>4. /\ u.pc = "cleanup" /\ u.counter = None /\ u.config = None /\ u.key # None
        /\ u \in [pc : UpdatePC, key : Key \cup {None}, max_requests : Nat,
                  counter : Counter \cup {None}, config : Config \cup {None}]
    BY <1>3, NoneAssumption DEF IdleUpdate, UpdatePC, RuntimeConfig
  <1>5. /\ configs' \in [Config -> RuntimeConfig \cup {None}]
        /\ \A h \in Config : h # g => configs'[h] = configs[h]
        /\ \A h \in Config : configs'[h] = configs[h] \/ configs'[h] = None
        /\ \A x \in Cluster : x # s =>
              /\ current[x] # None => configs'[current[x]] = configs[current[x]]
              /\ update[x].config # None => configs'[update[x].config] = configs[update[x].config]
        /\ \A c \in Call : c # s /\ call[c].config # None =>
                  configs'[call[c].config] = configs[call[c].config]
    <2> HIDE DEF g
    <2> QED BY <1>1, <1>3, WithoutSound DEF IInv
  <1> HIDE DEF u, g
  <1>6. update'[s] = u
    BY <1>1 DEF IInv, TypeOK
  <1>7. TypeOK'
    BY <1>1, <1>4, <1>5 DEF IInv, TypeOK
  <1>8. \A x \in Cluster \ {s} : SameCluster(x)
    BY <1>1, <1>5 DEF SameCluster, IInv, TypeOK
  <1>9. \A c \in Call : SameCall(c)
    BY <1>1, <1>5, ThreadAssumption DEF SameCall
  <1>10. MapKept /\ OneKey'
    BY <1>1 DEF MapKept, IInv, Consistent, OneKey
  <1>11. \A h \in Config : configs'[h] = configs[h] \/ ConfigSound(h)'
    BY <1>5 DEF ConfigSound, Live
  <1>12. current[s] # None => configs'[current[s]] = configs[current[s]]
    BY <1>2, <1>3, <1>5
  <1>13. ClusterSound(s)'
    BY <1>1, <1>2, <1>4, <1>6, <1>12 DEF ClusterSound, UpdateShape, Live
  <1>14. /\ Consistent'
         /\ \A c \in Call, m \in Counter : Slot(c, m)' <=> Slot(c, m)
         /\ \A t \in Tag, x \in Cluster \ {s}, m \in Counter : Use(t, x, m)' <=> Use(t, x, m)
    BY <1>8, <1>9, <1>10, <1>11, <1>13, ClusterFrame DEF IInv
  <1>15. SlotsBalanced'
    BY <1>1, <1>14, SlotsFrame DEF IInv
  <1>16. \A t \in Tag, m \in Counter : Use(t, s, m)' <=> Use(t, s, m)
    BY <1>1, <1>4, <1>6, <1>12 DEF Use
  <1>17. UsersBalanced'
    <2>1. \A t \in Tag, x \in Cluster, m \in Counter : Use(t, x, m)' <=> Use(t, x, m)
      BY <1>14, <1>16
    <2> QED BY <1>1, <2>1, UsersFrame DEF IInv
  <1> QED BY <1>7, <1>14, <1>15, <1>17 DEF IInv

\* cleanup_if_unused takes only a counter out of the map that nobody refers to.
LEMMA CleanupSound ==
    ASSUME IInv, NEW k \in Key, CleanupIfUnused(k)
    PROVE  /\ counters' \in [Key -> Counter \cup {None}]
           /\ MapKept
           /\ OneKey'
  <1>1. counters \in [Key -> Counter \cup {None}]
    BY DEF IInv, TypeOK
  <1>2. CASE counters' = counters
    BY <1>1, <1>2 DEF MapKept, IInv, Consistent, OneKey
  <1>3. CASE CounterHolders(counters[k]) = {} /\ counters' = [counters EXCEPT ![k] = None]
    BY <1>1, <1>3 DEF MapKept, IInv, Consistent, OneKey
  <1> QED BY <1>2, <1>3 DEF CleanupIfUnused

\* An update ends.
LEMMA UpdateCleanupSound ==
    ASSUME IInv, NEW s \in Cluster, UpdateCleanup(s)
    PROVE  IInv'
  <1>1. /\ update[s].pc = "cleanup"
        /\ CleanupIfUnused(update[s].key)
        /\ update' = [update EXCEPT ![s] = IdleUpdate]
        /\ counter' = counter /\ configs' = configs /\ current' = current /\ call' = call
    BY DEF UpdateCleanup
  <1>2. ClusterSound(s) /\ update[s].key \in Key
    BY <1>1, Types DEF IInv, Consistent, ClusterSound, UpdateShape
  <1>3. counters' \in [Key -> Counter \cup {None}] /\ MapKept /\ OneKey'
    BY <1>1, <1>2, CleanupSound
  <1>4. update'[s] = IdleUpdate
    BY <1>1 DEF IInv, TypeOK
  <1>5. TypeOK'
    BY <1>1, <1>3 DEF IInv, TypeOK, IdleUpdate, UpdatePC
  <1>6. ClusterSound(s)'
    BY <1>1, <1>2, <1>4 DEF ClusterSound, UpdateShape, IdleUpdate, Live
  <1>7. \A x \in Cluster \ {s} : SameCluster(x)
    BY <1>1 DEF SameCluster, IInv, TypeOK
  <1>8. \A c \in Call : SameCall(c)
    BY <1>1 DEF SameCall
  <1>9. /\ Consistent'
        /\ \A c \in Call, m \in Counter : Slot(c, m)' <=> Slot(c, m)
        /\ \A t \in Tag, x \in Cluster \ {s}, m \in Counter : Use(t, x, m)' <=> Use(t, x, m)
    BY <1>1, <1>3, <1>6, <1>7, <1>8, ClusterFrame DEF IInv
  <1>10. \A t \in Tag, m \in Counter : Use(t, s, m)' <=> Use(t, s, m)
    BY <1>1, <1>4 DEF Use, IdleUpdate
  <1>11. SlotsBalanced'
    BY <1>1, <1>9, SlotsFrame DEF IInv
  <1>12. UsersBalanced'
    <2>1. \A t \in Tag, x \in Cluster, m \in Counter : Use(t, x, m)' <=> Use(t, x, m)
      BY <1>9, <1>10
    <2> QED BY <1>1, <2>1, UsersFrame DEF IInv
  <1> QED BY <1>5, <1>9, <1>11, <1>12 DEF IInv

-----------------------------------------------------------------------------
(* The steps of an endpoint attempt.                                       *)

CallRecord ==
    [pc : CallPC, config : Config \cup {None}, key : Key \cup {None},
     counter : Counter \cup {None}, seen : Nat, unused : BOOLEAN]

\* A step of a call that neither takes nor gives back a slot.
LEMMA QuietCall ==
    ASSUME IInv, NEW c \in Call, NEW a \in CallRecord,
           call' = [call EXCEPT ![c] = a],
           counter' = counter, current' = current, update' = update,
           configs' \in [Config -> RuntimeConfig \cup {None}],
           counters' \in [Key -> Counter \cup {None}],
           \A x \in Cluster : SameCluster(x),
           \A d \in Call \ {c} : SameCall(d),
           \A g \in Config : configs'[g] = configs[g] \/ ConfigSound(g)',
           MapKept, OneKey', CallSound(c)',
           call[c].pc # "running", a.pc # "running"
    PROVE  IInv'
  <1>1. TypeOK'
    BY DEF IInv, TypeOK, CallRecord
  <1>2. /\ Consistent'
        /\ \A t \in Tag, x \in Cluster, n \in Counter : Use(t, x, n)' <=> Use(t, x, n)
        /\ \A d \in Call \ {c}, n \in Counter : Slot(d, n)' <=> Slot(d, n)
    BY CallFrame DEF IInv
  <1>3. call'[c] = a
    BY DEF IInv, TypeOK
  <1>4. \A n \in Counter : Slot(c, n)' <=> Slot(c, n)
    BY <1>3 DEF Slot
  <1>5. SlotsBalanced'
    <2>1. \A d \in Call, n \in Counter : Slot(d, n)' <=> Slot(d, n)
      BY <1>2, <1>4
    <2> QED BY <2>1, SlotsFrame DEF IInv
  <1>6. UsersBalanced'
    BY <1>2, UsersFrame DEF IInv
  <1> QED BY <1>1, <1>2, <1>5, <1>6 DEF IInv

\* The same if nothing but the call itself changes.
LEMMA OwnStep ==
    ASSUME IInv, NEW c \in Call, NEW a \in CallRecord,
           call' = [call EXCEPT ![c] = a],
           UNCHANGED <<counters, counter, configs, current, update>>,
           CallShape(a),
           a.config # None => Live(a.config),
           a.counter # None => counters[a.key] = a.counter,
           a.pc = "exchange" => a.seen < configs[a.config].max_requests,
           call[c].pc # "running", a.pc # "running"
    PROVE  IInv'
  <1>1. /\ configs' \in [Config -> RuntimeConfig \cup {None}]
        /\ counters' \in [Key -> Counter \cup {None}]
    BY DEF IInv, TypeOK
  <1>2. (\A x \in Cluster : SameCluster(x)) /\ (\A d \in Call \ {c} : SameCall(d))
    BY DEF SameCluster, SameCall, IInv, TypeOK
  <1>3. MapKept /\ OneKey'
    BY DEF MapKept, IInv, Consistent, OneKey
  <1>4. call'[c] = a
    BY DEF IInv, TypeOK
  <1>5. CallSound(c)'
    BY <1>4 DEF CallSound, Live
  <1> QED BY <1>1, <1>2, <1>3, <1>5, QuietCall

\* The record of a call, and what its references are worth.
LEMMA CallFacts ==
    ASSUME IInv, NEW c \in Call
    PROVE  /\ call \in [Call -> CallRecord] /\ call[c] \in CallRecord
           /\ CallShape(call[c])
           /\ call[c].config # None =>
                 /\ call[c].config \in Config /\ Live(call[c].config)
                 /\ configs[call[c].config] \in RuntimeConfig
                 /\ counters[configs[call[c].config].key] = configs[call[c].config].counter
           /\ call[c].counter # None => counters[call[c].key] = call[c].counter
           /\ call[c].pc = "exchange" => call[c].seen < configs[call[c].config].max_requests
  <1>1. call \in [Call -> CallRecord] /\ call[c] \in CallRecord
    BY DEF IInv, TypeOK, CallRecord
  <1>2. CallSound(c)
    BY DEF IInv, Consistent
  <1>3. call[c].config # None => call[c].config \in Config
    BY <1>1 DEF CallRecord
  <1> QED BY <1>1, <1>2, <1>3, Types DEF CallSound, IInv, Consistent, ConfigSound, Live

\* A call gets a reference to the config in force.
LEMMA AcquireSound ==
    ASSUME IInv, NEW c \in Call, NEW s \in Cluster, Acquire(c, s)
    PROVE  IInv'
  <1> DEFINE a == [call[c] EXCEPT !.pc = "load", !.config = current[s]]
  <1>1. /\ call[c].pc = "idle" /\ current[s] # None
        /\ call' = [call EXCEPT ![c].pc = "load", ![c].config = current[s]]
        /\ UNCHANGED <<counters, counter, configs, current, update>>
    BY DEF Acquire
  <1>2. current[s] \in Config /\ Live(current[s])
    BY <1>1, Types DEF IInv, Consistent, ClusterSound
  <1>3. call' = [call EXCEPT ![c] = a]
    BY <1>1, CallFacts DEF CallRecord
  <1>4. a \in CallRecord /\ a.pc = "load" /\ a.config = current[s] /\ a.counter = call[c].counter
    BY <1>2, CallFacts DEF CallRecord, CallPC
  <1>5. CallShape(a) /\ a.counter = None
    BY <1>1, <1>4, CallFacts DEF CallShape
  <1> HIDE DEF a
  <1> QED BY <1>1, <1>2, <1>3, <1>4, <1>5, OwnStep

\* Only a call that saw a free slot goes on to take it.
LEMMA LoadInFlightSound ==
    ASSUME IInv, NEW c \in Call, LoadInFlight(c)
    PROVE  IInv'
  <1> DEFINE g == configs[call[c].config]
             seen == counter[g.counter].in_flight
             full == seen >= g.max_requests
             a == [call[c] EXCEPT !.pc = IF full THEN "drop" ELSE "exchange",
                                  !.seen = IF full THEN 0 ELSE seen]
  <1>1. /\ call[c].pc = "load"
        /\ call' = [call EXCEPT ![c].pc = IF full THEN "drop" ELSE "exchange",
                                ![c].seen = IF full THEN 0 ELSE seen]
        /\ UNCHANGED <<counters, counter, configs, current, update>>
    BY DEF LoadInFlight
  <1>2. call[c].config # None /\ g \in RuntimeConfig /\ Live(call[c].config)
    BY <1>1, CallFacts DEF CallShape
  <1>3. seen \in Nat /\ g.max_requests \in Nat
    BY <1>2, Types DEF RuntimeConfig, IInv
  <1> HIDE DEF g, seen
  <1>4. call' = [call EXCEPT ![c] = a]
    BY <1>1, CallFacts DEF CallRecord
  <1>5. /\ a \in CallRecord /\ a.config = call[c].config /\ a.counter = call[c].counter
        /\ a.pc = IF full THEN "drop" ELSE "exchange"
        /\ a.pc = "exchange" => a.seen = seen /\ ~full
    BY <1>3, CallFacts DEF CallRecord, CallPC
  <1> HIDE DEF a
  <1>6. CallShape(a) /\ a.counter = None
    BY <1>1, <1>5, CallFacts DEF CallShape
  <1>7. a.pc = "exchange" => a.seen < configs[a.config].max_requests
    BY <1>3, <1>5 DEF g
  <1> HIDE DEF full
  <1>8. a.pc # "running"
    BY <1>5
  <1> QED BY <1>1, <1>2, <1>4, <1>5, <1>6, <1>7, <1>8, OwnStep

\* A failed exchange starts over.
LEMMA ExchangeFailsSound ==
    ASSUME IInv, NEW c \in Call, ExchangeFails(c)
    PROVE  IInv'
  <1> DEFINE a == [call[c] EXCEPT !.pc = "load", !.seen = 0]
  <1>1. /\ call[c].pc = "exchange"
        /\ call' = [call EXCEPT ![c].pc = "load", ![c].seen = 0]
        /\ UNCHANGED <<counters, counter, configs, current, update>>
    BY DEF ExchangeFails
  <1>2. call' = [call EXCEPT ![c] = a]
    BY <1>1, CallFacts DEF CallRecord
  <1>3. /\ a \in CallRecord /\ a.pc = "load" /\ a.config = call[c].config
        /\ a.counter = call[c].counter
    BY CallFacts DEF CallRecord, CallPC
  <1>4. CallShape(a) /\ a.counter = None /\ (a.config # None => Live(a.config))
    BY <1>1, <1>3, CallFacts DEF CallShape
  <1> HIDE DEF a
  <1> QED BY <1>1, <1>2, <1>3, <1>4, OwnStep

\* Looking at the counter changes nothing,
LEMMA CheckUnusedSound ==
    ASSUME IInv, NEW c \in Call, CheckUnused(c)
    PROVE  IInv'
  <1> DEFINE b == IsUnused(call[c].counter)
             a == [call[c] EXCEPT !.pc = "forget", !.unused = b]
  <1>1. /\ call[c].pc = "check"
        /\ call' = [call EXCEPT ![c].pc = "forget", ![c].unused = b]
        /\ UNCHANGED <<counters, counter, configs, current, update>>
    BY DEF CheckUnused
  <1>2. b \in BOOLEAN
    BY DEF IsUnused
  <1> HIDE DEF b
  <1>3. call' = [call EXCEPT ![c] = a]
    BY <1>1, CallFacts DEF CallRecord
  <1>4. /\ a \in CallRecord /\ a.pc = "forget" /\ a.config = call[c].config
        /\ a.counter = call[c].counter /\ a.key = call[c].key
    BY <1>2, CallFacts DEF CallRecord, CallPC
  <1> HIDE DEF a
  <1>5. CallShape(a) /\ a.config = None /\ (a.counter # None => counters[a.key] = a.counter)
    BY <1>1, <1>4, CallFacts DEF CallShape
  <1> QED BY <1>1, <1>3, <1>4, <1>5, OwnStep

\* nor does dropping a reference to it.
LEMMA DropCounterSound ==
    ASSUME IInv, NEW c \in Call, DropCounter(c)
    PROVE  IInv'
  <1> DEFINE a == IF call[c].unused THEN [IdleCall EXCEPT !.pc = "cleanup", !.key = call[c].key]
                  ELSE IdleCall
  <1>1. /\ call[c].pc = "forget"
        /\ call' = [call EXCEPT ![c] = a]
        /\ UNCHANGED <<counters, counter, configs, current, update>>
    BY DEF DropCounter
  <1>2. call[c].key \in Key
    BY <1>1, CallFacts DEF CallShape, CallRecord
  <1>3. /\ a \in CallRecord /\ a.config = None /\ a.counter = None
        /\ a.pc = "idle" \/ (a.pc = "cleanup" /\ a.key = call[c].key)
    BY <1>2 DEF IdleCall, CallRecord, CallPC
  <1> HIDE DEF a
  <1>4. CallShape(a)
    BY <1>2, <1>3, NoneAssumption DEF CallShape
  <1> QED BY <1>1, <1>3, <1>4, OwnStep

\* A call that drops the last reference to a config keeps the counter alive.
LEMMA DropConfigSound ==
    ASSUME IInv, NEW c \in Call, DropConfig(c)
    PROVE  IInv'
  <1> DEFINE g == call[c].config
             a == IF ConfigHolders(g) \subseteq {c}
                  THEN [IdleCall EXCEPT !.pc = "check", !.key = configs[g].key,
                                        !.counter = configs[g].counter]
                  ELSE IdleCall
  <1>1. /\ call[c].pc = "drop"
        /\ configs' = Without(g, c)
        /\ call' = [call EXCEPT ![c] = a]
        /\ counters' = counters /\ counter' = counter /\ current' = current /\ update' = update
    BY DEF DropConfig
  <1>2. /\ g \in Config /\ configs[g] \in RuntimeConfig
        /\ counters[configs[g].key] = configs[g].counter
    BY <1>1, CallFacts DEF CallShape
  <1>3. /\ configs' \in [Config -> RuntimeConfig \cup {None}]
        /\ \A h \in Config : configs'[h] = configs[h] \/ configs'[h] = None
        /\ \A x \in Cluster : x # c =>
              /\ current[x] # None => configs'[current[x]] = configs[current[x]]
              /\ update[x].config # None => configs'[update[x].config] = configs[update[x].config]
        /\ \A d \in Call : d # c /\ call[d].config # None =>
                  configs'[call[d].config] = configs[call[d].config]
    <2> HIDE DEF g
    <2> QED BY <1>1, <1>2, WithoutSound DEF IInv
  <1>4. /\ a \in CallRecord /\ a.config = None
        /\ \/ a.pc = "idle" /\ a.counter = None
           \/ a.pc = "check" /\ a.counter = configs[g].counter /\ a.key = configs[g].key
    BY <1>2 DEF IdleCall, CallRecord, CallPC, RuntimeConfig
  <1> HIDE DEF a, g
  <1>5. call'[c] = a
    BY <1>1, CallFacts
  <1>6. configs[g].counter # None /\ configs[g].key # None
    BY <1>2, NoneAssumption DEF RuntimeConfig
  <1>7. CallShape(a)
    BY <1>4, <1>6 DEF CallShape
  <1>8. CallSound(c)'
    BY <1>1, <1>2, <1>4, <1>5, <1>7 DEF CallSound
  <1>9. \A x \in Cluster : SameCluster(x)
    BY <1>1, <1>3, ThreadAssumption DEF SameCluster
  <1>10. \A d \in Call \ {c} : SameCall(d)
    BY <1>1, <1>3, CallFacts DEF SameCall
  <1>11. \A h \in Config : configs'[h] = configs[h] \/ ConfigSound(h)'
    BY <1>3 DEF ConfigSound, Live
  <1>12. MapKept /\ OneKey' /\ counters' \in [Key -> Counter \cup {None}]
    BY <1>1 DEF MapKept, IInv, Consistent, OneKey, TypeOK
  <1>13. call[c].pc # "running" /\ a.pc # "running"
    BY <1>1, <1>4
  <1> QED BY <1>1, <1>3, <1>4, <1>8, <1>9, <1>10, <1>11, <1>12, <1>13, QuietCall

\* A call ends.
LEMMA CallCleanupSound ==
    ASSUME IInv, NEW c \in Call, CallCleanup(c)
    PROVE  IInv'
  <1>1. /\ call[c].pc = "cleanup"
        /\ CleanupIfUnused(call[c].key)
        /\ call' = [call EXCEPT ![c] = IdleCall]
        /\ counter' = counter /\ configs' = configs /\ current' = current /\ update' = update
    BY DEF CallCleanup
  <1>2. call[c].key \in Key
    BY <1>1, CallFacts DEF CallShape, CallRecord
  <1>3. counters' \in [Key -> Counter \cup {None}] /\ MapKept /\ OneKey'
    BY <1>1, <1>2, CleanupSound
  <1>4. call'[c] = IdleCall /\ IdleCall \in CallRecord
    BY <1>1, CallFacts DEF IdleCall, CallRecord, CallPC
  <1>5. CallSound(c)'
    BY <1>4 DEF CallSound, CallShape, IdleCall
  <1>6. (\A x \in Cluster : SameCluster(x)) /\ (\A d \in Call \ {c} : SameCall(d))
    BY <1>1, CallFacts DEF SameCluster, SameCall
  <1>7. configs' \in [Config -> RuntimeConfig \cup {None}]
    BY <1>1 DEF IInv, TypeOK
  <1>8. call[c].pc # "running" /\ IdleCall.pc # "running"
    BY <1>1 DEF IdleCall
  <1> QED BY <1>1, <1>3, <1>4, <1>5, <1>6, <1>7, <1>8, QuietCall

\* A counter's in_flight goes up with the slot that is taken.
LEMMA TakeSlotSound ==
    ASSUME IInv, NEW c \in Call, TakeSlot(c)
    PROVE  IInv'
  <1> DEFINE n == configs[call[c].config].counter
             a == [call[c] EXCEPT !.pc = "running", !.seen = 0]
  <1>1. /\ call[c].pc = "exchange"
        /\ counter' = [counter EXCEPT ![n].in_flight = @ + 1]
        /\ call' = [call EXCEPT ![c].pc = "running", ![c].seen = 0]
        /\ counters' = counters /\ configs' = configs /\ current' = current /\ update' = update
    BY DEF TakeSlot
  <1>2. n \in Counter
    BY <1>1, CallFacts DEF CallShape, RuntimeConfig
  <1>3. configs'[call[c].config].counter = n
    BY <1>1
  <1> HIDE DEF n
  <1>4. call' = [call EXCEPT ![c] = a]
    BY <1>1, CallFacts DEF CallRecord
  <1>5. /\ a \in CallRecord /\ a.pc = "running" /\ a.config = call[c].config
        /\ a.counter = call[c].counter
    BY CallFacts DEF CallRecord, CallPC
  <1>6. CallShape(a) /\ a.counter = None /\ Live(call[c].config)
    BY <1>1, <1>5, CallFacts DEF CallShape
  <1> HIDE DEF a
  <1>7. call'[c] = a
    BY <1>4, CallFacts
  <1>8. TypeOK'
    <2>1. counter' \in [Counter -> [in_flight : Nat, active_refs : Nat]]
      BY <1>1, <1>2 DEF IInv, TypeOK
    <2>2. call' \in [Call -> CallRecord]
      BY <1>4, <1>5, CallFacts
    <2> QED BY <1>1, <2>1, <2>2 DEF IInv, TypeOK, CallRecord
  <1>9. CallSound(c)'
    BY <1>1, <1>5, <1>6, <1>7 DEF CallSound, Live
  <1>10. (\A x \in Cluster : SameCluster(x)) /\ (\A d \in Call \ {c} : SameCall(d))
    BY <1>1, <1>4, CallFacts DEF SameCluster, SameCall
  <1>11. MapKept /\ OneKey'
    BY <1>1 DEF MapKept, IInv, Consistent, OneKey
  <1>12. /\ Consistent'
         /\ \A t \in Tag, x \in Cluster, m \in Counter : Use(t, x, m)' <=> Use(t, x, m)
         /\ \A d \in Call \ {c}, m \in Counter : Slot(d, m)' <=> Slot(d, m)
    BY <1>1, <1>9, <1>10, <1>11, CallFrame DEF IInv
  <1>13. \A m \in Counter :
            /\ counter'[m].active_refs = counter[m].active_refs
            /\ counter'[m].in_flight =
                  IF m = n THEN counter[m].in_flight + 1 ELSE counter[m].in_flight
    BY <1>1, <1>2 DEF IInv, TypeOK
  <1>14. UsersBalanced'
    BY <1>12, <1>13, UsersFrame DEF IInv
  <1>15. \A m \in Counter : ~Slot(c, m) /\ (Slot(c, m)' <=> m = n)
    BY <1>1, <1>3, <1>5, <1>7 DEF Slot
  <1>16. ASSUME NEW m \in Counter PROVE counter'[m].in_flight = Cardinality(Permits(m)')
    <2>1. counter[m].in_flight = Cardinality(Permits(m))
      BY DEF IInv, SlotsBalanced
    <2>2. CASE m = n
      <3>1. Permits(m)' = Permits(m) \cup {c} /\ c \notin Permits(m)
        BY <1>12, <1>15, <2>2, PermitsAreSlots
      <3>2. Cardinality(Permits(m)') = Cardinality(Permits(m)) + 1
        BY <3>1, PermitsAreSlots, FS_AddElement
      <3> QED BY <1>13, <2>1, <2>2, <3>2
    <2>3. CASE m # n
      <3>1. Permits(m)' = Permits(m)
        BY <1>12, <1>15, <2>3, PermitsAreSlots
      <3> QED BY <1>13, <2>1, <2>3, <3>1
    <2> QED BY <2>2, <2>3
  <1>17. SlotsBalanced'
    BY <1>16 DEF SlotsBalanced
  <1> QED BY <1>8, <1>12, <1>14, <1>17 DEF IInv

\* release() finds its slot counted.
LEMMA ReleaseSound ==
    ASSUME IInv, NEW c \in Call, Release(c)
    PROVE  IInv'
  <1> DEFINE n == configs[call[c].config].counter
             a == [call[c] EXCEPT !.pc = "drop"]
  <1>1. /\ call[c].pc = "running"
        /\ counter' = [counter EXCEPT ![n].in_flight = @ - 1]
        /\ call' = [call EXCEPT ![c].pc = "drop"]
        /\ counters' = counters /\ configs' = configs /\ current' = current /\ update' = update
    BY DEF Release
  <1>2. n \in Counter
    BY <1>1, CallFacts DEF CallShape, RuntimeConfig
  <1>3. \A m \in Counter : Slot(c, m) <=> m = n
    BY <1>1 DEF Slot
  <1> HIDE DEF n
  <1>4. call' = [call EXCEPT ![c] = a]
    BY <1>1, CallFacts DEF CallRecord
  <1>5. /\ a \in CallRecord /\ a.pc = "drop" /\ a.config = call[c].config
        /\ a.counter = call[c].counter
    BY CallFacts DEF CallRecord, CallPC
  <1>6. CallShape(a) /\ a.counter = None /\ Live(call[c].config)
    BY <1>1, <1>5, CallFacts DEF CallShape
  <1> HIDE DEF a
  <1>7. call'[c] = a
    BY <1>4, CallFacts
  <1>8. c \in Permits(n) /\ IsFiniteSet(Permits(n))
    BY <1>2, <1>3, PermitsAreSlots
  <1>9. /\ Cardinality(Permits(n)) \in Nat \ {0}
        /\ counter[n].in_flight = Cardinality(Permits(n))
    BY <1>2, <1>8, FS_EmptySet, FS_CardinalityType DEF IInv, SlotsBalanced
  <1>10. TypeOK'
    <2>1. counter \in [Counter -> [in_flight : Nat, active_refs : Nat]]
      BY DEF IInv, TypeOK
    <2>2. counter[n].in_flight - 1 \in Nat
      BY <1>9
    <2>3. counter' \in [Counter -> [in_flight : Nat, active_refs : Nat]]
      BY <1>1, <1>2, <2>1, <2>2
    <2>4. call' \in [Call -> CallRecord]
      BY <1>4, <1>5, CallFacts
    <2> QED BY <1>1, <2>3, <2>4 DEF IInv, TypeOK, CallRecord
  <1>11. CallSound(c)'
    BY <1>1, <1>5, <1>6, <1>7 DEF CallSound, Live
  <1>12. (\A x \in Cluster : SameCluster(x)) /\ (\A d \in Call \ {c} : SameCall(d))
    BY <1>1, <1>4, CallFacts DEF SameCluster, SameCall
  <1>13. MapKept /\ OneKey'
    BY <1>1 DEF MapKept, IInv, Consistent, OneKey
  <1>14. /\ Consistent'
         /\ \A t \in Tag, x \in Cluster, m \in Counter : Use(t, x, m)' <=> Use(t, x, m)
         /\ \A d \in Call \ {c}, m \in Counter : Slot(d, m)' <=> Slot(d, m)
    BY <1>1, <1>11, <1>12, <1>13, CallFrame DEF IInv
  <1>15. \A m \in Counter :
            /\ counter'[m].active_refs = counter[m].active_refs
            /\ counter'[m].in_flight =
                  IF m = n THEN counter[m].in_flight - 1 ELSE counter[m].in_flight
    BY <1>1, <1>2 DEF IInv, TypeOK
  <1>16. UsersBalanced'
    BY <1>14, <1>15, UsersFrame DEF IInv
  <1>17. \A m \in Counter : ~Slot(c, m)'
    BY <1>5, <1>7 DEF Slot
  <1>18. ASSUME NEW m \in Counter PROVE counter'[m].in_flight = Cardinality(Permits(m)')
    <2>1. CASE m = n
      <3>1. Permits(m)' = Permits(m) \ {c}
        BY <1>14, <1>17, <2>1, PermitsAreSlots
      <3>2. Cardinality(Permits(m)') = Cardinality(Permits(m)) - 1
        BY <1>8, <2>1, <3>1, FS_RemoveElement
      <3> QED BY <1>9, <1>15, <2>1, <3>2
    <2>2. CASE m # n
      <3>1. Permits(m)' = Permits(m)
        BY <1>3, <1>14, <1>17, <2>2, PermitsAreSlots
      <3> QED BY <1>15, <2>2, <3>1 DEF IInv, SlotsBalanced
    <2> QED BY <2>1, <2>2
  <1>19. SlotsBalanced'
    BY <1>18 DEF SlotsBalanced
  <1> QED BY <1>10, <1>14, <1>16, <1>19 DEF IInv

-----------------------------------------------------------------------------
(* Theorems.                                                               *)

\* No counter, no config, no call.
LEMMA InitSound == Init => IInv
  <1> SUFFICES ASSUME Init PROVE IInv
    OBVIOUS
  <1>1. TypeOK
    BY DEF Init, TypeOK, IdleUpdate, IdleCall, Unused, UpdatePC, CallPC
  <1>2. Consistent
    BY DEF Init, Consistent, ClusterSound, CallSound, ConfigSound, OneKey, UpdateShape, CallShape,
           IdleUpdate, IdleCall, Live
  <1>3. SlotsBalanced
    <2>1. \A n \in Counter : Permits(n) = {} /\ counter[n].in_flight = 0
      BY PermitsAreSlots DEF Init, Slot, IdleCall, Unused
    <2> QED BY <2>1, FS_EmptySet DEF SlotsBalanced
  <1>4. UsersBalanced
    <2>1. \A p \in Tag \X Cluster, n \in Counter : ~Use(p[1], p[2], n)
      BY DEF Init, Use, IdleUpdate
    <2>2. \A n \in Counter : Users(n) = {} /\ counter[n].active_refs = 0
      BY <2>1, UsersAreUses DEF Init, Unused
    <2> QED BY <2>2, FS_EmptySet DEF UsersBalanced
  <1> QED BY <1>1, <1>2, <1>3, <1>4 DEF IInv

\* Every step keeps the invariant.
LEMMA NextSound == IInv /\ [Next]_vars => IInv'
  <1> SUFFICES ASSUME IInv, [Next]_vars PROVE IInv'
    OBVIOUS
  <1>1. ASSUME NEW s \in Cluster, UpdateStep(s) PROVE IInv'
    <2>1. ASSUME NEW d \in Cds[s], SetClusterConfig(s, d[1], d[2]) PROVE IInv'
      <3>1. d[1] \in Key /\ d[2] \in Nat
        BY CdsAssumption
      <3> QED BY <2>1, <3>1, SetClusterConfigSound
    <2> QED BY <1>1, <2>1, CompareSound, SwapSound, DropRegistrySound, DeactivateSound,
               DropPreviousSound, UpdateCleanupSound DEF UpdateStep
  <1>2. ASSUME NEW c \in Call, CallStep(c) PROVE IInv'
    BY <1>2, AcquireSound, LoadInFlightSound, TakeSlotSound, ExchangeFailsSound, ReleaseSound,
       DropConfigSound, CheckUnusedSound, DropCounterSound, CallCleanupSound DEF CallStep
  <1>3. CASE UNCHANGED vars
    <2>1. /\ counters' = counters /\ counter' = counter /\ configs' = configs
          /\ current' = current /\ update' = update /\ call' = call
      BY <1>3 DEF vars
    <2>2. TypeOK'
      BY <2>1 DEF IInv, TypeOK
    <2>3. Consistent'
      BY <2>1 DEF IInv, Consistent, ClusterSound, CallSound, ConfigSound, OneKey, Live
    <2>4. SlotsBalanced'
      BY <2>1, SlotsFrame DEF IInv, Slot
    <2>5. UsersBalanced'
      BY <2>1, UsersFrame DEF IInv, Use, KeyChanged
    <2> QED BY <2>2, <2>3, <2>4, <2>5 DEF IInv
  <1> QED BY <1>1, <1>2, <1>3 DEF Next

\* Every reachable state satisfies the inductive invariant.
THEOREM InvariantHolds == Spec => []IInv
  <1> QED BY InitSound, NextSound, PTL DEF Spec

\* The types hold; in particular neither number of a counter falls below zero.
THEOREM AlwaysTypeOK == Spec => []TypeOK
  <1>1. IInv => TypeOK
    BY DEF IInv
  <1> QED BY InvariantHolds, <1>1, PTL

\* For any number of channels, calls and CDS updates, whoever is about to use a
\* counter of a key has the one in the global map.
THEOREM AlwaysOneCounter == Spec => []OneCounter
  <1>1. IInv => OneCounter
    BY DEF IInv, Consistent, ClusterSound, CallSound, ConfigSound, OneCounter
  <1> QED BY InvariantHolds, <1>1, PTL

\* in_flight is the number of calls that hold a slot.
THEOREM AlwaysSlotsBalanced == Spec => []SlotsBalanced
  <1>1. IInv => SlotsBalanced
    BY DEF IInv
  <1> QED BY InvariantHolds, <1>1, PTL

\* active_refs is the number of configs in force, or being put in or out of force.
THEOREM AlwaysUsersBalanced == Spec => []UsersBalanced
  <1>1. IInv => UsersBalanced
    BY DEF IInv
  <1> QED BY InvariantHolds, <1>1, PTL

\* All calls that hold a slot for a key hold one of the counter that the map has for it.
LEMMA InFlightSharesCounter ==
    ASSUME IInv', NEW k \in Key
    PROVE  \A d \in InFlight(k)' : /\ d \in Call /\ call'[d].pc = "running"
                                   /\ configs'[call'[d].config].counter = counters'[k]
  <1> SUFFICES ASSUME NEW d \in InFlight(k)'
               PROVE  /\ d \in Call /\ call'[d].pc = "running"
                      /\ configs'[call'[d].config].counter = counters'[k]
    OBVIOUS
  <1>1. d \in Call /\ call'[d].pc = "running" /\ configs'[call'[d].config].key = k
    BY DEF InFlight
  <1>2. CallSound(d)' /\ call'[d].config \in Config \cup {None}
    BY <1>1 DEF IInv, Consistent, TypeOK
  <1>3. call'[d].config # None /\ call'[d].config \in Config /\ configs'[call'[d].config] # None
    BY <1>1, <1>2 DEF CallSound, CallShape, Live
  <1> QED BY <1>1, <1>3 DEF IInv, Consistent, ConfigSound, Live

\* No call is let through beyond the limit of its config, counted over all channels
\* of the process.
THEOREM AlwaysLimitRespected == Spec => LimitRespected
  <1> DEFINE A == \A c \in Call, k \in Key :
                     call[c].pc # "running" /\ c \in InFlight(k)'
                        => Cardinality(InFlight(k)') <= configs'[call'[c].config].max_requests
  <1>1. ASSUME IInv, IInv', [Next]_vars PROVE [A]_vars
    <2> SUFFICES ASSUME Next, NEW c \in Call, NEW k \in Key, call[c].pc # "running",
                        c \in InFlight(k)'
                 PROVE  Cardinality(InFlight(k)') <= configs'[call'[c].config].max_requests
      BY <1>1
    <2>1. call'[c].pc = "running"
      BY DEF InFlight
    <2>2. call \in [Call -> CallRecord]
      BY <1>1, CallFacts
    <2>3. TakeSlot(c)
      <3>1. CASE \E s \in Cluster : UpdateStep(s)
        <4>1. call' = call
          BY <3>1 DEF UpdateStep, SetClusterConfig, Compare, Swap, DropRegistry, Deactivate,
                      DropPrevious, UpdateCleanup
        <4> QED BY <2>1, <4>1
      <3>2. ASSUME NEW d \in Call, CallStep(d) PROVE TakeSlot(c)
        <4>1. CASE TakeSlot(d)
          BY <4>1, <2>1, <2>2 DEF TakeSlot
        <4>2. CASE ~TakeSlot(d)
          <5>1. c = d
            BY <2>1, <2>2, <3>2 DEF CallStep, Acquire, LoadInFlight, TakeSlot, ExchangeFails,
                 Release, DropConfig, CheckUnused, DropCounter, CallCleanup
          <5>2. call[c] \in CallRecord
            BY <2>2
          <5>3. CASE (\E s \in Cluster : Acquire(c, s)) \/ LoadInFlight(c) \/ ExchangeFails(c)
                        \/ Release(c) \/ CheckUnused(c)
            BY <5>2, <5>3, <2>1, <2>2 DEF Acquire, LoadInFlight, ExchangeFails, Release,
                 CheckUnused, CallRecord
          <5>4. CASE DropConfig(c)
            BY <5>4, <2>1, <2>2 DEF DropConfig, IdleCall
          <5>5. CASE DropCounter(c)
            <6>1. \/ call'[c] = [IdleCall EXCEPT !.pc = "cleanup", !.key = call[c].key]
                  \/ call'[c] = IdleCall
              BY <5>5, <2>2 DEF DropCounter
            <6>2. /\ [IdleCall EXCEPT !.pc = "cleanup", !.key = call[c].key].pc = "cleanup"
                  /\ IdleCall.pc = "idle"
              BY DEF IdleCall
            <6>3. call'[c].pc \in {"cleanup", "idle"}
              BY <6>1, <6>2
            <6> QED BY <6>3, <2>1
          <5>6. CASE CallCleanup(c)
            <6>1. call'[c] = IdleCall
              BY <5>6, <2>2 DEF CallCleanup
            <6> QED BY <6>1, <2>1 DEF IdleCall
          <5> QED BY <5>1, <5>3, <5>4, <5>5, <5>6, <3>2, <4>2 DEF CallStep
        <4> QED BY <4>1, <4>2
      <3> QED BY <3>1, <3>2 DEF Next
    <2> DEFINE n == configs[call[c].config].counter
    <2>4. /\ call[c].pc = "exchange" /\ counter[n].in_flight = call[c].seen
          /\ counter' = [counter EXCEPT ![n].in_flight = @ + 1]
          /\ configs' = configs
          /\ call'[c].config = call[c].config
      BY <2>2, <2>3 DEF TakeSlot, CallRecord
    <2>5. /\ n \in Counter
          /\ configs[call[c].config].max_requests \in Nat
          /\ call[c].seen \in Nat
          /\ call[c].seen < configs[call[c].config].max_requests
      BY <1>1, <2>4, CallFacts DEF CallShape, RuntimeConfig, CallRecord
    <2>6. counter'[n].in_flight = call[c].seen + 1
      BY <1>1, <2>4, <2>5 DEF IInv, TypeOK
    <2>7. configs'[call'[c].config].counter = n
      BY <2>4
    <2>8. configs'[call'[c].config].max_requests = configs[call[c].config].max_requests
      BY <2>4
    <2>9. ASSUME NEW m \in Counter, m = n
          PROVE  Cardinality(InFlight(k)') <= counter'[m].in_flight
      <3>1. InFlight(k)' \subseteq Permits(m)'
        <4>1. \A d \in InFlight(k)' : /\ d \in Call /\ call'[d].pc = "running"
                                     /\ configs'[call'[d].config].counter = counters'[k]
          BY <1>1, InFlightSharesCounter
        <4>2. \A d \in InFlight(k)' : configs'[call'[d].config].counter = m
          BY <4>1, <2>7, <2>9
        <4> QED BY <4>1, <4>2 DEF Permits
      <3>2. IsFiniteSet(Permits(m)')
        BY PermitsAreSlots
      <3>3. Cardinality(InFlight(k)') <= Cardinality(Permits(m)')
        BY <3>1, <3>2, FS_Subset
      <3> QED BY <1>1, <3>3 DEF IInv, SlotsBalanced
    <2>10. IsFiniteSet(InFlight(k)')
      <3>1. InFlight(k)' \subseteq Call
        BY DEF InFlight
      <3> QED BY <3>1, FiniteAssumption, FS_Subset
    <2>11. Cardinality(InFlight(k)') \in Nat
      BY <2>10, FS_CardinalityType
    <2> HIDE DEF n
    <2> QED BY <2>5, <2>6, <2>8, <2>9, <2>11
  <1>2. IInv /\ IInv' /\ [Next]_vars => [A]_vars
    BY <1>1
  <1> QED BY InvariantHolds, <1>2, PTL DEF Spec, LimitRespected
=============================================================================
