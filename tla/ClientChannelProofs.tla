------------------------- MODULE ClientChannelProofs -------------------------
(***************************************************************************)
(* Safety of the client channel for any number of calls, policies and      *)
(* resolver results.                                                       *)
(***************************************************************************)
EXTENDS ClientChannel, FiniteSetTheorems, TLAPS

\* Only the initial LbState belongs to no child, and that one is CONNECTING.
Genuine(s) == s.handle # NoChild \/ s.state = "CONNECTING"

\* Calls hold LbStates that were published.
Snapshots ==
    /\ Genuine(current)
    /\ \A r \in Rpc : rpc[r].pc \in Holding => rpc[r].snap \in LbState /\ Genuine(rpc[r].snap)

\* The mutex guards creation, and the ActiveChannel is built just before it is
\* stored.
Creation ==
    /\ \A r \in Rpc : rpc[r].pc \in {"recheck", "build", "store"} <=> lock = r
    /\ \A r \in Rpc : rpc[r].pc = "build" => ~stored
    /\ \A r \in Rpc : rpc[r].pc = "store" => ~stored
    /\ built = IF stored \/ \E r \in Rpc : rpc[r].pc = "store" THEN 1 ELSE 0

\* The selector follows the LB policy.
Configured ==
    /\ selector.epoch <= lbEpoch
    /\ selector.resolved \/ loop = "resolved" => 1 <= selector.epoch
    /\ loop \in {"notify_update", "selector", "resolved"} => 1 <= lbEpoch
    /\ ConfigNotAhead

\* What holds of two children between calls into the policy.
Settled(act, pend) ==
    IF pend = NoChild THEN ~act.suppress
    ELSE /\ act.suppress /\ ~pend.suppress
         /\ act.state = "READY" /\ pend.state = "CONNECTING"

Switching ==
    /\ active = NoChild => pending = NoChild
    /\ active # NoChild => /\ Settled(active, pending)
                           /\ current.handle = active.handle
                           /\ current.state = active.state

IInv == TypeOK /\ Snapshots /\ Creation /\ Configured /\ Switching

-----------------------------------------------------------------------------
(* Operators of the model.                                                 *)

\* There is always an address for a new LbState: calls hold one each.
LEMMA FreePtrsNonempty == FreePtrs # {}
  <1> DEFINE H == {x \in Rpc : rpc[x].pc \in Holding}
             T == {rpc[r].snap.ptr : r \in H}
             f == [r \in H |-> rpc[r].snap.ptr]
  <1>1. IsFiniteSet(Rpc) /\ IsFiniteSet(Ptr) /\ Cardinality(Ptr) >= Cardinality(Rpc) + 2
    BY PtrAssumption
  <1>2. IsFiniteSet(H) /\ Cardinality(H) <= Cardinality(Rpc)
    <2>1. H \in SUBSET Rpc
      OBVIOUS
    <2> QED BY <1>1, <2>1, FS_Subset
  <1>3. f \in Surjection(H, T)
    BY DEF Surjection
  <1>4. IsFiniteSet(T) /\ Cardinality(T) <= Cardinality(H)
    <2> HIDE DEF H, T, f
    <2> QED BY <1>2, <1>3, FS_Surjection
  <1> DEFINE U == T \cup {current.ptr}
  <1>5. IsFiniteSet(U) /\ Cardinality(U) <= Cardinality(T) + 1
    <2> HIDE DEF H, T, f
    <2>1. Cardinality(T) \in Nat
      BY <1>4, FS_CardinalityType
    <2> QED BY <1>4, <2>1, FS_AddElement
  <1>6. /\ Cardinality(Rpc) \in Nat /\ Cardinality(Ptr) \in Nat
        /\ Cardinality(H) \in Nat /\ Cardinality(T) \in Nat /\ Cardinality(U) \in Nat
    <2> HIDE DEF H, T, f, U
    <2> QED BY <1>1, <1>2, <1>4, <1>5, FS_CardinalityType
  <1>7. ASSUME FreePtrs = {} PROVE FALSE
    <2>1. Ptr \in SUBSET U
      BY <1>7 DEF FreePtrs
    <2>2. Cardinality(Ptr) <= Cardinality(U)
      <3> HIDE DEF U
      <3> QED BY <2>1, <1>5, FS_Subset
    <2> HIDE DEF H, T, f, U
    <2> QED BY <1>1, <1>2, <1>4, <1>5, <1>6, <2>2
  <1> QED BY <1>7

\* What an outcome has to satisfy to be applied.
Sound(out) ==
    /\ out.active \in Child /\ out.pending \in Child \cup {NoChild}
    /\ Settled(out.active, out.pending)
    /\ \A pk \in out.publish : pk = Picker(out.active)
    /\ out.publish = {} => /\ active # NoChild
                           /\ out.active.handle = active.handle
                           /\ out.active.state = active.state

\* Applying a sound outcome keeps the published picker that of the active child.
LEMMA ApplySound ==
    ASSUME IInv, NEW out, Sound(out), NEW n, NEW e, Apply(out, n, e)
    PROVE  /\ Switching'
           /\ active' \in Child /\ pending' \in Child \cup {NoChild}
           /\ current' \in LbState /\ Genuine(current') /\ triggered' \subseteq Ptr
           /\ loop' \in {n, e}
  <1>1. active' = out.active /\ pending' = out.pending
    BY DEF Apply
  <1>2. /\ active' \in Child /\ pending' \in Child \cup {NoChild}
        /\ active' # NoChild /\ Settled(active', pending')
    BY <1>1, NoChildAssumption DEF Sound
  <1>3. loop' \in {n, e}
    BY DEF Apply
  <1>4. CASE out.publish = {}
    <2>1. current' = current /\ triggered' = triggered
      BY <1>4 DEF Apply
    <2>2. current'.handle = active'.handle /\ current'.state = active'.state
      BY <1>1, <1>4, <2>1 DEF Sound, IInv, Switching
    <2> QED BY <1>2, <1>3, <2>1, <2>2 DEF IInv, TypeOK, Snapshots, Switching
  <1>5. CASE out.publish # {}
    <2>1. PICK p \in FreePtrs : p = CHOOSE q \in FreePtrs : TRUE
      BY FreePtrsNonempty
    <2>2. /\ current' = [ptr |-> p, state |-> out.active.state,
                         handle |-> out.active.handle]
          /\ triggered' = triggered \ FreePtrs
      BY <1>5, <2>1 DEF Apply, Store, Sound, Picker
    <2>3. p \in Ptr
      BY <2>1 DEF FreePtrs
    <2>4. out.active.state \in ConnectivityStates /\ out.active.handle \in Handle
      BY DEF Sound, Child
    <2>5. current' \in LbState /\ Genuine(current')
      BY <2>2, <2>3, <2>4, NoChildAssumption DEF LbState, Genuine
    <2>6. current'.handle = active'.handle /\ current'.state = active'.state
      BY <1>1, <2>2
    <2> QED BY <1>2, <1>3, <2>2, <2>5, <2>6 DEF IInv, TypeOK, Switching
  <1> QED BY <1>4, <1>5

\* resolver_update has a sound outcome: a new child publishes a picker.
LEMMA ResolverOutcomeSound ==
    ASSUME IInv, NEW n \in Name, NEW h \in Handle, NEW publishes \in BOOLEAN,
           NEW s \in ConnectivityStates, Builds(n) => publishes
    PROVE  Sound(ResolverUpdateOutcome(n, h, publishes, s))
  <1> DEFINE chosen == Choose(n, h)
             upd(c) == IF publishes THEN [c EXCEPT !.state = s] ELSE c
             out == ResolverUpdateOutcome(n, h, publishes, s)
  <1>1. /\ active \in Child \cup {NoChild} /\ pending \in Child \cup {NoChild}
        /\ Switching
    BY DEF IInv, TypeOK
  <1>2. NewChild(n, h) \in Child /\ ~NewChild(n, h).suppress
    BY DEF NewChild, Child, ConnectivityStates
  <1>3. /\ chosen.active \in Child /\ chosen.pending \in Child \cup {NoChild}
        /\ chosen.pending = NoChild => ~chosen.active.suppress
        /\ chosen.pending # NoChild => chosen.active.suppress /\ ~chosen.pending.suppress
        /\ ~publishes => /\ active # NoChild /\ Settled(chosen.active, chosen.pending)
        /\ active # NoChild => /\ chosen.active.handle = active.handle
                               /\ chosen.active.state = active.state
        /\ active = NoChild => chosen.pending = NoChild /\ publishes
    <2>1. CASE active = NoChild
      BY <1>1, <1>2, <2>1 DEF Choose, Switching, Builds
    <2>2. CASE active # NoChild /\ active.name = n
      BY <1>1, <2>2 DEF Choose, Switching, Settled, Child
    <2>3. CASE active # NoChild /\ active.name # n /\ pending # NoChild /\ pending.name = n
      BY <1>1, <2>3 DEF Choose, Switching, Settled, Child
    <2>4. CASE active # NoChild /\ active.name # n
               /\ ~(pending # NoChild /\ pending.name = n)
      <3>1. chosen = [active |-> [active EXCEPT !.suppress = TRUE],
                      pending |-> NewChild(n, h)]
        BY <2>4 DEF Choose
      <3>2. publishes
        BY <2>4 DEF Builds
      <3>3. /\ active \in Child
            /\ [active EXCEPT !.suppress = TRUE] \in Child
            /\ [active EXCEPT !.suppress = TRUE].suppress
            /\ [active EXCEPT !.suppress = TRUE].handle = active.handle
            /\ [active EXCEPT !.suppress = TRUE].state = active.state
        BY <1>1, <2>4 DEF Child
      <3>4. chosen.active = [active EXCEPT !.suppress = TRUE] /\ chosen.pending = NewChild(n, h)
        BY <3>1
      <3> HIDE DEF chosen
      <3> QED BY <1>2, <2>4, <3>2, <3>3, <3>4, NoChildAssumption
    <2> QED BY <2>1, <2>2, <2>3, <2>4
  <1>4. \A c \in Child : /\ upd(c) \in Child /\ upd(c).suppress = c.suppress
                         /\ ~publishes => upd(c) = c
    BY DEF Child
  <1>5. CASE chosen.pending # NoChild
    <2>1. out = Reconcile(chosen.active, upd(chosen.pending), FALSE, publishes)
      BY <1>5 DEF ResolverUpdateOutcome
    <2>2. upd(chosen.pending) \in Child /\ upd(chosen.pending) # NoChild
      BY <1>3, <1>4, <1>5, NoChildAssumption
    <2>3. ~publishes => Settled(chosen.active, upd(chosen.pending))
      BY <1>3, <1>4, <1>5
    <2>4. chosen.active.suppress /\ ~upd(chosen.pending).suppress
      BY <1>3, <1>4, <1>5
    <2> HIDE DEF chosen, upd, out
    <2>5. /\ out.active \in Child /\ out.pending \in Child \cup {NoChild}
          /\ Settled(out.active, out.pending)
          /\ \A pk \in out.publish : pk = Picker(out.active)
          /\ out.publish = {} => out.active = chosen.active
      BY <1>3, <1>5, <2>1, <2>2, <2>3, <2>4, NoChildAssumption DEF Reconcile, Settled
    <2> QED BY <1>3, <1>5, <2>5 DEF Sound, out
  <1>6. CASE chosen.pending = NoChild
    <2>1. out = Reconcile(upd(chosen.active), NoChild, publishes, FALSE)
      BY <1>6 DEF ResolverUpdateOutcome
    <2>2. upd(chosen.active) \in Child /\ ~upd(chosen.active).suppress
      BY <1>3, <1>4, <1>6
    <2>3. ~publishes => upd(chosen.active) = chosen.active
      BY <1>3, <1>4
    <2> HIDE DEF chosen, upd, out
    <2>5. /\ out.active \in Child /\ out.pending \in Child \cup {NoChild}
          /\ Settled(out.active, out.pending)
          /\ \A pk \in out.publish : pk = Picker(out.active)
          /\ out.publish = {} => out.active = upd(chosen.active) /\ ~publishes
      BY <2>1, <2>2, NoChildAssumption DEF Reconcile, Settled
    <2> QED BY <1>3, <2>3, <2>5 DEF Sound, out
  <1> QED BY <1>5, <1>6

\* work has a sound outcome, whichever child the item is for.
LEMMA WorkOutcomeSound ==
    ASSUME IInv, active # NoChild, NEW h \in Handle, NEW s \in ConnectivityStates
    PROVE  Sound(WorkOutcome(h, s))
  <1>1. /\ active \in Child /\ pending \in Child \cup {NoChild}
        /\ Settled(active, pending)
    BY DEF IInv, TypeOK, Switching
  <1>2. CASE pending # NoChild /\ pending.handle = h
    <2> DEFINE p == [pending EXCEPT !.state = s]
    <2>1. p \in Child /\ p # NoChild /\ active.suppress /\ ~p.suppress
      BY <1>1, <1>2, NoChildAssumption DEF Child, Settled
    <2>2. WorkOutcome(h, s) = Reconcile(active, p, FALSE, TRUE)
      BY <1>2 DEF WorkOutcome
    <2> DEFINE out == WorkOutcome(h, s)
    <2> HIDE DEF p, out
    <2>3. /\ out.active \in Child /\ out.pending \in Child \cup {NoChild}
          /\ Settled(out.active, out.pending)
          /\ \A pk \in out.publish : pk = Picker(out.active)
          /\ out.publish = {} => out.active = active
      BY <1>1, <2>1, <2>2, NoChildAssumption DEF out, Reconcile, Settled
    <2> QED BY <2>3 DEF Sound, out
  <1>3. CASE ~(pending # NoChild /\ pending.handle = h)
    <2> DEFINE a == [active EXCEPT !.state = s]
    <2>1. /\ a \in Child
          /\ pending = NoChild => ~a.suppress
          /\ pending # NoChild => a.suppress /\ ~pending.suppress
      BY <1>1 DEF Child, Settled
    <2>2. WorkOutcome(h, s) = Reconcile(a, pending, TRUE, FALSE)
      BY <1>3 DEF WorkOutcome
    <2> DEFINE out == WorkOutcome(h, s)
    <2> HIDE DEF a, out
    <2>3. /\ out.active \in Child /\ out.pending \in Child \cup {NoChild}
          /\ Settled(out.active, out.pending)
          /\ \A pk \in out.publish : pk = Picker(out.active)
          /\ out.publish # {}
      BY <1>1, <2>1, <2>2, NoChildAssumption DEF out, Reconcile, Settled
    <2> QED BY <2>3 DEF Sound, out
  <1> QED BY <1>2, <1>3

-----------------------------------------------------------------------------
(* The steps of the work loop.                                             *)

\* The parts of the invariant that the loop's calls into the policy leave alone.
LEMMA PolicyStep ==
    ASSUME IInv, UNCHANGED <<channelVars, selector, rpc>>,
           Switching', active' \in Child, pending' \in Child \cup {NoChild},
           current' \in LbState, Genuine(current'), triggered' \subseteq Ptr,
           loop' \in {"idle", "notify", "notify_update", "selector"},
           work' \subseteq Handle, lbEpoch' \in 0 .. MaxResolver, lbEpoch <= lbEpoch',
           loop' \in {"notify_update", "selector"} => 1 <= lbEpoch'
    PROVE  IInv'
  <1>1. TypeOK'
    BY DEF IInv, TypeOK, channelVars
  <1>2. Snapshots'
    BY DEF IInv, Snapshots
  <1>3. Creation'
    BY DEF IInv, Creation, channelVars
  <1>4. Configured'
    <2>1. /\ selector.epoch \in 0 .. MaxResolver /\ MaxResolver \in Nat
          /\ lbEpoch \in 0 .. MaxResolver
      BY ResolverAssumption DEF IInv, TypeOK
    <2>2. ConfigNotAhead'
      BY <2>1 DEF IInv, Configured, ConfigNotAhead
    <2> QED BY <2>1, <2>2 DEF IInv, Configured
  <1> QED BY <1>1, <1>2, <1>3, <1>4 DEF IInv

\* A resolver update, whichever child it goes to or creates.
LEMMA ResolverUpdateStep ==
    ASSUME IInv, NEW n \in Name, NEW publishes \in BOOLEAN, NEW s \in ConnectivityStates,
           ResolverUpdate(n, publishes, s)
    PROVE  IInv'
  <1>1. /\ lbEpoch + 1 \in Handle /\ lbEpoch' = lbEpoch + 1
        /\ lbEpoch' \in 0 .. MaxResolver /\ lbEpoch <= lbEpoch' /\ 1 <= lbEpoch'
    BY ResolverAssumption DEF IInv, TypeOK, ResolverUpdate
  <1>2. Sound(ResolverUpdateOutcome(n, lbEpoch + 1, publishes, s))
    BY <1>1, ResolverOutcomeSound DEF ResolverUpdate
  <1>3. Apply(ResolverUpdateOutcome(n, lbEpoch + 1, publishes, s), "notify_update", "selector")
    BY DEF ResolverUpdate
  <1>4. /\ Switching'
        /\ active' \in Child /\ pending' \in Child \cup {NoChild}
        /\ current' \in LbState /\ Genuine(current') /\ triggered' \subseteq Ptr
        /\ loop' \in {"notify_update", "selector"}
    BY <1>2, <1>3, ApplySound
  <1>5. UNCHANGED <<channelVars, selector, rpc>> /\ work' \subseteq Handle
    BY DEF ResolverUpdate, IInv, TypeOK
  <1> QED BY <1>1, <1>4, <1>5, PolicyStep

\* A child that exists publishes a picker, from a work item of either kind.
LEMMA WorkStep ==
    ASSUME IInv, NEW h \in Handle, NEW s \in ConnectivityStates, active # NoChild,
           Apply(WorkOutcome(h, s), "notify", "idle"),
           work' \subseteq Handle, UNCHANGED <<channelVars, selectorVars, rpc>>
    PROVE  IInv'
  <1>1. Sound(WorkOutcome(h, s))
    BY WorkOutcomeSound
  <1>2. /\ Switching'
        /\ active' \in Child /\ pending' \in Child \cup {NoChild}
        /\ current' \in LbState /\ Genuine(current') /\ triggered' \subseteq Ptr
        /\ loop' \in {"notify", "idle"}
    BY <1>1, ApplySound
  <1>3. lbEpoch' = lbEpoch /\ selector' = selector /\ lbEpoch \in 0 .. MaxResolver
    BY DEF selectorVars, IInv, TypeOK
  <1>4. lbEpoch <= lbEpoch'
    BY <1>3, ResolverAssumption
  <1> QED BY <1>2, <1>3, <1>4, PolicyStep

\* A pending child never exists without an active one.
LEMMA ChildrenTyped ==
    ASSUME IInv, NEW c \in Children
    PROVE  c \in Child /\ c.handle \in Handle /\ active # NoChild
  BY DEF IInv, TypeOK, Switching, Children, Child

\* A subchannel update or a timer of a child.
LEMMA ChildWorkStep ==
    ASSUME IInv, NEW c \in Children, NEW s \in ConnectivityStates, ChildWork(c, s)
    PROVE  IInv'
  <1>1. c.handle \in Handle /\ active # NoChild
    BY ChildrenTyped
  <1>2. /\ Apply(WorkOutcome(c.handle, s), "notify", "idle")
        /\ work' \subseteq Handle /\ UNCHANGED <<channelVars, selectorVars, rpc>>
    BY DEF ChildWork, IInv, TypeOK
  <1> QED BY <1>1, <1>2, WorkStep

\* The work of an IDLE picker, whether or not its child still exists.
LEMMA IdleWorkStep ==
    ASSUME IInv, NEW h \in Handle, NEW s \in ConnectivityStates, IdleWork(h, s)
    PROVE  IInv'
  <1>1. work' \subseteq Handle /\ UNCHANGED <<channelVars, selectorVars, rpc>>
    BY DEF IdleWork, IInv, TypeOK
  <1>2. CASE \E c \in Children : c.handle = h /\ c.state = "IDLE"
    <2>1. active # NoChild
      BY <1>2, ChildrenTyped
    <2>2. Apply(WorkOutcome(h, s), "notify", "idle")
      BY <1>2 DEF IdleWork
    <2> QED BY <1>1, <2>1, <2>2, WorkStep
  <1>3. CASE ~ \E c \in Children : c.handle = h /\ c.state = "IDLE"
    <2>1. UNCHANGED <<active, pending, loop, current, triggered>>
      BY <1>3 DEF IdleWork
    <2> QED BY <1>1, <2>1 DEF IInv, TypeOK, Snapshots, Creation, Configured, ConfigNotAhead,
                              Switching, channelVars, selectorVars
  <1> QED BY <1>2, <1>3

\* notify_waiters changes only what sleeping calls have been told.
LEMMA NotifyStep == IInv /\ Notify => IInv'
  <1> SUFFICES ASSUME IInv, Notify PROVE IInv'
    OBVIOUS
  <1>1. /\ UNCHANGED <<stored, lock, built, active, pending, current, triggered, work,
                       selector, lbEpoch>>
        /\ loop' = IF loop = "notify" THEN "idle" ELSE "selector"
        /\ loop \in {"notify", "notify_update"}
    BY DEF Notify, channelVars, switchVars, watcherVars, selectorVars
  <1>2. \A r \in Rpc : rpc'[r] \in [pc : RpcPC, snap : LbState \cup {NoChild},
                                    epoch : 0 .. MaxResolver, notified : BOOLEAN]
    BY DEF Notify, IInv, TypeOK
  <1>3. rpc' \in [Rpc -> [pc : RpcPC, snap : LbState \cup {NoChild},
                          epoch : 0 .. MaxResolver, notified : BOOLEAN]]
    BY <1>2 DEF Notify
  <1>4. \A r \in Rpc : /\ rpc'[r].pc = rpc[r].pc /\ rpc'[r].snap = rpc[r].snap
                       /\ rpc'[r].epoch = rpc[r].epoch
    BY DEF Notify, IInv, TypeOK
  <1>5. TypeOK'
    BY <1>1, <1>3 DEF IInv, TypeOK
  <1>6. Snapshots' /\ Switching'
    BY <1>1, <1>4 DEF IInv, Snapshots, Switching
  <1>7. Creation'
    BY <1>1, <1>4 DEF IInv, Creation
  <1>8. Configured'
    BY <1>1, <1>4 DEF IInv, Configured, ConfigNotAhead
  <1> QED BY <1>5, <1>6, <1>7, <1>8 DEF IInv

\* The selector takes the epoch of an update the LB policy has handled.
LEMMA SelectorStep == IInv /\ (SelectorStore \/ SelectorResolved) => IInv'
  <1> SUFFICES ASSUME IInv, SelectorStore \/ SelectorResolved PROVE IInv'
    OBVIOUS
  <1>1. UNCHANGED <<stored, lock, built, active, pending, current, triggered, work,
                    lbEpoch, rpc>>
    BY DEF SelectorStore, SelectorResolved, channelVars, switchVars, watcherVars
  <1>2. /\ loop' \in {"resolved", "idle"}
        /\ selector' \in [epoch : 0 .. MaxResolver, resolved : BOOLEAN]
        /\ selector'.epoch <= lbEpoch /\ 1 <= selector'.epoch
        /\ 1 <= lbEpoch
    <2>1. /\ selector \in [epoch : 0 .. MaxResolver, resolved : BOOLEAN]
          /\ lbEpoch \in 0 .. MaxResolver /\ MaxResolver \in Nat
      BY ResolverAssumption DEF IInv, TypeOK
    <2>2. CASE SelectorStore
      BY <2>1, <2>2 DEF SelectorStore, IInv, Configured
    <2>3. CASE SelectorResolved
      BY <2>1, <2>3 DEF SelectorResolved, IInv, Configured
    <2> QED BY <2>2, <2>3
  <1>3. TypeOK'
    BY <1>1, <1>2 DEF IInv, TypeOK
  <1>4. Snapshots' /\ Switching'
    BY <1>1 DEF IInv, Snapshots, Switching
  <1>5. Creation'
    BY <1>1 DEF IInv, Creation
  <1>6. Configured'
    BY <1>1, <1>2 DEF IInv, Configured, ConfigNotAhead
  <1> QED BY <1>3, <1>4, <1>5, <1>6 DEF IInv

-----------------------------------------------------------------------------
(* The steps of a call.                                                    *)

CallState == [pc : RpcPC, snap : LbState \cup {NoChild},
              epoch : 0 .. MaxResolver, notified : BOOLEAN]

\* Where a call holds the creation mutex.
Creating == {"recheck", "build", "store"}

\* A step of one call that leaves the LB policy and the selector alone keeps
\* everything but Creation, if what the call takes with it is in order.
LEMMA CallFrame ==
    ASSUME IInv, NEW r \in Rpc, NEW c \in CallState, rpc' = [rpc EXCEPT ![r] = c],
           c.pc \in Holding => c.snap \in LbState /\ Genuine(c.snap),
           c.pc = "snapshot" => c.epoch \in 1 .. lbEpoch,
           stored' \in BOOLEAN, lock' \in Rpc \cup {NoChild}, built' \in Nat,
           loop' = loop \/ loop' = "idle",
           triggered' \subseteq Ptr, work' \subseteq Handle,
           UNCHANGED <<switchVars, current, selectorVars>>
    PROVE  /\ TypeOK' /\ Snapshots' /\ Configured' /\ Switching'
           /\ rpc'[r] = c
           /\ \A x \in Rpc \ {r} : rpc'[x] = rpc[x]
  <1>1. rpc \in [Rpc -> CallState]
    BY DEF IInv, TypeOK, CallState
  <1>2. /\ rpc' \in [Rpc -> CallState] /\ rpc'[r] = c
        /\ \A x \in Rpc \ {r} : rpc'[x] = rpc[x]
    BY <1>1
  <1>3. TypeOK'
    BY <1>2 DEF IInv, TypeOK, CallState, switchVars, selectorVars
  <1>4. Snapshots'
    BY <1>2 DEF IInv, Snapshots
  <1>5. Configured'
    BY <1>2 DEF IInv, Configured, ConfigNotAhead, selectorVars
  <1>6. Switching'
    BY DEF IInv, Switching, switchVars
  <1> QED BY <1>2, <1>3, <1>4, <1>5, <1>6

\* A step of one call away from the creation of the channel.
LEMMA QuietCall ==
    ASSUME IInv, NEW r \in Rpc, NEW c \in CallState, rpc' = [rpc EXCEPT ![r] = c],
           rpc[r].pc \notin Creating, c.pc \notin Creating,
           c.pc \in Holding => c.snap \in LbState /\ Genuine(c.snap),
           c.pc = "snapshot" => c.epoch \in 1 .. lbEpoch,
           triggered' \subseteq Ptr, work' \subseteq Handle,
           UNCHANGED <<channelVars, switchVars, loop, current, selectorVars>>
    PROVE  IInv'
  <1>1. /\ stored' = stored /\ lock' = lock /\ built' = built /\ loop' = loop
        /\ UNCHANGED <<switchVars, current, selectorVars>>
    BY DEF channelVars
  <1>2. stored' \in BOOLEAN /\ lock' \in Rpc \cup {NoChild} /\ built' \in Nat
    BY <1>1 DEF IInv, TypeOK
  <1>3. /\ TypeOK' /\ Snapshots' /\ Configured' /\ Switching'
        /\ rpc'[r] = c
        /\ \A x \in Rpc \ {r} : rpc'[x] = rpc[x]
    BY <1>1, <1>2, CallFrame
  <1>4. Creation'
    BY <1>1, <1>3 DEF IInv, Creation, Creating
  <1> QED BY <1>3, <1>4 DEF IInv

\* The step of a call that changes where it is, and nothing else of it.
LEMMA GotoIsUpdate ==
    ASSUME IInv, NEW r \in Rpc, NEW pc \in RpcPC, Goto(r, pc)
    PROVE  /\ [rpc[r] EXCEPT !.pc = pc] \in CallState
           /\ [rpc[r] EXCEPT !.pc = pc].pc = pc
           /\ [rpc[r] EXCEPT !.pc = pc].snap = rpc[r].snap
           /\ rpc' = [rpc EXCEPT ![r] = [rpc[r] EXCEPT !.pc = pc]]
  BY DEF IInv, TypeOK, CallState, Goto

\* A call that only moves, away from the creation of the channel.
LEMMA QuietGoto ==
    ASSUME IInv, NEW r \in Rpc, NEW pc \in RpcPC, Goto(r, pc),
           rpc[r].pc \notin Creating, pc \notin Creating, pc # "snapshot",
           pc \in Holding => rpc[r].snap \in LbState /\ Genuine(rpc[r].snap),
           triggered' \subseteq Ptr, work' \subseteq Handle,
           UNCHANGED <<channelVars, switchVars, loop, current, selectorVars>>
    PROVE  IInv'
  <1> DEFINE c == [rpc[r] EXCEPT !.pc = pc]
  <1>1. c \in CallState /\ c.pc = pc /\ c.snap = rpc[r].snap /\ rpc' = [rpc EXCEPT ![r] = c]
    BY GotoIsUpdate
  <1> HIDE DEF c
  <1> QED BY <1>1, QuietCall

\* A call that is not in progress is a call.
LEMMA IdleCallTyped == IdleCall \in CallState /\ IdleCall.pc = "idle"
  BY ResolverAssumption DEF IdleCall, CallState, RpcPC

\* A call that has just taken the current LbState.
Taken == [IdleCall EXCEPT !.pc = "pick", !.snap = current]

\* Such a call holds a published LbState.
LEMMA FreshSnapshot ==
    ASSUME IInv
    PROVE  /\ Taken \in CallState /\ Taken.pc = "pick"
           /\ Taken.snap \in LbState /\ Genuine(Taken.snap)
  <1>1. current \in LbState /\ Genuine(current)
    BY DEF IInv, TypeOK, Snapshots
  <1>2. Taken \in CallState /\ Taken.snap = current /\ Taken.pc = "pick"
    BY <1>1, IdleCallTyped DEF Taken, CallState, RpcPC
  <1> QED BY <1>1, <1>2

\* A call that starts, goes to sleep, is woken or is dropped.
LEMMA WaitingStep ==
    ASSUME IInv, NEW r \in Rpc,
           StartCall(r) \/ Register(r) \/ Wake(r) \/ Abandon(r)
    PROVE  IInv'
  <1>1. /\ UNCHANGED <<channelVars, switchVars, loop, current, selectorVars>>
        /\ triggered' \subseteq Ptr /\ work' \subseteq Handle
    BY DEF StartCall, Register, Wake, Abandon, watcherVars, IInv, TypeOK
  <1>2. rpc[r] \in CallState
    BY DEF IInv, TypeOK, CallState
  <1>3. CASE StartCall(r)
    <2>1. PICK pc \in {"select", "locking"} : Goto(r, pc)
      BY <1>3 DEF StartCall
    <2>2. pc \in RpcPC /\ pc \notin Creating /\ pc \notin Holding /\ pc # "snapshot"
          /\ rpc[r].pc \notin Creating
      BY <1>3, <2>1 DEF StartCall, RpcPC, Creating, Holding
    <2> QED BY <1>1, <2>1, <2>2, QuietGoto
  <1>4. CASE Register(r)
    <2>1. Goto(r, "compare") /\ rpc[r].pc = "register"
      BY <1>4 DEF Register
    <2>2. rpc[r].snap \in LbState /\ Genuine(rpc[r].snap) /\ rpc[r].pc \notin Creating
      BY <2>1 DEF IInv, Snapshots, Holding, Creating
    <2>3. "compare" \in RpcPC /\ "compare" # "snapshot" /\ "compare" \notin Creating
      BY DEF RpcPC, Creating
    <2> QED BY <1>1, <2>1, <2>2, <2>3, QuietGoto
  <1>5. CASE Wake(r)
    <2> DEFINE c == [rpc[r] EXCEPT !.pc = "register", !.notified = FALSE]
    <2>1. rpc' = [rpc EXCEPT ![r] = c] /\ rpc[r].pc = "await"
      BY <1>2, <1>5 DEF Wake, IInv, TypeOK
    <2>2. c \in CallState /\ c.pc = "register" /\ c.snap = rpc[r].snap
      BY <1>2 DEF CallState, RpcPC
    <2>3. c.snap \in LbState /\ Genuine(c.snap) /\ rpc[r].pc \notin Creating
      BY <2>1, <2>2 DEF IInv, Snapshots, Holding, Creating
    <2>4. c.pc \notin Creating /\ c.pc # "snapshot"
      BY <2>2 DEF Creating
    <2> HIDE DEF c
    <2> QED BY <1>1, <2>1, <2>2, <2>3, <2>4, QuietCall
  <1>6. CASE Abandon(r)
    <2>1. rpc' = [rpc EXCEPT ![r] = IdleCall] /\ rpc[r].pc \notin Creating
      BY <1>6 DEF Abandon, Creating
    <2>2. IdleCall.pc \notin Creating \cup Holding \cup {"snapshot"}
      BY IdleCallTyped DEF Creating, Holding
    <2> QED BY <1>1, <2>1, <2>2, IdleCallTyped, QuietCall
  <1> QED BY <1>3, <1>4, <1>5, <1>6

\* A configured call carries the epoch of a selector the LB policy is ahead of.
LEMMA SelectConfigStep ==
    ASSUME IInv, NEW r \in Rpc, SelectConfig(r)
    PROVE  IInv'
  <1>1. /\ UNCHANGED <<channelVars, switchVars, loop, current, selectorVars>>
        /\ triggered' \subseteq Ptr /\ work' \subseteq Handle
    BY DEF SelectConfig, watcherVars, IInv, TypeOK
  <1>2. rpc[r] \in CallState /\ rpc[r].pc = "select" /\ rpc[r].pc \notin Creating
    BY DEF IInv, TypeOK, CallState, SelectConfig, Creating
  <1>3. CASE rpc' = [rpc EXCEPT ![r].pc = "snapshot", ![r].epoch = selector.epoch]
    <2> DEFINE c == [rpc[r] EXCEPT !.pc = "snapshot", !.epoch = selector.epoch]
    <2>1. rpc' = [rpc EXCEPT ![r] = c]
      BY <1>3 DEF IInv, TypeOK
    <2>2. selector.epoch \in 0 .. MaxResolver /\ selector.epoch \in 1 .. lbEpoch
      BY ResolverAssumption DEF IInv, TypeOK, Configured, SelectConfig
    <2>3. c \in CallState /\ c.pc = "snapshot" /\ c.epoch = selector.epoch
      BY <1>2, <2>2 DEF CallState, RpcPC
    <2>4. c.pc \notin Creating /\ c.pc \notin Holding
      BY <2>3 DEF Creating, Holding
    <2> HIDE DEF c
    <2> QED BY <1>1, <1>2, <2>1, <2>2, <2>3, <2>4, QuietCall
  <1>4. CASE rpc' = [rpc EXCEPT ![r] = IdleCall]
    <2>1. IdleCall.pc \notin Creating \cup Holding \cup {"snapshot"}
      BY IdleCallTyped DEF Creating, Holding
    <2> QED BY <1>1, <1>2, <1>4, <2>1, IdleCallTyped, QuietCall
  <1> QED BY <1>3, <1>4 DEF SelectConfig

\* A call that goes on with the current LbState, or sleeps on the one it holds.
LEMMA SnapshotStep ==
    ASSUME IInv, NEW r \in Rpc, TakeSnapshot(r) \/ Compare(r)
    PROVE  IInv'
  <1>1. /\ UNCHANGED <<channelVars, switchVars, loop, current, selectorVars>>
        /\ triggered' \subseteq Ptr /\ work' \subseteq Handle
    BY DEF TakeSnapshot, Compare, watcherVars, IInv, TypeOK
  <1>2. rpc[r].pc \in {"snapshot", "compare"} /\ rpc[r].pc \notin Creating
    BY DEF TakeSnapshot, Compare, Creating
  <1>3. CASE rpc' = [rpc EXCEPT ![r] = Taken]
    <2>1. Taken.pc \notin Creating /\ Taken.pc # "snapshot"
      BY FreshSnapshot DEF Creating
    <2> QED BY <1>1, <1>2, <1>3, <2>1, FreshSnapshot, QuietCall
  <1>4. CASE rpc' = [rpc EXCEPT ![r].pc = "await"] /\ rpc[r].pc = "compare"
    <2>1. Goto(r, "await")
      BY <1>4 DEF Goto
    <2>2. rpc[r].snap \in LbState /\ Genuine(rpc[r].snap)
      BY <1>4 DEF IInv, Snapshots, Holding
    <2>3. "await" \in RpcPC /\ "await" # "snapshot" /\ "await" \notin Creating
      BY DEF RpcPC, Creating
    <2> QED BY <1>1, <1>2, <2>1, <2>2, <2>3, QuietGoto
  <1> QED BY <1>3, <1>4 DEF TakeSnapshot, Compare, Taken

\* An IDLE picker has an owner, so the work it schedules goes to a child.
LEMMA PickStep ==
    ASSUME IInv, NEW r \in Rpc, Pick(r)
    PROVE  IInv'
  <1>1. UNCHANGED <<channelVars, switchVars, loop, current, selectorVars>>
    BY DEF Pick
  <1>2. /\ rpc[r].pc = "pick" /\ rpc[r].pc \notin Creating
        /\ rpc[r].snap \in LbState /\ Genuine(rpc[r].snap)
    BY DEF Pick, IInv, Snapshots, Holding, Creating
  <1>3. triggered' \subseteq Ptr /\ work' \subseteq Handle
    BY <1>2 DEF Pick, IInv, TypeOK, LbState, Genuine
  <1>4. CASE rpc' = [rpc EXCEPT ![r] = IdleCall]
    <2>1. IdleCall.pc \notin Creating \cup Holding \cup {"snapshot"}
      BY IdleCallTyped DEF Creating, Holding
    <2> QED BY <1>1, <1>2, <1>3, <1>4, <2>1, IdleCallTyped, QuietCall
  <1>5. CASE Goto(r, "register")
    <2>1. "register" \in RpcPC /\ "register" # "snapshot" /\ "register" \notin Creating
      BY DEF RpcPC, Creating
    <2> QED BY <1>1, <1>2, <1>3, <1>5, <2>1, QuietGoto
  <1> QED BY <1>4, <1>5 DEF Pick

-----------------------------------------------------------------------------
(* Creating the channel.                                                   *)

\* A step that creates, or finds created, the channel moves one call to a place
\* where it holds no snapshot.
LEMMA CreationFrame ==
    ASSUME IInv, NEW r \in Rpc, NEW pc \in RpcPC, Goto(r, pc),
           pc \notin Holding, pc # "snapshot",
           stored' \in BOOLEAN, lock' \in Rpc \cup {NoChild}, built' \in Nat,
           loop' = loop \/ loop' = "idle",
           UNCHANGED <<switchVars, watcherVars, selectorVars>>
    PROVE  /\ TypeOK' /\ Snapshots' /\ Configured' /\ Switching'
           /\ rpc'[r].pc = pc
           /\ \A x \in Rpc \ {r} : rpc'[x].pc = rpc[x].pc
  <1> DEFINE c == [rpc[r] EXCEPT !.pc = pc]
  <1>1. c \in CallState /\ c.pc = pc /\ rpc' = [rpc EXCEPT ![r] = c]
    BY GotoIsUpdate
  <1>2. /\ triggered' \subseteq Ptr /\ work' \subseteq Handle
        /\ UNCHANGED <<switchVars, current, selectorVars>>
    BY DEF watcherVars, IInv, TypeOK
  <1> HIDE DEF c
  <1>3. /\ TypeOK' /\ Snapshots' /\ Configured' /\ Switching'
        /\ rpc'[r] = c
        /\ \A x \in Rpc \ {r} : rpc'[x] = rpc[x]
    BY <1>1, <1>2, CallFrame
  <1> QED BY <1>1, <1>3

\* The mutex, and the second check made under it, keep creation to one call.
LEMMA CreationStep ==
    ASSUME IInv, NEW r \in Rpc,
           TakeLock(r) \/ Recheck(r) \/ Build(r) \/ StoreChannel(r)
    PROVE  IInv'
  <1>1. /\ stored \in BOOLEAN /\ lock \in Rpc \cup {NoChild} /\ built \in Nat
        /\ Creation /\ NoChild \notin Rpc
    BY CallAssumption DEF IInv, TypeOK
  <1>2. CASE TakeLock(r)
    <2>1. /\ Goto(r, "recheck") /\ rpc[r].pc = "locking" /\ lock = NoChild /\ lock' = r
          /\ stored' = stored /\ built' = built /\ loop' = loop
          /\ UNCHANGED <<switchVars, watcherVars, selectorVars>>
      BY <1>2 DEF TakeLock
    <2>2. "recheck" \in RpcPC /\ "recheck" \notin Holding
      BY DEF RpcPC, Holding
    <2>3. /\ TypeOK' /\ Snapshots' /\ Configured' /\ Switching'
          /\ rpc'[r].pc = "recheck"
          /\ \A x \in Rpc \ {r} : rpc'[x].pc = rpc[x].pc
      BY <1>1, <2>1, <2>2, CreationFrame
    <2>4. Creation'
      BY <1>1, <2>1, <2>3 DEF Creation
    <2> QED BY <2>3, <2>4 DEF IInv
  <1>3. CASE Recheck(r) /\ stored
    <2>1. /\ Goto(r, "select") /\ rpc[r].pc = "recheck" /\ lock' = NoChild
          /\ stored' = stored /\ built' = built /\ loop' = loop
          /\ UNCHANGED <<switchVars, watcherVars, selectorVars>>
      BY <1>3 DEF Recheck
    <2>2. "select" \in RpcPC /\ "select" \notin Holding
      BY DEF RpcPC, Holding
    <2>3. /\ TypeOK' /\ Snapshots' /\ Configured' /\ Switching'
          /\ rpc'[r].pc = "select"
          /\ \A x \in Rpc \ {r} : rpc'[x].pc = rpc[x].pc
      BY <1>1, <2>1, <2>2, CreationFrame
    <2>4. Creation'
      BY <1>1, <1>3, <2>1, <2>3 DEF Creation
    <2> QED BY <2>3, <2>4 DEF IInv
  <1>4. CASE Recheck(r) /\ ~stored
    <2>1. /\ Goto(r, "build") /\ rpc[r].pc = "recheck" /\ lock' = lock
          /\ stored' = stored /\ built' = built /\ loop' = loop
          /\ UNCHANGED <<switchVars, watcherVars, selectorVars>>
      BY <1>4 DEF Recheck
    <2>2. "build" \in RpcPC /\ "build" \notin Holding
      BY DEF RpcPC, Holding
    <2>3. /\ TypeOK' /\ Snapshots' /\ Configured' /\ Switching'
          /\ rpc'[r].pc = "build"
          /\ \A x \in Rpc \ {r} : rpc'[x].pc = rpc[x].pc
      BY <1>1, <2>1, <2>2, CreationFrame
    <2>4. Creation'
      BY <1>1, <1>4, <2>1, <2>3 DEF Creation
    <2> QED BY <2>3, <2>4 DEF IInv
  <1>5. CASE Build(r)
    <2>1. /\ Goto(r, "store") /\ rpc[r].pc = "build" /\ lock' = lock
          /\ stored' = stored /\ built' = built + 1
          /\ loop' = loop \/ loop' = "idle"
          /\ UNCHANGED <<switchVars, watcherVars, selectorVars>>
      BY <1>5 DEF Build
    <2>2. "store" \in RpcPC /\ "store" \notin Holding /\ built + 1 \in Nat
      BY <1>1 DEF RpcPC, Holding
    <2>3. /\ TypeOK' /\ Snapshots' /\ Configured' /\ Switching'
          /\ rpc'[r].pc = "store"
          /\ \A x \in Rpc \ {r} : rpc'[x].pc = rpc[x].pc
      BY <1>1, <2>1, <2>2, CreationFrame
    <2>4. built = 0
      BY <1>1, <2>1 DEF Creation
    <2>5. Creation'
      BY <1>1, <2>1, <2>3, <2>4 DEF Creation
    <2> QED BY <2>3, <2>5 DEF IInv
  <1>6. CASE StoreChannel(r)
    <2>1. /\ Goto(r, "select") /\ rpc[r].pc = "store" /\ lock' = NoChild
          /\ stored' = TRUE /\ built' = built /\ loop' = loop
          /\ UNCHANGED <<switchVars, watcherVars, selectorVars>>
      BY <1>6 DEF StoreChannel
    <2>2. "select" \in RpcPC /\ "select" \notin Holding
      BY DEF RpcPC, Holding
    <2>3. /\ TypeOK' /\ Snapshots' /\ Configured' /\ Switching'
          /\ rpc'[r].pc = "select"
          /\ \A x \in Rpc \ {r} : rpc'[x].pc = rpc[x].pc
      BY <1>1, <2>1, <2>2, CreationFrame
    <2>4. built = 1
      BY <1>1, <2>1 DEF Creation
    <2>5. Creation'
      BY <1>1, <2>1, <2>3, <2>4 DEF Creation
    <2> QED BY <2>3, <2>5 DEF IInv
  <1> QED BY <1>2, <1>3, <1>4, <1>5, <1>6

-----------------------------------------------------------------------------
(* The inductive invariant, and what follows from it.                      *)

\* A new PersistentChannel satisfies the invariant.
LEMMA InitIInv == Init => IInv
  <1> SUFFICES ASSUME Init PROVE IInv
    OBVIOUS
  <1>1. \A r \in Rpc : rpc[r] = IdleCall
    BY DEF Init
  <1>2. rpc \in [Rpc -> CallState]
    BY IdleCallTyped DEF Init
  <1>3. \A r \in Rpc : rpc[r].pc = "idle"
    BY <1>1, IdleCallTyped
  <1>4. PICK p \in Ptr : p = CHOOSE q \in Ptr : TRUE
    BY FreePtrsNonempty DEF FreePtrs
  <1>5. current = [ptr |-> p, state |-> "CONNECTING", handle |-> NoChild]
    BY <1>4 DEF Init
  <1>6. current \in LbState /\ Genuine(current)
    BY <1>4, <1>5 DEF LbState, Genuine, ConnectivityStates
  <1>7. TypeOK
    <2>1. /\ selector = [epoch |-> 0, resolved |-> FALSE] /\ lbEpoch = 0
          /\ 0 \in 0 .. MaxResolver
      BY ResolverAssumption DEF Init
    <2>2. /\ selector \in [epoch : 0 .. MaxResolver, resolved : BOOLEAN]
          /\ lbEpoch \in 0 .. MaxResolver
      BY <2>1
    <2> QED BY <1>2, <1>6, <2>2 DEF Init, TypeOK, CallState
  <1>8. Snapshots /\ Switching
    BY <1>3, <1>6 DEF Snapshots, Switching, Holding, Init
  <1>9. Creation
    BY <1>3, CallAssumption DEF Creation, Init
  <1>10. Configured
    BY <1>3 DEF Configured, ConfigNotAhead, Init
  <1> QED BY <1>7, <1>8, <1>9, <1>10 DEF IInv

\* Every step of the channel preserves the invariant.
LEMMA NextIInv == IInv /\ [Next]_vars => IInv'
  <1> SUFFICES ASSUME IInv, [Next]_vars PROVE IInv'
    OBVIOUS
  <1>1. CASE LoopStep
    <2>1. CASE Notify
      BY <2>1, NotifyStep
    <2>2. CASE SelectorStore \/ SelectorResolved
      BY <2>2, SelectorStep
    <2>3. CASE \E h \in Handle : IdleWorkOf(h)
      <3>1. PICK h \in Handle : IdleWorkOf(h)
        BY <2>3
      <3>2. PICK s \in {"CONNECTING", "TRANSIENT_FAILURE"} : IdleWork(h, s)
        BY <3>1 DEF IdleWorkOf
      <3>3. s \in ConnectivityStates
        BY <3>2 DEF ConnectivityStates
      <3> QED BY <3>2, <3>3, IdleWorkStep
    <2> QED BY <1>1, <2>1, <2>2, <2>3 DEF LoopStep
  <1>2. CASE \E n \in Name, publishes \in BOOLEAN, s \in ConnectivityStates :
                ResolverUpdate(n, publishes, s)
    BY <1>2, ResolverUpdateStep
  <1>3. CASE \E c \in Children, s \in ConnectivityStates : ChildWork(c, s)
    BY <1>3, ChildWorkStep
  <1>4. CASE \E r \in Rpc : StartCall(r) \/ CallStep(r) \/ Abandon(r)
    <2>1. PICK r \in Rpc : StartCall(r) \/ CallStep(r) \/ Abandon(r)
      BY <1>4
    <2>2. CASE TakeLock(r) \/ Recheck(r) \/ Build(r) \/ StoreChannel(r)
      BY <2>2, CreationStep
    <2>3. CASE StartCall(r) \/ Register(r) \/ Wake(r) \/ Abandon(r)
      BY <2>3, WaitingStep
    <2>4. CASE SelectConfig(r)
      BY <2>4, SelectConfigStep
    <2>5. CASE TakeSnapshot(r) \/ Compare(r)
      BY <2>5, SnapshotStep
    <2>6. CASE Pick(r)
      BY <2>6, PickStep
    <2> QED BY <2>1, <2>2, <2>3, <2>4, <2>5, <2>6 DEF CallStep
  <1>5. CASE UNCHANGED vars
    BY <1>5 DEF vars, IInv, TypeOK, Snapshots, Creation, Configured, ConfigNotAhead,
                Switching
  <1> QED BY <1>1, <1>2, <1>3, <1>4, <1>5 DEF Next

\* The invariant holds in every reachable state of the channel.
LEMMA IInvHolds == SafetySpec => []IInv
  BY InitIInv, NextIInv, PTL DEF SafetySpec

\* Every reachable state of the channel is well typed; in particular the work an
\* IDLE picker schedules always carries the handle of a child.
THEOREM ChannelTypes == SafetySpec => []TypeOK
  <1>1. IInv => TypeOK
    BY DEF IInv
  <1> QED BY <1>1, IInvHolds, PTL

\* However many calls arrive at once, the mutex and the second check under it let
\* one ActiveChannel be built.
THEOREM OneChannelBuilt == SafetySpec => []OneChannel
  <1>1. IInv => OneChannel
    BY DEF IInv, Creation, OneChannel
  <1> QED BY <1>1, IInvHolds, PTL

\* No call is configured by a resolver update the LB policy has not handled.
THEOREM NeverAhead == SafetySpec => []ConfigNotAhead
  <1>1. IInv => ConfigNotAhead
    BY DEF IInv, Configured
  <1> QED BY <1>1, IInvHolds, PTL

\* Whatever policies configs name and whatever their children publish, between
\* work items the picker calls use is the active policy's latest.
THEOREM PublishedPicker == SafetySpec => []PublishedIsActive
  <1>1. IInv => PublishedIsActive
    BY DEF IInv, Switching, PublishedIsActive
  <1> QED BY <1>1, IInvHolds, PTL

\* A pending policy is kept only while it connects behind a READY one.
THEOREM PromptSwitch == SafetySpec => []SwitchIsPrompt
  <1>1. IInv => SwitchIsPrompt
    BY DEF IInv, Switching, Settled, SwitchIsPrompt
  <1> QED BY <1>1, IInvHolds, PTL

\* The latest policy, and no other, may ask for resolution: no sequence of switches
\* started and called off leaves the suppression flags behind.
THEOREM LatestResolves == SafetySpec => []LatestMayResolve
  <1>1. IInv => LatestMayResolve
    BY DEF IInv, Switching, Settled, LatestMayResolve
  <1> QED BY <1>1, IInvHolds, PTL
=============================================================================
