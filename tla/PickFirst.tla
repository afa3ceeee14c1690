------------------------------ MODULE PickFirst ------------------------------
(***************************************************************************)
(* The pick_first policy (grpc/src/client/load_balancing/pick_first.rs)    *)
(* below the subchannel sharing layer every channel puts above its policy  *)
(* tree (load_balancing/subchannel_sharing.rs), driven by the channel's    *)
(* single work queue.                                                      *)
(*                                                                         *)
(* Work items are handled one at a time; what runs on other threads only   *)
(* appends to the queue: subchannels that change state, the happy eyeballs *)
(* timer, calls that hit an IDLE picker, the resolver, and drops of        *)
(* pickers that calls still hold.  Each internal subchannel is the         *)
(* documented machine that module Subchannel implements.                   *)
(***************************************************************************)
EXTENDS Integers, Sequences, FiniteSets, FiniteSetsExt, SequencesExt

CONSTANTS Addr,          \* addresses the resolver may return
          Family,        \* their families: 0 for IPv6, 1 for IPv4, 2 for the others
          AddrLists,     \* the lists it returns, endpoints flattened (and shuffled)
          ExtIds,        \* identities for SharedSubchannels of one address
          MaxQueue,      \* bound on queued work before outside events wait
          MaxResolver    \* bound on resolver results

ASSUME ListsAssumption ==
    /\ AddrLists \subseteq Seq(Addr)
    /\ Family \in [Addr -> 0 .. 2]

ASSUME BoundsAssumption ==
    ExtIds \subseteq Nat /\ MaxQueue \in Nat /\ MaxResolver \in Nat

VARIABLES
    pf,         \* struct PickFirstPolicy
    picker,     \* the LbState published last
    entry,      \* sharing: cached state of the internal subchannel, or "NONE"
    sub,        \* the internal subchannels' own states
    queue,      \* the channel's work queue
    pinned,     \* SharedSubchannels in pickers that calls still hold
    resolved,   \* number of resolver results so far
    asked,      \* a re-resolution was requested since the last result
    panicked,   \* the work loop panicked
    reused      \* history: the policy was handed a subchannel it had dropped

vars == <<pf, picker, entry, sub, queue, pinned, resolved, asked, panicked, reused>>

States == {"IDLE", "CONNECTING", "READY", "TRANSIENT_FAILURE"}

Ext == [addr : Addr, id : ExtIds]

AddrOf(exts) == {e.addr : e \in exts}

Exts(list) == Range(list)

\* An optional SharedSubchannel.
MaybeExt == {{}} \cup {{e} : e \in Ext}

\* struct PickFirstPolicy: the list with the cached states, the selected
\* SharedSubchannel, the frontier (1 is the first index), whether there is a
\* last_connection_error, the timer and the steady state with its count.
Policy ==
    [conn : States, list : Seq(Ext), cache : [Addr -> States \cup {"NONE"}],
     sel : MaybeExt, frontier : Nat \ {0}, err : BOOLEAN,
     timer : {"none", "running", "expired"}, steady : BOOLEAN, fails : Nat]

\* A published LbState.
Pickers == [state : States, ext : MaybeExt, triggered : BOOLEAN]

\* What the channel's queue carries.
WorkItem ==
    [kind : {"work", "resolver"}]
        \cup [kind : {"ext"}, ext : Ext, state : States]
        \cup [kind : {"internal"}, addr : Addr, state : States]
        \cup [kind : {"released"}, addr : Addr]

Distinct(list) == \A i, j \in DOMAIN list : list[i].addr = list[j].addr => i = j

TypeOK ==
    /\ pf \in Policy /\ Distinct(pf.list)
    /\ picker \in Pickers
    /\ entry \in [Addr -> States \cup {"NONE"}]
    /\ sub \in [Addr -> States]
    /\ queue \in Seq(WorkItem)
    /\ pinned \in MaybeExt
    /\ resolved \in 0 .. MaxResolver
    /\ asked \in BOOLEAN /\ panicked \in BOOLEAN /\ reused \in BOOLEAN

Init ==
    /\ pf = [conn |-> "IDLE", list |-> <<>>, cache |-> [a \in Addr |-> "NONE"],
             sel |-> {}, frontier |-> 1, err |-> FALSE, timer |-> "none",
             steady |-> FALSE, fails |-> 0]
    /\ picker = [state |-> "CONNECTING", ext |-> {}, triggered |-> FALSE]
    /\ entry = [a \in Addr |-> "NONE"]
    /\ sub = [a \in Addr |-> "IDLE"]
    /\ queue = <<>>
    /\ pinned = {}
    /\ resolved = 0
    /\ asked = FALSE
    /\ panicked = FALSE
    /\ reused = FALSE

\* The items of f at the positions in keep, in order.
ItemsAt(f, keep) ==
    [i \in 1 .. Cardinality(keep) |->
        f[CHOOSE j \in keep : Cardinality({k \in keep : k < j}) = i - 1]]

-----------------------------------------------------------------------------
(* The policy's methods, as functions of a call record: the policy, what   *)
(* it published, which subchannels it told to connect, and whether it      *)
(* asked for re-resolution or panicked.                                    *)

Call(p) == [p |-> p, picker |-> picker, connects |-> <<>>, resolve |-> FALSE,
            panic |-> FALSE]

\* update_picker drops redundant CONNECTING updates.
UpdatePicker(c, s, exts) ==
    IF c.p.conn = s /\ s = "CONNECTING" THEN c
    ELSE [c EXCEPT !.p.conn = s,
                   !.picker = [state |-> s, ext |-> exts, triggered |-> FALSE]]

\* Mutant: the failure is published, re-resolution is not requested.
SetFailureQuietly(c, some) ==
    IF ~(some \/ c.p.err) THEN [c EXCEPT !.panic = TRUE]
    ELSE UpdatePicker([c EXCEPT !.p.err = TRUE], "TRANSIENT_FAILURE", {})

\* set_transient_failure: some says that the caller has an error to report.
SetTransientFailure(c, some) ==
    IF ~(some \/ c.p.err) THEN [c EXCEPT !.panic = TRUE]
    ELSE [UpdatePicker([c EXCEPT !.p.err = TRUE], "TRANSIENT_FAILURE", {})
              EXCEPT !.resolve = TRUE]

\* advance_frontier: the first index from start on that is not failing.
AdvanceFrontier(p, start) ==
    LET viable == {i \in start .. Len(p.list) :
                       p.cache[p.list[i].addr] # "TRANSIENT_FAILURE"}
    IN  IF viable # {} THEN Min(viable) ELSE Max({start, Len(p.list) + 1})

\* trigger_subchannel_connection on the frontier.
Trigger(c) ==
    LET a == c.p.list[c.p.frontier].addr
    IN  [c EXCEPT !.p.cache[a] = "CONNECTING", !.p.timer = "running",
                  !.connects = Append(@, a)]

\* The frontier advances, and the subchannel it reaches is told to connect.
TryNext(c, start) ==
    LET f == AdvanceFrontier(c.p, start)
        d == [c EXCEPT !.p.frontier = f]
    IN  IF f <= Len(c.p.list) THEN Trigger(d) ELSE d

\* Mutant: a new pass leaves the old selection in place.
PassKeepingSelected(c) ==
    LET d == TryNext(c, 1)
    IN  IF d.p.frontier <= Len(d.p.list)
        THEN UpdatePicker(d, "CONNECTING", {})
        ELSE SetTransientFailure(d, FALSE)

StartConnectionPass(c) ==
    LET d == TryNext([c EXCEPT !.p.sel = {}], 1)
    IN  IF d.p.frontier <= Len(d.p.list)
        THEN UpdatePicker(d, "CONNECTING", {})
        ELSE SetTransientFailure(d, FALSE)

Selected(p, e) == e.addr \in AddrOf(p.sel)

\* subchannel_activate keeps only the winner.
Activate(c, e) ==
    IF Selected(c.p, e) THEN c
    ELSE UpdatePicker([c EXCEPT !.p.sel = {e}, !.p.list = <<e>>,
                                !.p.steady = FALSE, !.p.timer = "none"],
                      "READY", {e})

\* The exhaustion check of update_first_pass: the pass ends, steady state begins
\* and idle subchannels are told to connect.
EnterSteady(c) ==
    LET d == SetTransientFailure([c EXCEPT !.p.timer = "none"], c.p.err)
        idle == {i \in DOMAIN c.p.list : c.p.cache[c.p.list[i].addr] = "IDLE"}
        addrs == [i \in DOMAIN c.p.list |-> c.p.list[i].addr]
    IN  IF d.panic THEN d
        ELSE [d EXCEPT !.p.steady = TRUE, !.p.fails = 0,
                       !.connects = @ \o ItemsAt(addrs, idle)]

AnyConnecting(p) == \E e \in Exts(p.list) : p.cache[e.addr] = "CONNECTING"

UpdateFirstPass(c, a, s) ==
    LET atFrontier == /\ c.p.frontier <= Len(c.p.list)
                      /\ c.p.list[c.p.frontier].addr = a
        d == IF atFrontier /\ s = "TRANSIENT_FAILURE"
             THEN TryNext(c, c.p.frontier + 1) ELSE c
    IN  IF d.p.frontier > Len(d.p.list) /\ ~AnyConnecting(d.p)
        THEN EnterSteady(d) ELSE d

\* Mutant: in steady state an idle subchannel is left alone.
NonreadyLeavesIdle(c, a, s) ==
    IF s = "TRANSIENT_FAILURE" /\ c.p.fails + 1 >= Len(c.p.list)
    THEN [c EXCEPT !.p.fails = 0, !.resolve = TRUE]
    ELSE [c EXCEPT !.p.fails = @ + 1]

\* SteadyState::subchannel_nonready.
SubchannelNonready(c, a, s) ==
    CASE s = "IDLE" -> [c EXCEPT !.connects = Append(@, a)]
      [] s = "TRANSIENT_FAILURE" ->
            IF c.p.fails + 1 >= Len(c.p.list)
            THEN [c EXCEPT !.p.fails = 0, !.resolve = TRUE]
            ELSE [c EXCEPT !.p.fails = @ + 1]
      [] OTHER -> c

\* subchannel_drop: the selected subchannel lost its connection.
SubchannelDrop(c) == UpdatePicker([c EXCEPT !.p.sel = {}], "IDLE", {})

\* Mutant: a selected subchannel that is no longer ready is left selected.
UpdateKeepingSelected(c, e, s) ==
    LET known == [c EXCEPT !.p.cache[e.addr] = s]
        seen == [known EXCEPT !.p.err = @ \/ s = "TRANSIENT_FAILURE"]
    IN  IF e.addr \notin AddrOf(Exts(c.p.list)) THEN c
        ELSE IF Selected(c.p, e) THEN known
        ELSE IF s = "READY" THEN Activate(known, e)
        ELSE IF c.p.steady THEN SubchannelNonready(seen, e.addr, s)
        ELSE UpdateFirstPass(seen, e.addr, s)

\* Mutant: the error of a failed attempt is not recorded.
UpdateForgettingError(c, e, s) ==
    LET known == [c EXCEPT !.p.cache[e.addr] = s]
    IN  IF e.addr \notin AddrOf(Exts(c.p.list)) THEN c
        ELSE IF Selected(c.p, e) THEN IF s = "READY" THEN known ELSE SubchannelDrop(known)
        ELSE IF s = "READY" THEN Activate(known, e)
        ELSE IF c.p.steady THEN SubchannelNonready(known, e.addr, s)
        ELSE UpdateFirstPass(known, e.addr, s)

\* subchannel_update, for the SharedSubchannel e the update carries.
SubchannelUpdate(c, e, s) ==
    LET known == [c EXCEPT !.p.cache[e.addr] = s]
        seen == [known EXCEPT !.p.err = @ \/ s = "TRANSIENT_FAILURE"]
    IN  IF e.addr \notin AddrOf(Exts(c.p.list)) THEN c
        ELSE IF Selected(c.p, e) THEN IF s = "READY" THEN known ELSE SubchannelDrop(known)
        ELSE IF s = "READY" THEN Activate(known, e)
        ELSE IF c.p.steady THEN SubchannelNonready(seen, e.addr, s)
        ELSE UpdateFirstPass(seen, e.addr, s)

\* exit_idle.
ExitIdle(c) ==
    IF c.p.conn = "IDLE" /\ c.p.list # <<>> THEN StartConnectionPass(c) ELSE c

\* work(None): the IDLE picker was used, or the timer went off.
WorkNone(c) ==
    IF c.p.conn = "IDLE" THEN ExitIdle(c)
    ELSE IF c.p.timer = "expired" THEN TryNext(c, c.p.frontier + 1)
    ELSE c

-----------------------------------------------------------------------------
(* Who holds which SharedSubchannel.                                       *)

InQueue(q) == {q[i].ext : i \in {j \in DOMAIN q : q[j].kind = "ext"}}

HeldBy(p, pk, q, pins) == Exts(p.list) \cup p.sel \cup pk.ext \cup InQueue(q) \cup pins

Held == HeldBy(pf, picker, queue, pinned)

\* Mutant: a drop schedules nothing.
NoReleases(before, after) == <<>>

\* SharedSubchannel::drop schedules a release for every one that just died.
Releases(before, after) ==
    [i \in 1 .. Cardinality(before \ after) |->
        [kind |-> "released", addr |-> SetToSeq(before \ after)[i].addr]]

\* connect() of the internal subchannels, in order: an idle one starts
\* connecting and reports it to the sharing layer.
ConnectedBy(connects, subs) ==
    [a \in Addr |-> IF a \in Range(connects) /\ subs[a] = "IDLE"
                    THEN "CONNECTING" ELSE subs[a]]

Reports(connects, subs) ==
    ItemsAt([i \in DOMAIN connects |->
                [kind |-> "internal", addr |-> connects[i], state |-> "CONNECTING"]],
            {i \in DOMAIN connects : subs[connects[i]] = "IDLE"})

\* The head of the queue was handled by call c, which created the
\* SharedSubchannels new (their internal subchannels start idle).
Finish(c, new) ==
    LET rest == Tail(queue)
        fresh == {a \in AddrOf(new) : entry[a] = "NONE"}
        subs == [a \in Addr |-> IF a \in fresh THEN "IDLE" ELSE sub[a]]
        after == HeldBy(c.p, c.picker, rest, pinned)
    IN  /\ pf' = c.p
        /\ picker' = c.picker
        /\ entry' = [a \in Addr |-> IF a \in fresh THEN "IDLE" ELSE entry[a]]
        /\ sub' = ConnectedBy(c.connects, subs)
        /\ queue' = rest \o Releases(Held \cup new, after)
                         \o Reports(c.connects, subs)
        /\ asked' = (asked \/ c.resolve)
        /\ panicked' = c.panic
        /\ reused' = (reused \/ \E a \in AddrOf(new) : entry[a] # "NONE")
        /\ UNCHANGED <<pinned, resolved>>

HeadIs(kind) == ~panicked /\ queue # <<>> /\ Head(queue).kind = kind

-----------------------------------------------------------------------------
(* The work loop.                                                          *)

\* A SubchannelUpdate reaches the policy's work method.
HandleUpdate ==
    /\ HeadIs("ext")
    /\ Finish(SubchannelUpdate(Call(pf), Head(queue).ext, Head(queue).state), {})

HandleWork == HeadIs("work") /\ Finish(WorkNone(Call(pf)), {})

\* Mutant: the flattened list is used as it comes.
AddressesAsListed(raw) == raw

\* compile_address: duplicates go, then the families take turns, each in the
\* order of the list.
CompileAddress(raw) ==
    LET first(a) == Min({i \in DOMAIN raw : raw[i] = a})
        turn(a) == Cardinality({b \in Range(raw) :
                       Family[b] = Family[a] /\ first(b) < first(a)})
        place(a) == 3 * turn(a) + Family[a]
        places == {place(a) : a \in Range(raw)}
    IN  ItemsAt([n \in places |-> CHOOSE a \in Range(raw) : place(a) = n], places)

\* rebuild_subchannels: existing subchannels are kept with their cached states,
\* the others come from the sharing layer with the state it remembers.
Rebuild(c, addrs, ids) ==
    LET old == c.p.list
        keep(a) == {e \in Exts(old) : e.addr = a}
        ext(a) == IF keep(a) # {} THEN CHOOSE e \in keep(a) : TRUE
                  ELSE [addr |-> a, id |-> ids[a]]
        state(a) == IF keep(a) # {} THEN c.p.cache[a]
                    ELSE IF entry[a] = "NONE" THEN "IDLE" ELSE entry[a]
        list == [i \in DOMAIN addrs |-> ext(addrs[i])]
        ready == {i \in DOMAIN addrs : state(addrs[i]) = "READY"}
        sticky == {i \in ready : Selected(c.p, list[i])}
        d == [c EXCEPT !.p.list = list,
                       !.p.cache = [a \in Addr |-> IF a \in Range(addrs)
                                                   THEN state(a) ELSE "NONE"]]
    IN  IF ready = {} THEN StartConnectionPass(d)
        ELSE Activate(d, list[Min(IF sticky # {} THEN sticky ELSE ready)])

\* resolver_update with an address list.
HandleAddresses(raw) ==
    /\ HeadIs("resolver")
    /\ LET addrs == CompileAddress(raw)
           c == Call([pf EXCEPT !.timer = "none", !.steady = FALSE])
           made == Range(addrs) \ AddrOf(Exts(pf.list))
           free(a) == {n \in ExtIds : [addr |-> a, id |-> n] \notin Held}
       IN  /\ \A a \in made : free(a) # {}
           /\ IF addrs = <<>>
              THEN Finish(SetTransientFailure([c EXCEPT !.p.list = <<>>, !.p.sel = {}],
                                              TRUE), {})
              ELSE LET ids == [a \in made |-> Min(free(a))]
                   IN  Finish(Rebuild(c, addrs, ids),
                              {[addr |-> a, id |-> ids[a]] : a \in made})

\* resolver_update with an error.
HandleResolverError ==
    /\ HeadIs("resolver")
    /\ LET c == Call([pf EXCEPT !.timer = "none", !.steady = FALSE])
       IN  Finish(IF pf.list = <<>> \/ pf.conn = "TRANSIENT_FAILURE"
                  THEN SetTransientFailure(c, TRUE) ELSE c, {})

\* deliver_subchannel_update: the entry remembers the state, every live
\* SharedSubchannel of the address gets an update of its own.
DeliverInternal ==
    /\ HeadIs("internal")
    /\ LET a == Head(queue).addr
           s == Head(queue).state
           live == SetToSeq({e \in Held : e.addr = a})
       IN  /\ entry' = [entry EXCEPT ![a] = s]
           /\ queue' = Tail(queue) \o [i \in DOMAIN live |->
                          [kind |-> "ext", ext |-> live[i], state |-> s]]
    /\ UNCHANGED <<pf, picker, sub, pinned, resolved, asked, panicked, reused>>

\* Mutant: the entry is removed without looking for newer SharedSubchannels.
ReleaseUnconditionally ==
    /\ HeadIs("released")
    /\ entry' = [entry EXCEPT ![Head(queue).addr] = "NONE"]
    /\ sub' = [sub EXCEPT ![Head(queue).addr] = "IDLE"]
    /\ queue' = Tail(queue)
    /\ UNCHANGED <<pf, picker, pinned, resolved, asked, panicked, reused>>

\* release_subchannel: the entry goes when no SharedSubchannel is left, and the
\* internal subchannel with it; its queued updates and releases, which carry that
\* very subchannel, find no entry any more.
ReleaseSubchannel ==
    /\ HeadIs("released")
    /\ LET a == Head(queue).addr
           gone == a \notin AddrOf(Held)
           others(q) == ItemsAt(q, {i \in DOMAIN q :
                            ~(q[i].kind \in {"internal", "released"} /\ q[i].addr = a)})
       IN  /\ entry' = IF gone THEN [entry EXCEPT ![a] = "NONE"] ELSE entry
           /\ sub' = IF gone THEN [sub EXCEPT ![a] = "IDLE"] ELSE sub
           /\ queue' = IF gone THEN others(Tail(queue)) ELSE Tail(queue)
    /\ UNCHANGED <<pf, picker, pinned, resolved, asked, panicked, reused>>

-----------------------------------------------------------------------------
(* Other threads.                                                          *)

Room == Len(queue) < MaxQueue

Enqueue(w) == queue' = Append(queue, w)

\* An internal subchannel that exists moves on by itself.
SubchannelMoves(a, s) ==
    /\ entry[a] # "NONE" /\ Room
    /\ <<sub[a], s>> \in {<<"CONNECTING", "READY">>,
                          <<"CONNECTING", "TRANSIENT_FAILURE">>,
                          <<"READY", "IDLE">>, <<"TRANSIENT_FAILURE", "IDLE">>}
    /\ sub' = [sub EXCEPT ![a] = s]
    /\ Enqueue([kind |-> "internal", addr |-> a, state |-> s])
    /\ UNCHANGED <<pf, picker, entry, pinned, resolved, asked, panicked, reused>>

\* The happy eyeballs timer fires.
TimerFires ==
    /\ pf.timer = "running" /\ Room
    /\ pf' = [pf EXCEPT !.timer = "expired"]
    /\ Enqueue([kind |-> "work"])
    /\ UNCHANGED <<picker, entry, sub, pinned, resolved, asked, panicked, reused>>

\* A call is queued by the IDLE picker, which schedules work once.
PickIdle ==
    /\ picker.state = "IDLE" /\ ~picker.triggered /\ Room
    /\ picker' = [picker EXCEPT !.triggered = TRUE]
    /\ Enqueue([kind |-> "work"])
    /\ UNCHANGED <<pf, entry, sub, pinned, resolved, asked, panicked, reused>>

\* A call takes a READY picker and keeps it while it starts.
PickReady ==
    /\ picker.state = "READY" /\ pinned = {}
    /\ pinned' = picker.ext
    /\ UNCHANGED <<pf, picker, entry, sub, queue, resolved, asked, panicked, reused>>

\* The call lets go of its picker, on whatever thread it runs.
CallStarted ==
    /\ pinned # {}
    /\ pinned' = {}
    /\ queue' = queue \o Releases(Held, HeldBy(pf, picker, queue, {}))
    /\ UNCHANGED <<pf, picker, entry, sub, resolved, asked, panicked, reused>>

\* The resolver has a result and schedules work for itself.
ResolverHasResult ==
    /\ resolved < MaxResolver /\ Room
    /\ resolved' = resolved + 1
    /\ asked' = FALSE
    /\ Enqueue([kind |-> "resolver"])
    /\ UNCHANGED <<pf, picker, entry, sub, pinned, panicked, reused>>

WorkLoop ==
    \/ HandleUpdate
    \/ HandleWork
    \/ \E l \in AddrLists : HandleAddresses(l)
    \/ HandleResolverError
    \/ DeliverInternal
    \/ ReleaseSubchannel

Next ==
    \/ WorkLoop
    \/ \E a \in Addr, s \in States : SubchannelMoves(a, s)
    \/ TimerFires
    \/ PickIdle
    \/ PickReady
    \/ CallStarted
    \/ ResolverHasResult

Spec == Init /\ [][Next]_vars

-----------------------------------------------------------------------------
(* Properties.                                                             *)

\* A SharedSubchannel that is still in use keeps its entry: a release queued for
\* an older one of the same address never cuts it off from updates.
NeverOrphaned == ~panicked => \A e \in Held : entry[e.addr] # "NONE"

\* Once the queue is drained no internal subchannel is kept for nobody, and the
\* states the sharing layer hands out are the real ones.
NoLeak ==
    queue = <<>> /\ ~panicked =>
        \A a \in Addr : entry[a] # "NONE" =>
            a \in AddrOf(Held) /\ entry[a] = sub[a]

\* When all updates have been handled, a READY picker offers a READY subchannel.
ReadyIsReady ==
    queue = <<>> /\ ~panicked /\ picker.state = "READY" =>
        \A e \in picker.ext : sub[e.addr] = "READY"

\* A policy that reports TRANSIENT_FAILURE and has nothing selected has asked for
\* new addresses since the last ones came, so a name that moved is not failed
\* forever.  With a READY subchannel selected it may fail calls without asking: a
\* failure of a reused subchannel hides the selection, and a resolver update that
\* keeps the selection publishes nothing (subchannel_activate returns early).
AsksAgain ==
    pf.conn = "TRANSIENT_FAILURE" /\ pf.sel = {} /\ ~panicked =>
        asked \/ \E i \in DOMAIN queue : queue[i].kind = "resolver"

\* "all addresses are in transient failure: update picker" (pick_first.rs:273):
\* a pass that finds nothing to try publishes a failing picker; set_transient_failure
\* always has an error to publish.
NoPanic == ~panicked

\* The three properties below need one proviso: the sharing layer has not yet
\* handed out a subchannel that was created for someone else.

\* Within it, a pass always has an error when it needs one.
FreshNoPanic == ~reused => ~panicked

\* Within it, a READY picker is published exactly while a subchannel is selected:
\* no failure of another address hides a working connection.
FreshSelected == ~reused /\ ~panicked => (pf.sel # {} <=> pf.conn = "READY")

\* Within it, when all updates have been handled, a policy that queues calls has
\* an attempt under way, and one that fails them has an attempt or a backoff
\* under way whose end it will hear of.
FreshNotStuck ==
    ~reused /\ ~panicked /\ queue = <<>> /\ pf.list # <<>> =>
        /\ pf.conn = "CONNECTING" =>
              \E e \in Exts(pf.list) : sub[e.addr] = "CONNECTING"
        /\ pf.conn = "TRANSIENT_FAILURE" =>
              \E e \in Exts(pf.list) :
                  sub[e.addr] \in {"CONNECTING", "TRANSIENT_FAILURE"}
=============================================================================
