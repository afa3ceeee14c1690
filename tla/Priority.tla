------------------------------ MODULE Priority ------------------------------
(***************************************************************************)
(* The priority_experimental LB policy                                     *)
(* (grpc/src/client/load_balancing/priority/mod.rs): an ordered list of    *)
(* children, created lazily, of which one is in use.  A child that stays   *)
(* CONNECTING for too long or fails is passed over; children below one     *)
(* that is READY or IDLE are deactivated and deleted after a while.        *)
(*                                                                         *)
(* The channel's work loop runs the policy's operations one at a time.     *)
(* What runs beside it are the tasks of the timers.  A child is any policy *)
(* behind child_manager.rs's Child: it may report any state whenever it is *)
(* called.                                                                 *)
(***************************************************************************)
EXTENDS Naturals, Sequences

CONSTANTS Name,     \* names of children
          Orders,   \* the priority lists the resolver may send
          Reported, \* the connectivity states children report
          MaxWork,  \* bound: timer tasks past their sleep whose work has not run
          None

\* Names of a list are distinct.
ASSUME OrdersAssumption ==
    \A o \in Orders : /\ o \in Seq(Name)
                      /\ \A i, j \in 1 .. Len(o) : o[i] = o[j] => i = j

Connectivity == {"IDLE", "CONNECTING", "READY", "TRANSIENT_FAILURE"}

ASSUME ReportedAssumption == Reported \subseteq Connectivity

ASSUME MaxWorkAssumption == MaxWork \in Nat

VARIABLES
    order,      \* the names in PriorityPolicy.children, highest priority first
    child,      \* ChildData.child of each name
    current,    \* current_priority, counted from 1; 0 stands for None
    published,  \* published_lb_state
    firing,     \* timer tasks between the store of their flag and schedule_work
    queued      \* PriorityTimerWork items in the channel's work queue

vars == <<order, child, current, published, firing, queued>>

\* A Timer in its slot: absent, not yet expired, or with its flag set.
TimerState == {"none", "running", "expired"}

\* Pickers differ if they are different allocations; a child's two are enough
\* to tell its latest from the one before.
Picker == {0, 1}

CreatedChild ==
    [reported : Connectivity, picker : Picker,                  \* Child::state
     state : {"Connecting", "ConnectingExpired", "TransientFailure", "ReadyOrIdle"},
     failover_timer : TimerState,                               \* of Connecting
     deactivation_timer : TimerState]

\* An LbState is known by who produced it.
LbState == [by : Name \cup {"empty"}, reported : Connectivity, picker : Picker]

ASSUME NoneAssumption == None \notin CreatedChild /\ None \notin LbState

TypeOK ==
    /\ order \in Orders \cup {<<>>}
    /\ child \in [Name -> CreatedChild \cup {None}]
    /\ \A n \in Name : child[n] # None =>
          (child[n].state = "Connecting" <=> child[n].failover_timer # "none")
    /\ current \in 0 .. Len(order)
    /\ published \in LbState \cup {None}
    /\ firing \in 0 .. MaxWork
    /\ queued \in 0 .. (MaxWork - firing)

Elements(o) == {o[i] : i \in 1 .. Len(o)}

\* Builder::build.
Init ==
    /\ order = <<>>
    /\ child = [n \in Name |-> None]
    /\ current = 0
    /\ published = None
    /\ firing = 0
    /\ queued = 0

-----------------------------------------------------------------------------
(* The child's own calls.                                                  *)

\* WrappedController::update_picker: the child's new state, in a new picker.
Reports(c, n, s) ==
    [c EXCEPT !.reported = s,
              !.picker = IF published # None /\ published.by = n /\ published.picker = 0 THEN 1 ELSE 0]

\* ChildState::from_connectivity_state: the state, and its failover timer.
FromConnectivityState(s) ==
    CASE s \in {"IDLE", "READY"} -> [state |-> "ReadyOrIdle", timer |-> "none"]
      [] s = "CONNECTING" -> [state |-> "Connecting", timer |-> "running"]
      [] s = "TRANSIENT_FAILURE" -> [state |-> "TransientFailure", timer |-> "none"]

Expired == [state |-> "ConnectingExpired", timer |-> "none"]

\* Mutant: a child that leaves Connecting keeps its failover timer.
StateOnly(c, s) ==
    [c EXCEPT !.state = s.state, !.failover_timer = IF @ = "none" THEN s.timer ELSE @]

\* Child c with its state, and the timer in it, replaced.
In(c, s) ==
    [reported |-> c.reported, picker |-> c.picker, state |-> s.state, failover_timer |-> s.timer,
     deactivation_timer |-> c.deactivation_timer]

\* Mutant: a child that fails gets another failover timer when it tries again.
UpdateAfresh(c) ==
    IF c.state \in {"Connecting", "ConnectingExpired"} /\ c.reported = "CONNECTING"
    THEN IF c.failover_timer = "running" THEN c ELSE In(c, Expired)
    ELSE In(c, FromConnectivityState(c.reported))

\* ChildState::update: no second failover timer before the child is READY or IDLE.
Update(c) ==
    CASE c.state = "Connecting" /\ c.reported = "CONNECTING" ->
            IF c.failover_timer = "expired" THEN In(c, Expired) ELSE c
      [] c.state \in {"ConnectingExpired", "TransientFailure"} /\ c.reported = "CONNECTING" ->
            In(c, Expired)
      [] OTHER -> In(c, FromConnectivityState(c.reported))

-----------------------------------------------------------------------------
(* reconcile, which ends every operation, as a function of the list o, the *)
(* children cs as the operation leaves them, and what each child that it   *)
(* creates reports when it is first updated (born).                        *)

HandleDeactivationTimer(c) == IF c # None /\ c.deactivation_timer = "expired" THEN None ELSE c

UpdateChildData(c) == IF c = None THEN None ELSE Update(c)

Create(s) ==
    In([reported |-> s, picker |-> 0, state |-> "Connecting", failover_timer |-> "none",
        deactivation_timer |-> "none"], FromConnectivityState(s))

\* Mutant: a deactivated child is used again with its timer left running.
VisitAsIs(c, s) == IF c = None THEN Create(s) ELSE c

\* choose_priority comes to a child: it is created or reactivated.
Visit(c, s) == IF c = None THEN Create(s) ELSE [c EXCEPT !.deactivation_timer = "none"]

LbStateOf(cs, n) == [by |-> n, reported |-> cs[n].reported, picker |-> cs[n].picker]

\* What choose_priority reports for an empty list.
EmptyList == [by |-> "empty", reported |-> "TRANSIENT_FAILURE", picker |-> 0]

\* Mutant: a new picker for the same connectivity state is not published.
UpdatePickerByState(s) ==
    IF published # None /\ published.by = s.by /\ published.reported = s.reported
    THEN published ELSE s

\* update_picker: what is published after it.
UpdatePicker(s) == IF published = s THEN published ELSE s

\* set_current_priority.  A child already deactivated keeps its timer.
SetCurrentPriority(o, cs, index, deactivate_lower) ==
    [child |-> [n \in Name |->
        IF /\ deactivate_lower /\ cs[n] # None /\ cs[n].deactivation_timer = "none"
           /\ \E i \in (index + 1) .. Len(o) : o[i] = n
        THEN [cs[n] EXCEPT !.deactivation_timer = "running"] ELSE cs[n]],
     current |-> index,
     published |-> UpdatePicker(LbStateOf(cs, o[index]))]

First(S) == CHOOSE i \in S : \A j \in S : i <= j

\* choose_priority.
ChoosePriority(o, cs, born) ==
    LET visit == [i \in 1 .. Len(o) |-> Visit(cs[o[i]], born[o[i]])]
        usable == {i \in 1 .. Len(o) : visit[i].state \in {"Connecting", "ReadyOrIdle"}}
        last == IF usable = {} THEN Len(o) ELSE First(usable)
        trying == {i \in 1 .. last : visit[i].state = "ConnectingExpired"}
        visited == [n \in Name |->
                       IF \E i \in 1 .. last : o[i] = n THEN Visit(cs[n], born[n]) ELSE cs[n]]
    IN  CASE o = <<>> ->
                [child |-> cs, current |-> 0, published |-> UpdatePicker(EmptyList)]
          [] o # <<>> /\ usable # {} ->
                SetCurrentPriority(o, visited, last, visit[last].state = "ReadyOrIdle")
          [] o # <<>> /\ usable = {} /\ trying # {} ->
                SetCurrentPriority(o, visited, First(trying), FALSE)
          [] OTHER -> SetCurrentPriority(o, visited, Len(o), FALSE)

\* Mutant: the choice is made on the states of the operation before.
ChooseFirst(o, cs) ==
    \E now \in {[n \in Name |-> HandleDeactivationTimer(cs[n])]} :
    \E born \in [{n \in Elements(o) : now[n] = None} -> Reported] :
    \E r \in {ChoosePriority(o, now, born)} :
        child' = r.child /\ current' = r.current /\ published' = r.published

\* reconcile.  The children it may have to create report anything.
Reconcile(o, cs) ==
    \E now \in {[n \in Name |-> UpdateChildData(HandleDeactivationTimer(cs[n]))]} :
    \E born \in [{n \in Elements(o) : now[n] = None} -> Reported] :
    \E r \in {ChoosePriority(o, now, born)} :
        child' = r.child /\ current' = r.current /\ published' = r.published

-----------------------------------------------------------------------------
(* The policy's operations.                                                *)

\* resolver_update: children move with their names, those not listed are dropped,
\* those that exist are updated and may report a state (None: they do not).
\* Whether an update is rejected changes only the result.
ResolverUpdate(o) ==
    LET kept == {n \in Elements(o) : child[n] # None}
    IN  \E report \in [kept -> Reported \cup {None}] :
            /\ Reconcile(o, [n \in Name |->
                    IF n \notin kept THEN None
                    ELSE IF report[n] = None THEN child[n] ELSE Reports(child[n], n, report[n])])
            /\ order' = o
            /\ UNCHANGED <<firing, queued>>

\* The child that an operation calls reports s.
Called(n, s) ==
    /\ Reconcile(order, [child EXCEPT ![n] = Reports(child[n], n, s)])
    /\ UNCHANGED <<order, firing, queued>>

\* work, for an item that child n claims.
ChildWork(n, s) == child[n] # None /\ Called(n, s)

\* exit_idle.
ExitIdle(s) == current # 0 /\ Called(order[current], s)

\* work, for an item of a child deleted since, or whose child reports nothing.
QuietWork ==
    /\ published # None
    /\ Reconcile(order, child)
    /\ UNCHANGED <<order, firing, queued>>

\* Mutant: timer work is offered to the children only.
DropTimerWork ==
    /\ queued > 0
    /\ queued' = queued - 1
    /\ UNCHANGED <<order, child, current, published, firing>>

\* work, for a PriorityTimerWork.
TimerWork ==
    /\ queued > 0
    /\ queued' = queued - 1
    /\ Reconcile(order, child)
    /\ UNCHANGED <<order, firing>>

-----------------------------------------------------------------------------
(* Timer tasks.  A Timer dropped during its sleep is aborted; one whose    *)
(* flag is set schedules its work even if it is dropped before it does.    *)

Timer == {"failover_timer", "deactivation_timer"}

Running(n, t) == child[n] # None /\ child[n][t] = "running"

Expire(n, t) ==
    /\ firing + queued < MaxWork
    /\ Running(n, t)
    /\ child' = [child EXCEPT ![n][t] = "expired"]
    /\ firing' = firing + 1
    /\ UNCHANGED <<order, current, published, queued>>

ScheduleWork ==
    /\ firing > 0
    /\ firing' = firing - 1
    /\ queued' = queued + 1
    /\ UNCHANGED <<order, child, current, published>>

-----------------------------------------------------------------------------
Next ==
    \/ \E o \in Orders : ResolverUpdate(o)
    \/ \E n \in Name, s \in Reported : ChildWork(n, s)
    \/ \E s \in Reported : ExitIdle(s)
    \/ QuietWork
    \/ TimerWork
    \/ \E n \in Name, t \in Timer : Expire(n, t)
    \/ ScheduleWork

\* No sleep lasts forever, a task that is woken runs, and the work loop takes what
\* is queued.
Fairness ==
    /\ \A n \in Name, t \in Timer : []<>~Running(n, t)
    /\ WF_vars(ScheduleWork)
    /\ WF_vars(TimerWork)

SafetySpec == Init /\ [][Next]_vars

Spec == SafetySpec /\ Fairness

-----------------------------------------------------------------------------
(* Properties.                                                             *)

Failing == {"CONNECTING", "TRANSIENT_FAILURE"}

\* The state the children report decides who carries the traffic: a child is
\* passed over only while it reports CONNECTING or TRANSIENT_FAILURE, one that
\* has failed or used up its failover time is used only if no child below it is
\* any better, and the channel fails calls only if every child exists and fails.
BestOffered ==
    current # 0 =>
        LET reported == [i \in 1 .. Len(order) |->
                            IF child[order[i]] = None THEN "none" ELSE child[order[i]].reported]
        IN  /\ \A i \in 1 .. current - 1 : reported[i] \in Failing
            /\ child[order[current]].state = "ConnectingExpired" =>
                  /\ \A i \in 1 .. Len(order) : reported[i] \in Failing
                  /\ \A i \in 1 .. current - 1 : reported[i] = "TRANSIENT_FAILURE"
            /\ reported[current] = "TRANSIENT_FAILURE" =>
                  \A i \in 1 .. Len(order) : reported[i] = "TRANSIENT_FAILURE"

\* What the channel was last given is the latest state and picker of the child
\* in use, or the failure of an empty list.
PublishedIsCurrent ==
    published # None =>
        published = IF order = <<>> THEN EmptyList ELSE LbStateOf(child, order[current])

\* The child in use and those preferred to it exist and are not about to be
\* deleted, whatever order priorities were deactivated, moved and chosen in:
\* exit_idle's index and set_current_priority's expect are safe.
InUseKept ==
    /\ published # None /\ order # <<>> => current # 0
    /\ \A i \in 1 .. current :
          child[order[i]] # None /\ child[order[i]].deactivation_timer = "none"

\* A timer that has expired is never forgotten: while the policy holds one whose
\* flag is set, a task is about to schedule work or has.
NoLostWakeup ==
    (\E n \in Name, t \in Timer : child[n] # None /\ child[n][t] = "expired")
        => firing + queued > 0

\* If the highest priority keeps failing or trying, however often it flaps between
\* the two, the next one is brought up for good, and from some time on it carries
\* the traffic whenever it can.
Failover ==
    \A n, m \in Name :
        <>[](Len(order) > 1 /\ order[1] = n /\ order[2] = m
                /\ child[n] # None /\ child[n].reported \in Failing)
            => <>[](/\ child[m] # None /\ child[m].deactivation_timer = "none"
                    /\ child[m].reported \in {"IDLE", "READY"} => current = 2)
=============================================================================
