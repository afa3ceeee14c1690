----------------------------- MODULE Subchannel -----------------------------
(***************************************************************************)
(* One InternalSubchannel (grpc/src/client/subchannel.rs): the mutex-held  *)
(* connectivity state, the background task that connect() spawns, the      *)
(* state updates that travel to the LB policy through the channel's work   *)
(* queue, the RPCs that picked the subchannel, and the reference count     *)
(* whose last release runs Drop.                                           *)
(*                                                                         *)
(* A task is cut where another thread can act between two of its           *)
(* statements: before its first poll, between winning one select! and      *)
(* taking the lock, and between releasing the lock and creating the        *)
(* Notified future of the next select!.                                    *)
(***************************************************************************)
EXTENDS Sequences, Naturals

CONSTANTS Rpc,          \* calls that may pick this subchannel
          Task,         \* identities of spawned tasks, reused once they end
          MaxUpdates    \* bound on updates waiting in the work queue

ASSUME BoundAssumption == MaxUpdates \in Nat

VARIABLES
    state,        \* InternalSubchannelData.state
    poisoned,     \* the data mutex: a thread panicked while holding it
    task,         \* each task: where it is, what its select! has been told
    updates,      \* SubchannelUpdates queued for the LB policy, oldest first
    lbView,       \* the last state delivered to the LB policy
    lbHeld,       \* the policy or its published picker holds an Arc
    loopRunning,  \* the channel's work loop has not panicked
    rpc           \* each call: "none", "picked" or "sending"

vars == <<state, poisoned, task, updates, lbView, lbHeld, loopRunning, rpc>>

ConnectivityStates == {"IDLE", "CONNECTING", "READY", "TRANSIENT_FAILURE"}

\* "none": not running.  "spawned": not polled yet.  "connecting", "ready" and
\* "tf": suspended in a select! that includes on_drop.notified().  "to_ready"
\* and "to_tf": the select! is over, the lock is not yet taken.  "ready_gap" and
\* "tf_gap": the state is published, the next select! has not begun.
PC == {"none", "spawned", "connecting", "to_ready", "ready_gap", "ready",
       "to_tf", "tf_gap", "tf"}

Listening == {"connecting", "ready", "tf"}

\* Where a task owns an established transport.
Holding == {"to_ready", "ready_gap", "ready"}

Tasks == [pc : PC, notified : BOOLEAN, closed : BOOLEAN]

NoTask == [pc |-> "none", notified |-> FALSE, closed |-> FALSE]

At(pc) == [pc |-> pc, notified |-> FALSE, closed |-> FALSE]

\* Types, and the scope of each future: a notification belongs to the Notified
\* of the select! the task is suspended in, a disconnection to its transport.
TypeOK ==
    /\ state \in ConnectivityStates
    /\ poisoned \in BOOLEAN
    /\ task \in [Task -> Tasks]
    /\ \A t \in Task : /\ task[t].notified => task[t].pc \in Listening
                       /\ task[t].closed => task[t].pc \in Holding
    /\ updates \in Seq(ConnectivityStates)
    /\ lbView \in ConnectivityStates
    /\ lbHeld \in BOOLEAN
    /\ loopRunning \in BOOLEAN
    /\ rpc \in [Rpc -> {"none", "picked", "sending"}]

Init ==
    /\ state = "IDLE"
    /\ poisoned = FALSE
    /\ task = [t \in Task |-> NoTask]
    /\ updates = <<>>
    /\ lbView = "IDLE"
    /\ lbHeld = TRUE
    /\ loopRunning = TRUE
    /\ rpc = [r \in Rpc |-> "none"]

-----------------------------------------------------------------------------
(* References.  Queued updates hold a strong Arc, as do picked calls.      *)

AliveWith(held, queue, calls) ==
    held \/ queue # <<>> \/ \E r \in Rpc : calls[r] # "none"

Alive == AliveWith(lbHeld, updates, rpc)

\* Notify::notify_waiters reaches the futures that exist now, and stores
\* nothing for those created later.
NotifyWaiters ==
    [t \in Task |-> IF task[t].pc \in Listening
                    THEN [task[t] EXCEPT !.notified = TRUE]
                    ELSE task[t]]

\* The references become held', queue' and calls'; the last release runs
\* Drop for InternalSubchannel.
Release(held, queue, calls) ==
    /\ lbHeld' = held
    /\ updates' = queue
    /\ rpc' = calls
    /\ task' = IF Alive /\ ~AliveWith(held, queue, calls) THEN NotifyWaiters ELSE task

\* Mutant: an update replaces the ones still queued.
UpdateStateCoalescing(s) ==
    /\ state' = s
    /\ updates' = IF Alive /\ loopRunning THEN <<s>> ELSE updates

\* InternalSubchannelData::update_state: the update is sent only while the
\* weak self reference can be upgraded, and is lost once the loop is gone.
UpdateState(s) ==
    /\ state' = s
    /\ updates' = IF Alive /\ loopRunning THEN Append(updates, s) ELSE updates

RoomForUpdate == Len(updates) < MaxUpdates

-----------------------------------------------------------------------------
(* The LB policy, running in the channel's work loop.                      *)

\* Mutant: connect() without the idle check.
ConnectUnlessReady(t) ==
    /\ loopRunning /\ lbHeld /\ ~poisoned
    /\ state # "READY"
    /\ task[t].pc = "none"
    /\ RoomForUpdate
    /\ UpdateState("CONNECTING")
    /\ task' = [task EXCEPT ![t] = At("spawned")]
    /\ UNCHANGED <<poisoned, lbView, lbHeld, loopRunning, rpc>>

\* connect() -> begin_connecting_if_idle.
Connect(t) ==
    /\ loopRunning /\ lbHeld /\ ~poisoned
    /\ state = "IDLE"
    /\ task[t].pc = "none"
    /\ RoomForUpdate
    /\ UpdateState("CONNECTING")
    /\ task' = [task EXCEPT ![t] = At("spawned")]
    /\ UNCHANGED <<poisoned, lbView, lbHeld, loopRunning, rpc>>

\* connect() on a poisoned mutex panics, which ends the work loop: the queued
\* updates go with it; a published picker may keep its reference.
ConnectPanics ==
    /\ loopRunning /\ lbHeld /\ poisoned
    /\ loopRunning' = FALSE
    /\ \E held \in BOOLEAN : Release(held, <<>>, rpc)
    /\ UNCHANGED <<state, poisoned, lbView>>

\* The work loop hands the oldest update to the policy and drops it.
Deliver ==
    /\ loopRunning
    /\ updates # <<>>
    /\ lbView' = Head(updates)
    /\ Release(lbHeld, Tail(updates), rpc)
    /\ UNCHANGED <<state, poisoned, loopRunning>>

\* The policy drops the subchannel and replaces the picker.
LbDrop ==
    /\ loopRunning /\ lbHeld
    /\ Release(FALSE, updates, rpc)
    /\ UNCHANGED <<state, poisoned, lbView, loopRunning>>

-----------------------------------------------------------------------------
(* Calls.                                                                  *)

\* The published picker returns the subchannel: it does so only for a policy
\* that was told READY.
Pick(r) ==
    /\ lbHeld /\ lbView = "READY"
    /\ rpc[r] = "none"
    /\ rpc' = [rpc EXCEPT ![r] = "picked"]
    /\ UNCHANGED <<state, poisoned, task, updates, lbView, lbHeld, loopRunning>>

\* dyn_invoke takes the lock and finds READY: the call goes on with a clone of
\* the ready state.
Invoke(r) ==
    /\ rpc[r] = "picked"
    /\ ~poisoned /\ state = "READY"
    /\ rpc' = [rpc EXCEPT ![r] = "sending"]
    /\ UNCHANGED <<state, poisoned, task, updates, lbView, lbHeld, loopRunning>>

\* dyn_invoke panics: todo!() under the lock for any other state, unwrap() of a
\* poisoned lock.  Either way the guard is dropped while panicking.
InvokePanics(r) ==
    /\ rpc[r] = "picked"
    /\ poisoned \/ state # "READY"
    /\ poisoned' = TRUE
    /\ Release(lbHeld, updates, [rpc EXCEPT ![r] = "none"])
    /\ UNCHANGED <<state, lbView, loopRunning>>

\* Call credentials are fetched, then the transport's service is invoked (or the
\* call fails); the reference to the subchannel is dropped.
InvokeReturns(r) ==
    /\ rpc[r] = "sending"
    /\ Release(lbHeld, updates, [rpc EXCEPT ![r] = "none"])
    /\ UNCHANGED <<state, poisoned, lbView, loopRunning>>

\* Mutant: the permit of one select! is carried into the next.
GotoKeepingPermit(t, pc) ==
    /\ task' = [task EXCEPT ![t].pc = pc]
    /\ UNCHANGED <<state, poisoned, updates, lbView, lbHeld, loopRunning, rpc>>

-----------------------------------------------------------------------------
(* The background task.                                                    *)

Goto(t, pc) ==
    /\ task' = [task EXCEPT ![t].pc = pc, ![t].notified = FALSE]
    /\ UNCHANGED <<state, poisoned, updates, lbView, lbHeld, loopRunning, rpc>>

\* First poll: the futures of the select! are created.
StartSelect(t) ==
    task[t].pc = "spawned" /\ Goto(t, "connecting")

\* Mutant: no connect timeout, an attempt nobody answers goes on.
ConnectNeverFails(t) == FALSE /\ Goto(t, "to_tf")

\* The connect timeout or dyn_connect's error wins the select!.
ConnectFails(t) == task[t].pc = "connecting" /\ Goto(t, "to_tf")

\* dyn_connect succeeds; a drop notified in the same poll may lose the race.
ConnectSucceeds(t) == task[t].pc = "connecting" /\ Goto(t, "to_ready")

\* on_drop.notified() wins: the task returns.
SeeDrop(t) ==
    /\ task[t].pc \in Listening /\ task[t].notified
    /\ task' = [task EXCEPT ![t] = NoTask]
    /\ UNCHANGED <<state, poisoned, updates, lbView, lbHeld, loopRunning, rpc>>

\* move_to_ready and move_to_transient_failure take the lock, publish the state
\* and release the lock; the select! that follows creates its futures after
\* that.  A poisoned lock panics the task.
Publish(t, from, s, to) ==
    /\ task[t].pc = from
    /\ IF poisoned
       THEN task' = [task EXCEPT ![t] = NoTask] /\ UNCHANGED <<state, updates>>
       ELSE /\ RoomForUpdate
            /\ UpdateState(s)
            /\ task' = [task EXCEPT ![t].pc = to]
    /\ UNCHANGED <<poisoned, lbView, lbHeld, loopRunning, rpc>>

MoveToReady(t) == Publish(t, "to_ready", "READY", "ready_gap")

MoveToTransientFailure(t) ==
    Publish(t, "to_tf", "TRANSIENT_FAILURE", "tf_gap")

AwaitClosed(t) == task[t].pc = "ready_gap" /\ Goto(t, "ready")

AwaitBackoff(t) == task[t].pc = "tf_gap" /\ Goto(t, "tf")

\* Mutant: the task returns from a lost connection without moving to idle.
MoveToIdleAfterBackoffOnly(t) ==
    /\ \/ task[t].pc = "ready" /\ task[t].closed
       \/ task[t].pc = "tf"
    /\ task' = [task EXCEPT ![t] = NoTask]
    /\ IF poisoned \/ task[t].pc = "ready"
       THEN UNCHANGED <<state, updates>>
       ELSE RoomForUpdate /\ UpdateState("IDLE")
    /\ UNCHANGED <<poisoned, lbView, lbHeld, loopRunning, rpc>>

\* move_to_idle, the last thing a task does: the transport closed, or the
\* backoff elapsed.
MoveToIdle(t) ==
    /\ \/ task[t].pc = "ready" /\ task[t].closed
       \/ task[t].pc = "tf"
    /\ task' = [task EXCEPT ![t] = NoTask]
    /\ IF poisoned
       THEN UNCHANGED <<state, updates>>
       ELSE RoomForUpdate /\ UpdateState("IDLE")
    /\ UNCHANGED <<poisoned, lbView, lbHeld, loopRunning, rpc>>

\* The transport reports that the connection is gone (disconnection_listener).
TransportCloses(t) ==
    /\ task[t].pc \in Holding /\ ~task[t].closed
    /\ task' = [task EXCEPT ![t].closed = TRUE]
    /\ UNCHANGED <<state, poisoned, updates, lbView, lbHeld, loopRunning, rpc>>

TaskStep(t) ==
    \/ StartSelect(t)
    \/ ConnectFails(t)
    \/ SeeDrop(t)
    \/ MoveToReady(t)
    \/ MoveToTransientFailure(t)
    \/ AwaitClosed(t)
    \/ AwaitBackoff(t)
    \/ MoveToIdle(t)

RpcStep(r) == Invoke(r) \/ InvokePanics(r) \/ InvokeReturns(r)

Next ==
    \/ ConnectPanics
    \/ Deliver
    \/ LbDrop
    \/ \E t \in Task : Connect(t) \/ TaskStep(t) \/ ConnectSucceeds(t)
                        \/ TransportCloses(t)
    \/ \E r \in Rpc : Pick(r) \/ RpcStep(r)

\* The runtime polls every woken task and runs the work loop; the connect timeout
\* and the backoff timer fire.  A peer need not answer or close, a policy need
\* not connect or drop, a call need not pick.
Fairness ==
    /\ WF_vars(Deliver)
    /\ \A t \in Task : WF_vars(TaskStep(t))
    /\ \A r \in Rpc : WF_vars(RpcStep(r))

Spec == Init /\ [][Next]_vars /\ Fairness

-----------------------------------------------------------------------------
(* Properties.                                                             *)

\* The state a task published, and is about to leave, is the state it stands
\* for: two lifecycle tasks never drive one subchannel, whatever the order of
\* connect() calls, task polls and disconnections.
StateOf(pc) ==
    CASE pc \in {"spawned", "connecting", "to_ready", "to_tf"} -> "CONNECTING"
      [] pc \in {"ready_gap", "ready"} -> "READY"
      [] pc \in {"tf_gap", "tf"} -> "TRANSIENT_FAILURE"
      [] OTHER -> "IDLE"

OneLifecycle ==
    /\ \A t \in Task : task[t].pc # "none" => state = StateOf(task[t].pc)
    /\ \A t, u \in Task :
          task[t].pc # "none" /\ task[u].pc # "none" => t = u

\* A subchannel that is not idle, not poisoned and still referenced has a task
\* that will move it on: no path leaves it in a state nobody will change.
Driven ==
    state # "IDLE" /\ ~poisoned /\ Alive => \E t \in Task : task[t].pc # "none"

\* The updates, as the LB policy receives them, follow the documented state
\* machine: none is lost, merged or reordered while the subchannel lives.
Doc == INSTANCE SubchannelDoc WITH Initial <- "IDLE", seen <- lbView

SeesDocumented == Doc!Spec

\* Every attempt ends: the connect timeout bounds it, and the task reports it.
\* Only a mutex poisoned by a panicking call keeps a live subchannel there.
AttemptEnds ==
    (state = "CONNECTING" /\ Alive) ~> (state # "CONNECTING" \/ ~Alive \/ poisoned)

\* "When a Subchannel is dropped, it is disconnected automatically"
\* (load_balancing/subchannel.rs:154): once nothing references the subchannel
\* its transport goes away, without waiting for the peer to close it.
Connected == \E t \in Task : task[t].pc \in Holding /\ ~task[t].closed

DropDisconnects == ~Alive ~> ~Connected
=============================================================================
