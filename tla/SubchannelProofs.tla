-------------------------- MODULE SubchannelProofs --------------------------
(***************************************************************************)
(* Proofs about Subchannel, for any sets of calls and tasks and any bound  *)
(* on the work queue: the task that connect() spawns is the only one, a    *)
(* live subchannel that is not idle has one, and the LB policy sees the    *)
(* documented state machine.                                               *)
(***************************************************************************)
EXTENDS Subchannel, TLAPS

\* A drop is notified only once nothing references the subchannel.
NotifiedMeansDropped == \A t \in Task : task[t].notified => ~Alive

\* What is in flight to the policy: a documented path from its view to the state.
Path ==
    /\ updates # <<>> => <<lbView, updates[1]>> \in Doc!Documented
    /\ \A i \in 1 .. (Len(updates) - 1) :
          <<updates[i], updates[i + 1]>> \in Doc!Documented
    /\ Alive /\ loopRunning =>
          state = IF updates = <<>> THEN lbView ELSE updates[Len(updates)]
    /\ ~loopRunning => updates = <<>>

IInv == TypeOK /\ OneLifecycle /\ Driven /\ NotifiedMeansDropped /\ Path

-----------------------------------------------------------------------------
(* Lemmas about the steps that several actions share.                      *)

\* Releasing references leaves a dropped subchannel dropped, and notifies the
\* waiting tasks only when it drops it.
LEMMA ReleaseLemma ==
    ASSUME TypeOK, NotifiedMeansDropped,
           NEW held \in BOOLEAN, NEW queue \in Seq(ConnectivityStates),
           NEW calls \in [Rpc -> {"none", "picked", "sending"}],
           AliveWith(held, queue, calls) => Alive,
           Release(held, queue, calls)
    PROVE  /\ task' \in [Task -> Tasks]
           /\ \A t \in Task : /\ task'[t].pc = task[t].pc
                              /\ task'[t].closed = task[t].closed
                              /\ task'[t].notified => task[t].pc \in Listening
                              /\ task'[t].notified => ~Alive'
           /\ updates' = queue /\ lbHeld' = held /\ rpc' = calls
           /\ Alive' = AliveWith(held, queue, calls)
  <1>1. updates' = queue /\ lbHeld' = held /\ rpc' = calls
    BY DEF Release
  <1>2. Alive' = AliveWith(held, queue, calls)
    BY <1>1 DEF Alive, AliveWith
  <1>3. CASE Alive /\ ~AliveWith(held, queue, calls)
    <2>1. task' = NotifyWaiters
      BY <1>3 DEF Release
    <2>2. ASSUME NEW t \in Task
          PROVE  /\ task'[t] \in Tasks
                 /\ task'[t].pc = task[t].pc
                 /\ task'[t].closed = task[t].closed
                 /\ task'[t].notified => task[t].pc \in Listening
      BY <2>1 DEF NotifyWaiters, TypeOK, Tasks
    <2>3. task' \in [Task -> Tasks]
      BY <2>1, <2>2 DEF NotifyWaiters
    <2> QED BY <1>1, <1>2, <1>3, <2>2, <2>3
  <1>4. CASE ~(Alive /\ ~AliveWith(held, queue, calls))
    <2>1. task' = task
      BY <1>4 DEF Release
    <2> QED BY <2>1, <1>1, <1>2, <1>4 DEF TypeOK, NotifiedMeansDropped
  <1> QED BY <1>3, <1>4

\* Publishing a state that documentedly follows the current one extends the path.
LEMMA UpdateLemma ==
    ASSUME TypeOK, Path, NEW s \in ConnectivityStates,
           <<state, s>> \in Doc!Documented,
           UpdateState(s),
           lbView' = lbView, lbHeld' = lbHeld, loopRunning' = loopRunning, rpc' = rpc
    PROVE  /\ Path'
           /\ updates' \in Seq(ConnectivityStates)
           /\ state' = s
           /\ Alive' = Alive
  <1>1. state' = s
    BY DEF UpdateState
  <1>2. updates \in Seq(ConnectivityStates)
    BY DEF TypeOK
  <1>3. CASE Alive /\ loopRunning
    <2>1. updates' = Append(updates, s)
      BY <1>3 DEF UpdateState
    <2>2. /\ updates' \in Seq(ConnectivityStates)
          /\ Len(updates') = Len(updates) + 1
          /\ Len(updates) \in Nat
          /\ updates'[Len(updates')] = s
          /\ \A i \in 1 .. Len(updates) : updates'[i] = updates[i]
          /\ updates' # <<>>
      BY <1>2, <2>1
    <2>3. Alive'
      BY <2>2 DEF Alive, AliveWith
    <2>4. <<lbView', updates'[1]>> \in Doc!Documented
      <3>1. CASE updates = <<>>
        <4>1. lbView = state
          BY <3>1, <1>3 DEF Path
        <4>2. Len(updates') = 1
          BY <3>1, <2>2, <1>2
        <4> QED BY <4>1, <4>2, <2>2
      <3>2. CASE updates # <<>>
        <4>1. 1 \in 1 .. Len(updates)
          BY <3>2, <1>2
        <4> QED BY <3>2, <4>1, <2>2 DEF Path
      <3> QED BY <3>1, <3>2
    <2>5. ASSUME NEW i \in 1 .. (Len(updates') - 1)
          PROVE  <<updates'[i], updates'[i + 1]>> \in Doc!Documented
      <3>1. i \in 1 .. Len(updates)
        BY <2>2
      <3>2. CASE i = Len(updates)
        <4>1. updates # <<>>
          BY <3>1, <3>2, <1>2
        <4>2. updates[i] = state
          BY <4>1, <3>2, <1>3 DEF Path
        <4> QED BY <4>2, <3>1, <3>2, <2>2
      <3>3. CASE i # Len(updates)
        <4>1. i \in 1 .. (Len(updates) - 1) /\ i + 1 \in 1 .. Len(updates)
          BY <3>1, <3>3, <2>2
        <4>2. updates'[i] = updates[i] /\ updates'[i + 1] = updates[i + 1]
          BY <4>1, <3>1, <2>2
        <4> QED BY <4>1, <4>2 DEF Path
      <3> QED BY <3>2, <3>3
    <2> QED BY <1>1, <1>3, <2>2, <2>3, <2>4, <2>5 DEF Path
  <1>4. CASE ~(Alive /\ loopRunning)
    <2>1. updates' = updates
      BY <1>4 DEF UpdateState
    <2>2. Alive' = Alive
      BY <2>1 DEF Alive, AliveWith
    <2> QED BY <1>1, <1>2, <1>4, <2>1, <2>2 DEF Path
  <1> QED BY <1>3, <1>4

-----------------------------------------------------------------------------
(* The inductive invariant.                                                *)

\* The invariant holds initially.
LEMMA InitIInv == Init => IInv
  <1> SUFFICES ASSUME Init PROVE IInv
    OBVIOUS
  <1> USE DEF Init, NoTask
  <1>1. TypeOK
    <2>1. updates \in Seq(ConnectivityStates)
      OBVIOUS
    <2>2. task \in [Task -> Tasks]
      BY DEF Tasks, PC
    <2>3. \A t \in Task : task[t].notified = FALSE /\ task[t].closed = FALSE
      OBVIOUS
    <2>4. rpc \in [Rpc -> {"none", "picked", "sending"}]
      OBVIOUS
    <2> QED BY <2>1, <2>2, <2>3, <2>4 DEF TypeOK, ConnectivityStates
  <1>2. OneLifecycle /\ Driven /\ NotifiedMeansDropped
    BY DEF OneLifecycle, Driven, NotifiedMeansDropped
  <1>3. Path
    BY DEF Path, Alive, AliveWith
  <1> QED BY <1>1, <1>2, <1>3 DEF IInv

\* Steps that only release references: Deliver, LbDrop, ConnectPanics and the
\* end of a call.
LEMMA ReleasingStep ==
    ASSUME IInv,
           NEW held \in BOOLEAN, NEW queue \in Seq(ConnectivityStates),
           NEW calls \in [Rpc -> {"none", "picked", "sending"}],
           AliveWith(held, queue, calls) => Alive,
           Release(held, queue, calls),
           state' = state, poisoned' \in BOOLEAN, poisoned => poisoned',
           lbView' \in ConnectivityStates, loopRunning' \in BOOLEAN, Path'
    PROVE  IInv'
  <1> USE DEF IInv
  <1>1. /\ task' \in [Task -> Tasks]
        /\ \A t \in Task : /\ task'[t].pc = task[t].pc
                           /\ task'[t].closed = task[t].closed
                           /\ task'[t].notified => task[t].pc \in Listening
                           /\ task'[t].notified => ~Alive'
        /\ updates' = queue /\ lbHeld' = held /\ rpc' = calls
        /\ Alive' = AliveWith(held, queue, calls)
    BY ReleaseLemma
  <1>2. TypeOK'
    BY <1>1 DEF TypeOK
  <1>3. OneLifecycle'
    BY <1>1 DEF OneLifecycle
  <1>4. Driven'
    BY <1>1 DEF Driven
  <1>5. NotifiedMeansDropped'
    BY <1>1 DEF NotifiedMeansDropped
  <1> QED BY <1>2, <1>3, <1>4, <1>5

\* A step that moves one task within what its published state allows and changes
\* nothing else.
LEMMA MovingStep ==
    ASSUME IInv, NEW t \in Task, NEW r \in Tasks,
           task[t].pc # "none", r.pc # "none", StateOf(r.pc) = StateOf(task[t].pc),
           r.notified = FALSE, r.closed => r.pc \in Holding,
           task' = [task EXCEPT ![t] = r],
           UNCHANGED <<state, poisoned, updates, lbView, lbHeld, loopRunning, rpc>>
    PROVE  IInv'
  <1> USE DEF IInv
  <1>1. TypeOK'
    BY DEF TypeOK
  <1>2. OneLifecycle'
    BY DEF OneLifecycle, TypeOK
  <1>3. Alive' = Alive
    BY DEF Alive, AliveWith
  <1>4. Driven'
    BY <1>3 DEF Driven, TypeOK
  <1>5. NotifiedMeansDropped'
    BY <1>3 DEF NotifiedMeansDropped, TypeOK
  <1>6. Path'
    BY <1>3 DEF Path
  <1> QED BY <1>1, <1>2, <1>4, <1>5, <1>6

\* A step that publishes state s while task t, if it goes on, stands for s.
LEMMA PublishingStep ==
    ASSUME IInv, NEW t \in Task, NEW r \in Tasks, NEW s \in ConnectivityStates,
           \A u \in Task : u # t => task[u].pc = "none",
           IF r.pc = "none" THEN s = "IDLE" ELSE s = StateOf(r.pc),
           r.notified = FALSE, r.closed => r.pc \in Holding,
           <<state, s>> \in Doc!Documented,
           UpdateState(s),
           task' = [task EXCEPT ![t] = r],
           UNCHANGED <<poisoned, lbView, lbHeld, loopRunning, rpc>>
    PROVE  IInv'
  <1> USE DEF IInv
  <1>1. /\ Path'
        /\ updates' \in Seq(ConnectivityStates)
        /\ state' = s
        /\ Alive' = Alive
    BY UpdateLemma
  <1>2. /\ task'[t] = r
        /\ \A u \in Task : u # t => task'[u] = task[u]
        /\ task' \in [Task -> Tasks]
    BY DEF TypeOK
  <1>3. TypeOK'
    BY <1>1, <1>2 DEF TypeOK
  <1>4. OneLifecycle'
    BY <1>1, <1>2 DEF OneLifecycle
  <1>5. Driven'
    BY <1>1, <1>2 DEF Driven
  <1>6. NotifiedMeansDropped'
    BY <1>1, <1>2 DEF NotifiedMeansDropped
  <1> QED BY <1>1, <1>3, <1>4, <1>5, <1>6

\* A task that ends without touching the state: it saw the drop, or the mutex
\* was poisoned.
LEMMA EndingStep ==
    ASSUME IInv, NEW t \in Task, poisoned \/ ~Alive,
           task' = [task EXCEPT ![t] = NoTask],
           UNCHANGED <<state, poisoned, updates, lbView, lbHeld, loopRunning, rpc>>
    PROVE  IInv'
  <1> USE DEF IInv, NoTask
  <1>1. TypeOK'
    BY DEF TypeOK, Tasks, PC
  <1>2. OneLifecycle'
    BY DEF OneLifecycle, TypeOK
  <1>3. Alive' = Alive
    BY DEF Alive, AliveWith
  <1>4. Driven' /\ NotifiedMeansDropped'
    BY <1>3 DEF Driven, NotifiedMeansDropped, TypeOK
  <1>5. Path'
    BY <1>3 DEF Path
  <1> QED BY <1>1, <1>2, <1>4, <1>5

-----------------------------------------------------------------------------
(* One step per action.                                                    *)

\* Where a live task stands, it is alone.
LEMMA Alone ==
    ASSUME IInv, NEW t \in Task, task[t].pc # "none"
    PROVE  \A u \in Task : u # t => task[u].pc = "none"
  BY DEF IInv, OneLifecycle

\* The task actions that only move the program counter.
LEMMA GotoStep ==
    ASSUME IInv, NEW t \in Task, NEW pc \in PC, Goto(t, pc),
           task[t].pc # "none", pc # "none",
           StateOf(pc) = StateOf(task[t].pc),
           task[t].pc \in Holding => pc \in Holding
    PROVE  IInv'
  <1> DEFINE r == [task[t] EXCEPT !.pc = pc, !.notified = FALSE]
  <1>1. task[t] \in Tasks /\ (task[t].closed => task[t].pc \in Holding)
    BY DEF IInv, TypeOK
  <1>2. /\ r \in Tasks
        /\ r.pc = pc /\ r.notified = FALSE /\ r.closed = task[t].closed
    BY <1>1 DEF Tasks
  <1>3. task' = [task EXCEPT ![t] = r]
    BY DEF Goto, IInv, TypeOK
  <1>4. UNCHANGED <<state, poisoned, updates, lbView, lbHeld, loopRunning, rpc>>
    BY DEF Goto
  <1> HIDE DEF r
  <1> QED BY <1>1, <1>2, <1>3, <1>4, MovingStep

\* move_to_ready and move_to_transient_failure.
LEMMA PublishStep ==
    ASSUME IInv, NEW t \in Task,
           NEW from \in {"to_ready", "to_tf"},
           NEW s \in {"READY", "TRANSIENT_FAILURE"},
           NEW to \in {"ready_gap", "tf_gap"},
           s = StateOf(to), from = "to_ready" => to = "ready_gap",
           Publish(t, from, s, to)
    PROVE  IInv'
  <1>1. task[t].pc = from /\ from # "none"
    BY DEF Publish
  <1>2. state = "CONNECTING"
    BY <1>1 DEF IInv, OneLifecycle, StateOf
  <1>3. CASE poisoned
    <2>1. /\ task' = [task EXCEPT ![t] = NoTask]
          /\ UNCHANGED <<state, poisoned, updates, lbView, lbHeld, loopRunning, rpc>>
      BY <1>3 DEF Publish
    <2> QED BY <1>3, <2>1, EndingStep
  <1>4. CASE ~poisoned
    <2> DEFINE r == [task[t] EXCEPT !.pc = to]
    <2>1. /\ task[t] \in Tasks
          /\ task[t].closed => task[t].pc \in Holding
          /\ task[t].notified => task[t].pc \in Listening
      BY DEF IInv, TypeOK
    <2>2. task[t].notified = FALSE
      BY <2>1, <1>1 DEF Listening, Tasks
    <2>3. /\ r \in Tasks /\ r.pc = to /\ r.notified = FALSE
          /\ r.closed => r.pc \in Holding
      BY <2>1, <2>2, <1>1 DEF Tasks, PC, Holding
    <2>4. task' = [task EXCEPT ![t] = r] /\ UpdateState(s)
      BY <1>4 DEF Publish, IInv, TypeOK
    <2>5. UNCHANGED <<poisoned, lbView, lbHeld, loopRunning, rpc>>
      BY DEF Publish
    <2>6. s \in ConnectivityStates /\ <<state, s>> \in Doc!Documented
      BY <1>2 DEF ConnectivityStates, Doc!Documented
    <2>7. \A u \in Task : u # t => task[u].pc = "none"
      BY <1>1, Alone
    <2>8. IF r.pc = "none" THEN s = "IDLE" ELSE s = StateOf(r.pc)
      BY <2>3
    <2> HIDE DEF r
    <2> QED BY <2>3, <2>4, <2>5, <2>6, <2>7, <2>8, PublishingStep
  <1> QED BY <1>3, <1>4

\* move_to_idle.
LEMMA IdleStep ==
    ASSUME IInv, NEW t \in Task, MoveToIdle(t)
    PROVE  IInv'
  <1>1. task[t].pc \in {"ready", "tf"}
    BY DEF MoveToIdle
  <1>2. state \in {"READY", "TRANSIENT_FAILURE"}
    BY <1>1 DEF IInv, OneLifecycle, StateOf
  <1>3. CASE poisoned
    BY <1>3, EndingStep DEF MoveToIdle
  <1>4. CASE ~poisoned
    <2>1. /\ NoTask \in Tasks /\ NoTask.pc = "none"
          /\ NoTask.notified = FALSE /\ NoTask.closed = FALSE
      BY DEF NoTask, Tasks, PC
    <2>2. "IDLE" \in ConnectivityStates /\ <<state, "IDLE">> \in Doc!Documented
      BY <1>2 DEF ConnectivityStates, Doc!Documented
    <2>3. \A u \in Task : u # t => task[u].pc = "none"
      BY <1>1, Alone
    <2>4. /\ UpdateState("IDLE") /\ task' = [task EXCEPT ![t] = NoTask]
          /\ UNCHANGED <<poisoned, lbView, lbHeld, loopRunning, rpc>>
      BY <1>4 DEF MoveToIdle
    <2> QED BY <2>1, <2>2, <2>3, <2>4, PublishingStep
  <1> QED BY <1>3, <1>4

\* connect().
LEMMA ConnectStep ==
    ASSUME IInv, NEW t \in Task, Connect(t)
    PROVE  IInv'
  <1>1. state = "IDLE"
    BY DEF Connect
  <1>2. \A u \in Task : task[u].pc = "none"
    <2> SUFFICES ASSUME NEW u \in Task, task[u].pc # "none" PROVE FALSE
      OBVIOUS
    <2>1. StateOf(task[u].pc) = "IDLE" /\ task[u].pc \in PC
      BY <1>1 DEF IInv, OneLifecycle, TypeOK, Tasks
    <2> QED BY <2>1 DEF StateOf, PC
  <1>3. /\ At("spawned") \in Tasks /\ At("spawned").pc = "spawned"
        /\ At("spawned").notified = FALSE /\ At("spawned").closed = FALSE
    BY DEF At, Tasks, PC
  <1>4. StateOf("spawned") = "CONNECTING"
    BY DEF StateOf
  <1>5. /\ "CONNECTING" \in ConnectivityStates
        /\ <<state, "CONNECTING">> \in Doc!Documented
    BY <1>1 DEF ConnectivityStates, Doc!Documented
  <1>6. /\ UpdateState("CONNECTING") /\ task' = [task EXCEPT ![t] = At("spawned")]
        /\ UNCHANGED <<poisoned, lbView, lbHeld, loopRunning, rpc>>
    BY DEF Connect
  <1> QED BY <1>2, <1>3, <1>4, <1>5, <1>6, PublishingStep

\* The work loop delivers the oldest update: the view advances along the path.
LEMMA DeliverStep ==
    ASSUME IInv, Deliver
    PROVE  IInv' /\ <<lbView, lbView'>> \in Doc!Documented
  <1> USE DEF IInv
  <1>1. updates \in Seq(ConnectivityStates) /\ updates # <<>>
    BY DEF Deliver, TypeOK
  <1>2. /\ Tail(updates) \in Seq(ConnectivityStates)
        /\ Head(updates) \in ConnectivityStates /\ Head(updates) = updates[1]
        /\ Len(updates) \in Nat /\ Len(updates) >= 1
        /\ Len(Tail(updates)) = Len(updates) - 1
        /\ \A j \in 1 .. (Len(updates) - 1) : Tail(updates)[j] = updates[j + 1]
    BY <1>1
  <1>3. /\ lbView' = updates[1] /\ updates' = Tail(updates)
        /\ lbHeld' = lbHeld /\ rpc' = rpc
        /\ Release(lbHeld, Tail(updates), rpc)
        /\ UNCHANGED <<state, poisoned, loopRunning>>
    BY <1>2 DEF Deliver, Release
  <1>4. <<lbView, lbView'>> \in Doc!Documented
    BY <1>1, <1>3 DEF Path
  <1>5. Alive
    BY <1>1 DEF Alive, AliveWith
  <1>6. state = updates[Len(updates)]
    BY <1>1, <1>5 DEF Path, Deliver
  <1>7. Path'
    <2>1. updates' # <<>> => <<lbView', updates'[1]>> \in Doc!Documented
      <3> SUFFICES ASSUME updates' # <<>>
                   PROVE  <<lbView', updates'[1]>> \in Doc!Documented
        OBVIOUS
      <3>1. Len(updates) - 1 >= 1
        BY <1>2, <1>3
      <3>2. 1 \in 1 .. (Len(updates) - 1) /\ updates'[1] = updates[2]
        BY <3>1, <1>2, <1>3
      <3>3. <<updates[1], updates[1 + 1]>> \in Doc!Documented
        BY <3>2 DEF Path
      <3> QED BY <3>2, <3>3, <1>3
    <2>2. ASSUME NEW i \in 1 .. (Len(updates') - 1)
          PROVE  <<updates'[i], updates'[i + 1]>> \in Doc!Documented
      <3>1. i + 1 \in 1 .. (Len(updates) - 1) /\ i \in 1 .. (Len(updates) - 1)
        BY <1>2, <1>3
      <3>2. updates'[i] = updates[i + 1] /\ updates'[i + 1] = updates[(i + 1) + 1]
        BY <3>1, <1>2, <1>3
      <3> QED BY <3>1, <3>2 DEF Path
    <2>3. state' = IF updates' = <<>> THEN lbView' ELSE updates'[Len(updates')]
      <3>1. CASE Len(updates) = 1
        BY <3>1, <1>2, <1>3, <1>6
      <3>2. CASE Len(updates) # 1
        <4>1. Len(updates) - 1 \in 1 .. (Len(updates) - 1)
          BY <3>2, <1>2
        <4>2. updates'[Len(updates) - 1] = updates[(Len(updates) - 1) + 1]
          BY <4>1, <1>2, <1>3
        <4>3. (Len(updates) - 1) + 1 = Len(updates)
          BY <1>2
        <4>4. updates'[Len(updates) - 1] = state'
          BY <4>2, <4>3, <1>3, <1>6
        <4>5. updates' # <<>> /\ Len(updates') = Len(updates) - 1
          BY <4>1, <1>2, <1>3
        <4> QED BY <4>4, <4>5
      <3> QED BY <3>1, <3>2
    <2>4. loopRunning'
      BY <1>3 DEF Deliver
    <2> QED BY <2>1, <2>2, <2>3, <2>4 DEF Path
  <1>8. rpc \in [Rpc -> {"none", "picked", "sending"}] /\ lbHeld \in BOOLEAN
        /\ poisoned \in BOOLEAN /\ loopRunning \in BOOLEAN
    BY DEF TypeOK
  <1> QED BY <1>2, <1>3, <1>4, <1>5, <1>7, <1>8, ReleasingStep

\* The steps that give up one reference and leave the queue alone.
LEMMA GiveUpStep ==
    ASSUME IInv, NEW held \in BOOLEAN,
           NEW calls \in [Rpc -> {"none", "picked", "sending"}],
           held => lbHeld, \A r \in Rpc : calls[r] # "none" => rpc[r] # "none",
           Release(held, updates, calls),
           poisoned' \in BOOLEAN, poisoned => poisoned',
           UNCHANGED <<state, lbView, loopRunning>>
    PROVE  IInv'
  <1>1. AliveWith(held, updates, calls) => Alive
    BY DEF Alive, AliveWith
  <1>2. updates' = updates /\ Alive' = AliveWith(held, updates, calls)
    BY DEF Release, Alive, AliveWith
  <1>3. Path'
    BY <1>1, <1>2 DEF IInv, Path
  <1>4. updates \in Seq(ConnectivityStates) /\ lbView \in ConnectivityStates
        /\ loopRunning \in BOOLEAN
    BY DEF IInv, TypeOK
  <1> QED BY <1>1, <1>3, <1>4, ReleasingStep

\* A connect() that meets the poisoned mutex keeps the invariant.
LEMMA ConnectPanicsStep ==
    ASSUME IInv, ConnectPanics
    PROVE  IInv'
  <1>1. PICK held \in BOOLEAN : Release(held, <<>>, rpc)
    BY DEF ConnectPanics
  <1>2. /\ loopRunning' = FALSE /\ lbHeld /\ poisoned
        /\ UNCHANGED <<state, poisoned, lbView>>
    BY DEF ConnectPanics
  <1>3. Alive
    BY <1>2 DEF Alive, AliveWith
  <1>4. updates' = <<>>
    BY <1>1 DEF Release
  <1>5. Path'
    BY <1>2, <1>4 DEF Path
  <1>6. <<>> \in Seq(ConnectivityStates)
    OBVIOUS
  <1>7. /\ rpc \in [Rpc -> {"none", "picked", "sending"}]
        /\ poisoned \in BOOLEAN /\ lbView \in ConnectivityStates
    BY DEF IInv, TypeOK
  <1> QED BY <1>1, <1>2, <1>3, <1>5, <1>6, <1>7, ReleasingStep

\* The steps of a call.  Picking needs the policy's reference, so a dropped
\* subchannel stays dropped.
LEMMA RpcStepsKeep ==
    ASSUME IInv, NEW r \in Rpc, Pick(r) \/ RpcStep(r)
    PROVE  IInv'
  <1> USE DEF IInv
  <1>1. rpc \in [Rpc -> {"none", "picked", "sending"}] /\ lbHeld \in BOOLEAN
        /\ poisoned \in BOOLEAN
    BY DEF TypeOK
  <1>2. CASE Pick(r) \/ Invoke(r)
    <2>1. /\ rpc' \in [Rpc -> {"none", "picked", "sending"}]
          /\ UNCHANGED <<state, poisoned, task, updates, lbView, lbHeld, loopRunning>>
      BY <1>1, <1>2 DEF Pick, Invoke
    <2>2. Alive
      BY <1>2 DEF Pick, Invoke, Alive, AliveWith
    <2>3. TypeOK'
      BY <2>1 DEF TypeOK
    <2>4. OneLifecycle'
      BY <2>1 DEF OneLifecycle
    <2>5. Driven'
      BY <2>1, <2>2 DEF Driven
    <2>6. NotifiedMeansDropped'
      BY <2>1, <2>2 DEF NotifiedMeansDropped
    <2>7. Path'
      BY <2>1, <2>2 DEF Path
    <2> QED BY <2>3, <2>4, <2>5, <2>6, <2>7
  <1>3. CASE InvokePanics(r) \/ InvokeReturns(r)
    <2> DEFINE calls == [rpc EXCEPT ![r] = "none"]
    <2>1. /\ calls \in [Rpc -> {"none", "picked", "sending"}]
          /\ \A x \in Rpc : calls[x] # "none" => rpc[x] # "none"
      BY <1>1
    <2>2. /\ Release(lbHeld, updates, calls)
          /\ poisoned' \in BOOLEAN /\ (poisoned => poisoned')
          /\ UNCHANGED <<state, lbView, loopRunning>>
      BY <1>1, <1>3 DEF InvokePanics, InvokeReturns
    <2> HIDE DEF calls
    <2> QED BY <1>1, <2>1, <2>2, GiveUpStep
  <1> QED BY <1>2, <1>3 DEF RpcStep

\* The steps of the background task and of its transport.
LEMMA TaskStepsKeep ==
    ASSUME IInv, NEW t \in Task,
           TaskStep(t) \/ ConnectSucceeds(t) \/ TransportCloses(t)
    PROVE  IInv'
  <1>1. CASE StartSelect(t) \/ ConnectFails(t) \/ ConnectSucceeds(t)
             \/ AwaitClosed(t) \/ AwaitBackoff(t)
    BY <1>1, GotoStep DEF StartSelect, ConnectFails, ConnectSucceeds,
        AwaitClosed, AwaitBackoff, StateOf, Holding, PC
  <1>2. CASE MoveToReady(t)
    BY <1>2, PublishStep DEF MoveToReady, StateOf
  <1>3. CASE MoveToTransientFailure(t)
    BY <1>3, PublishStep DEF MoveToTransientFailure, StateOf
  <1>4. CASE MoveToIdle(t)
    BY <1>4, IdleStep
  <1>5. CASE SeeDrop(t)
    <2>1. ~Alive
      BY <1>5 DEF SeeDrop, IInv, NotifiedMeansDropped
    <2> QED BY <1>5, <2>1, EndingStep DEF SeeDrop
  <1>6. CASE TransportCloses(t)
    <2>1. /\ task' = [task EXCEPT ![t] = [task[t] EXCEPT !.closed = TRUE]]
          /\ task[t].pc \in Holding
          /\ UNCHANGED <<state, poisoned, updates, lbView, lbHeld, loopRunning, rpc>>
      BY <1>6 DEF TransportCloses, IInv, TypeOK
    <2>2. [task[t] EXCEPT !.closed = TRUE] \in Tasks /\ task[t] \in Tasks
      BY DEF IInv, TypeOK, Tasks
    <2>3. Alive' = Alive
      BY <2>1 DEF Alive, AliveWith
    <2>4. TypeOK'
      BY <2>1, <2>2 DEF IInv, TypeOK, Tasks
    <2>5. OneLifecycle'
      BY <2>1, <2>2 DEF IInv, TypeOK, OneLifecycle, Tasks
    <2>6. Driven'
      BY <2>1, <2>2, <2>3 DEF IInv, TypeOK, Driven, Tasks
    <2>7. NotifiedMeansDropped'
      BY <2>1, <2>2, <2>3 DEF IInv, TypeOK, NotifiedMeansDropped, Tasks
    <2>8. Path'
      BY <2>1, <2>3 DEF IInv, Path
    <2> QED BY <2>4, <2>5, <2>6, <2>7, <2>8 DEF IInv
  <1> QED BY <1>1, <1>2, <1>3, <1>4, <1>5, <1>6 DEF TaskStep

\* Every step keeps the invariant.
LEMMA NextIInv == IInv /\ [Next]_vars => IInv'
  <1> SUFFICES ASSUME IInv, [Next]_vars PROVE IInv'
    OBVIOUS
  <1>1. CASE ConnectPanics
    BY <1>1, ConnectPanicsStep
  <1>2. CASE Deliver
    BY <1>2, DeliverStep
  <1>3. CASE LbDrop
    <2>1. rpc \in [Rpc -> {"none", "picked", "sending"}] /\ poisoned \in BOOLEAN
      BY DEF IInv, TypeOK
    <2> QED BY <1>3, <2>1, GiveUpStep DEF LbDrop
  <1>4. ASSUME NEW t \in Task,
               Connect(t) \/ TaskStep(t) \/ ConnectSucceeds(t) \/ TransportCloses(t)
        PROVE  IInv'
    BY <1>4, ConnectStep, TaskStepsKeep
  <1>5. ASSUME NEW r \in Rpc, Pick(r) \/ RpcStep(r)
        PROVE  IInv'
    BY <1>5, RpcStepsKeep
  <1>6. CASE UNCHANGED vars
    <2>1. Alive' = Alive
      BY <1>6 DEF vars, Alive, AliveWith
    <2> QED BY <1>6, <2>1 DEF vars, IInv, TypeOK, OneLifecycle, Driven,
                              NotifiedMeansDropped, Path
  <1> QED BY <1>1, <1>2, <1>3, <1>4, <1>5, <1>6 DEF Next

-----------------------------------------------------------------------------
(* Theorems.                                                               *)

\* The invariant of begin_connecting_if_idle, move_to_* and Drop together.
LEMMA Invariance == Spec => []IInv
  BY InitIInv, NextIInv, PTL DEF Spec

\* Types, and no notification or disconnection outlives its select!.
THEOREM TypeCorrect == Spec => []TypeOK
  <1>1. IInv => TypeOK
    BY DEF IInv
  <1> QED BY <1>1, Invariance, PTL

\* connect() never gives a subchannel a second lifecycle task, and the state
\* under the mutex is the one its task stands for.
THEOREM SingleLifecycle == Spec => []OneLifecycle
  <1>1. IInv => OneLifecycle
    BY DEF IInv
  <1> QED BY <1>1, Invariance, PTL

\* A referenced, unpoisoned subchannel that is not idle always has its task.
THEOREM NeverAbandoned == Spec => []Driven
  <1>1. IInv => Driven
    BY DEF IInv
  <1> QED BY <1>1, Invariance, PTL

\* The LB policy's view implements the documented state machine: update_state,
\* the work queue and Drop together lose, merge and reorder nothing.
THEOREM ImplementsDoc == Spec => SeesDocumented
  <1>1. Init => Doc!Init
    BY DEF Init, Doc!Init
  <1>2. IInv /\ [Next]_vars => [Doc!Next]_lbView
    <2> SUFFICES ASSUME IInv, [Next]_vars, lbView' # lbView
                 PROVE  Doc!Next
      OBVIOUS
    <2>1. Deliver
      BY DEF Next, vars, ConnectPanics, LbDrop, Connect, TaskStep, ConnectSucceeds,
             TransportCloses, Pick, RpcStep, Invoke, InvokePanics, InvokeReturns,
             StartSelect, ConnectFails, SeeDrop, MoveToReady, MoveToIdle,
             MoveToTransientFailure, AwaitClosed, AwaitBackoff, Goto, Publish
    <2> QED BY <2>1, DeliverStep DEF Doc!Next
  <1> QED BY <1>1, <1>2, Invariance, PTL DEF Spec, SeesDocumented, Doc!Spec

=============================================================================
