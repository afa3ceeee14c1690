--------------------------- MODULE PriorityProofs ---------------------------
(***************************************************************************)
(* Proofs about Priority, for any names, any priority lists and any number *)
(* of pending timer tasks: what reconcile leaves behind satisfies the      *)
(* safety properties whatever the operation before it did to the children, *)
(* and the timer tasks do not disturb them.                                *)
(***************************************************************************)
EXTENDS Priority, TLAPS, WellFoundedInduction

\* A child whose state has caught up with its timers and with what it reported.
Settled(c) ==
    /\ c \in CreatedChild
    /\ c.failover_timer # "expired" /\ c.deactivation_timer # "expired"
    /\ c.state = "Connecting" <=> c.failover_timer # "none"
    /\ c.state \in {"Connecting", "ConnectingExpired"} <=> c.reported = "CONNECTING"
    /\ c.state = "TransientFailure" <=> c.reported = "TRANSIENT_FAILURE"

\* Children as an operation may leave them to reconcile.
Loose(cs) ==
    /\ cs \in [Name -> CreatedChild \cup {None}]
    /\ \A n \in Name : cs[n] # None =>
          (cs[n].state = "Connecting" <=> cs[n].failover_timer # "none")

\* Children as choose_priority finds and leaves them.
Tidy(cs) ==
    /\ cs \in [Name -> CreatedChild \cup {None}]
    /\ \A n \in Name : cs[n] # None => Settled(cs[n])

\* Child i of list o has been passed over.
Passed(o, cs, i) == cs[o[i]] # None /\ cs[o[i]].state \in {"ConnectingExpired", "TransientFailure"}

\* index is the choice of choose_priority among the children cs of list o, and pub
\* what it publishes.
Chosen(o, cs, index, pub) ==
    /\ Tidy(cs)
    /\ index \in 0 .. Len(o)
    /\ o # <<>> => index # 0
    /\ \A i \in 1 .. index : cs[o[i]] # None /\ cs[o[i]].deactivation_timer = "none"
    /\ \A i \in 1 .. (index - 1) : Passed(o, cs, i)
    /\ index # 0 =>
          /\ cs[o[index]].state = "ConnectingExpired" =>
                /\ \A i \in 1 .. Len(o) : Passed(o, cs, i)
                /\ \A i \in 1 .. (index - 1) : cs[o[i]].state = "TransientFailure"
          /\ cs[o[index]].state = "TransientFailure" =>
                \A i \in 1 .. Len(o) : cs[o[i]] # None /\ cs[o[i]].state = "TransientFailure"
    /\ pub = IF o = <<>> THEN EmptyList ELSE LbStateOf(cs, o[index])

\* The lists the policy may have.
List(o) == o \in Orders \cup {<<>>}

-----------------------------------------------------------------------------
(* Operators.                                                              *)

\* Among numbers there is a first: the loop of choose_priority, and position(),
\* find the highest priority that qualifies.
LEMMA FirstIsLeast ==
    ASSUME NEW S \in SUBSET Nat, S # {}
    PROVE  First(S) \in S /\ \A j \in S : First(S) <= j
  <1> DEFINE R == {ss \in Nat \X Nat : ss[1] < ss[2]}
  <1>1. IsWellFoundedOn(R, Nat)
    BY NatLessThanWellFounded, Zenon DEF OpToRel
  <1>2. \E i \in S : \A j \in S : <<j, i>> \notin R
    <2> HIDE DEF R
    <2> QED BY <1>1, WFMin
  <1>3. \E i \in S : \A j \in S : i <= j
    <2>1. PICK i \in S : \A j \in S : <<j, i>> \notin R
      BY <1>2
    <2>2. ASSUME NEW j \in S PROVE ~(j < i)
      BY <2>1
    <2> QED BY <2>2
  <1> QED BY <1>3 DEF First

\* A list is a sequence of distinct names.
LEMMA ListIsSequence ==
    ASSUME NEW o, List(o)
    PROVE  /\ Len(o) \in Nat
           /\ o # <<>> => Len(o) > 0
           /\ o = <<>> => Len(o) = 0
           /\ \A i \in 1 .. Len(o) : o[i] \in Name
           /\ \A i, j \in 1 .. Len(o) : o[i] = o[j] => i = j
  <1>1. CASE o = <<>>
    BY <1>1
  <1>2. CASE o \in Orders
    BY <1>2, OrdersAssumption
  <1> QED BY <1>1, <1>2 DEF List

\* A failover timer runs exactly while a child is taken for Connecting.
LEMMA FromSound ==
    ASSUME NEW s \in Connectivity
    PROVE  LET f == FromConnectivityState(s)
           IN  /\ s \in {"IDLE", "READY"} => f = [state |-> "ReadyOrIdle", timer |-> "none"]
               /\ s = "CONNECTING" => f = [state |-> "Connecting", timer |-> "running"]
               /\ s = "TRANSIENT_FAILURE" => f = [state |-> "TransientFailure", timer |-> "none"]
  <1>1. s \in {"IDLE", "READY"} =>
            FromConnectivityState(s) = [state |-> "ReadyOrIdle", timer |-> "none"]
    BY Zenon DEF FromConnectivityState
  <1>2. s = "CONNECTING" =>
            FromConnectivityState(s) = [state |-> "Connecting", timer |-> "running"]
    BY Zenon DEF FromConnectivityState
  <1>3. s = "TRANSIENT_FAILURE" =>
            FromConnectivityState(s) = [state |-> "TransientFailure", timer |-> "none"]
    BY Zenon DEF FromConnectivityState
  <1> QED BY <1>1, <1>2, <1>3

\* ChildState::update settles a child whose deactivation timer has not expired.
LEMMA UpdateSettles ==
    ASSUME NEW c \in CreatedChild, c.deactivation_timer # "expired",
           c.state = "Connecting" <=> c.failover_timer # "none"
    PROVE  Settled(Update(c))
  <1>1. CASE c.state = "Connecting" /\ c.reported = "CONNECTING"
    <2>1. Update(c) = IF c.failover_timer = "expired" THEN In(c, Expired) ELSE c
      BY <1>1, Zenon DEF Update
    <2> QED BY <1>1, <2>1 DEF In, Expired, Settled, CreatedChild, TimerState, Connectivity
  <1>2. CASE c.state \in {"ConnectingExpired", "TransientFailure"} /\ c.reported = "CONNECTING"
    <2>1. ~(c.state = "Connecting" /\ c.reported = "CONNECTING")
      BY <1>2
    <2>2. Update(c) = In(c, Expired)
      BY <1>2, <2>1, Zenon DEF Update
    <2> QED BY <1>2, <2>2 DEF In, Expired, Settled, CreatedChild, TimerState, Connectivity
  <1>3. CASE /\ ~(c.state = "Connecting" /\ c.reported = "CONNECTING")
             /\ ~(c.state \in {"ConnectingExpired", "TransientFailure"}
                     /\ c.reported = "CONNECTING")
    <2>1. Update(c) = In(c, FromConnectivityState(c.reported))
      BY <1>3, Zenon DEF Update
    <2>2. c.reported \in Connectivity
      BY DEF CreatedChild
    <2>3. LET f == FromConnectivityState(c.reported)
          IN  Update(c) = [reported |-> c.reported, picker |-> c.picker, state |-> f.state,
                           failover_timer |-> f.timer,
                           deactivation_timer |-> c.deactivation_timer]
      BY <2>1 DEF In
    <2>4. /\ c.picker \in Picker
          /\ c.deactivation_timer \in {"none", "running"}
      BY DEF CreatedChild, TimerState
    <2>5. CASE c.reported \in {"IDLE", "READY"}
      BY <2>3, <2>4, <2>5, FromSound, <2>2 DEF Settled, CreatedChild, TimerState, Connectivity
    <2>6. CASE c.reported = "CONNECTING"
      BY <2>3, <2>4, <2>6, FromSound, <2>2 DEF Settled, CreatedChild, TimerState, Connectivity
    <2>7. CASE c.reported = "TRANSIENT_FAILURE"
      BY <2>3, <2>4, <2>7, FromSound, <2>2 DEF Settled, CreatedChild, TimerState, Connectivity
    <2> QED BY <2>2, <2>5, <2>6, <2>7 DEF Connectivity
  <1> QED BY <1>1, <1>2, <1>3

\* A child starts settled.
LEMMA CreateSettles ==
    ASSUME NEW s \in Connectivity
    PROVE  Settled(Create(s)) /\ Create(s).deactivation_timer = "none"
  <1> DEFINE f == FromConnectivityState(s)
  <1>1. Create(s) = [reported |-> s, picker |-> 0, state |-> f.state,
                     failover_timer |-> f.timer, deactivation_timer |-> "none"]
    BY DEF Create, In
  <1>2. CASE s \in {"IDLE", "READY"}
    BY <1>1, <1>2, FromSound DEF Settled, CreatedChild, TimerState, Connectivity, Picker
  <1>3. CASE s = "CONNECTING"
    BY <1>1, <1>3, FromSound DEF Settled, CreatedChild, TimerState, Connectivity, Picker
  <1>4. CASE s = "TRANSIENT_FAILURE"
    BY <1>1, <1>4, FromSound DEF Settled, CreatedChild, TimerState, Connectivity, Picker
  <1> QED BY <1>2, <1>3, <1>4 DEF Connectivity

\* A child that is created, or reactivated, is settled and not about to be deleted.
LEMMA VisitSettles ==
    ASSUME NEW c, c # None => Settled(c), NEW s, c = None => s \in Connectivity
    PROVE  /\ Settled(Visit(c, s))
           /\ Visit(c, s).deactivation_timer = "none"
           /\ Visit(c, s) # None
  <1>1. CASE c = None
    BY <1>1, CreateSettles, NoneAssumption DEF Visit, Settled
  <1>2. CASE c # None
    BY <1>2, NoneAssumption DEF Visit, Settled, CreatedChild, TimerState
  <1> QED BY <1>1, <1>2

-----------------------------------------------------------------------------
(* reconcile.                                                              *)

\* What set_current_priority does to children of which those down to index have
\* been visited.
LEMMA SetCurrentSound ==
    ASSUME NEW o, List(o), NEW cs, Tidy(cs), NEW index \in 1 .. Len(o),
           NEW deactivate \in BOOLEAN,
           \A i \in 1 .. index : cs[o[i]] # None /\ cs[o[i]].deactivation_timer = "none"
    PROVE  LET r == SetCurrentPriority(o, cs, index, deactivate)
           IN  /\ Tidy(r.child)
               /\ \A n \in Name : (r.child[n] = None <=> cs[n] = None)
               /\ \A n \in Name : cs[n] # None => /\ r.child[n].reported = cs[n].reported
                                                  /\ r.child[n].picker = cs[n].picker
                                                  /\ r.child[n].state = cs[n].state
               /\ \A i \in 1 .. index : r.child[o[i]].deactivation_timer = "none"
               /\ r.current = index
               /\ r.published = LbStateOf(r.child, o[index])
  <1> DEFINE r == SetCurrentPriority(o, cs, index, deactivate)
             lower(n) == /\ deactivate /\ cs[n] # None /\ cs[n].deactivation_timer = "none"
                         /\ \E i \in (index + 1) .. Len(o) : o[i] = n
  <1>1. /\ r.child = [n \in Name |->
              IF lower(n) THEN [cs[n] EXCEPT !.deactivation_timer = "running"] ELSE cs[n]]
        /\ r.current = index
        /\ r.published = UpdatePicker(LbStateOf(cs, o[index]))
    BY DEF SetCurrentPriority
  <1>2. ASSUME NEW n \in Name, cs[n] # None
        PROVE  /\ Settled(r.child[n]) /\ r.child[n] # None
               /\ r.child[n].reported = cs[n].reported
               /\ r.child[n].picker = cs[n].picker
               /\ r.child[n].state = cs[n].state
    <2>1. Settled(cs[n])
      BY <1>2 DEF Tidy
    <2>2. CASE lower(n)
      <3>1. r.child[n] = [cs[n] EXCEPT !.deactivation_timer = "running"]
        BY <1>1, <2>2
      <3> QED BY <2>1, <3>1, NoneAssumption DEF Settled, CreatedChild, TimerState
    <2>3. CASE ~lower(n)
      BY <1>1, <1>2, <2>1, <2>3
    <2> QED BY <2>2, <2>3
  <1>3. ASSUME NEW n \in Name, cs[n] = None PROVE r.child[n] = None
    BY <1>1, <1>3
  <1>4. Tidy(r.child)
    <2>1. \A n \in Name : r.child[n] \in CreatedChild \cup {None}
      BY <1>2, <1>3 DEF Settled
    <2> QED BY <1>1, <1>2, <1>3, <2>1 DEF Tidy
  <1>5. ASSUME NEW i \in 1 .. index PROVE r.child[o[i]].deactivation_timer = "none"
    <2>1. o[i] \in Name /\ ~lower(o[i])
      BY ListIsSequence
    <2> QED BY <1>1, <2>1
  <1>6. r.published = LbStateOf(r.child, o[index])
    <2>1. o[index] \in Name /\ cs[o[index]] # None
      BY ListIsSequence
    <2>2. r.published = LbStateOf(cs, o[index])
      BY <1>1 DEF UpdatePicker
    <2> QED BY <2>1, <2>2, <1>2 DEF LbStateOf
  <1> QED BY <1>1, <1>2, <1>3, <1>4, <1>5, <1>6

\* choose_priority chooses the first child that is usable, else the first that is
\* still trying, else the last.
LEMMA ChooseSound ==
    ASSUME NEW o, List(o), NEW cs, Tidy(cs),
           NEW born \in [{n \in Elements(o) : cs[n] = None} -> Reported]
    PROVE  LET r == ChoosePriority(o, cs, born)
           IN  Chosen(o, r.child, r.current, r.published)
  <1> DEFINE r == ChoosePriority(o, cs, born)
             visit == [i \in 1 .. Len(o) |-> Visit(cs[o[i]], born[o[i]])]
             usable == {i \in 1 .. Len(o) : visit[i].state \in {"Connecting", "ReadyOrIdle"}}
             last == IF usable = {} THEN Len(o) ELSE First(usable)
             trying == {i \in 1 .. last : visit[i].state = "ConnectingExpired"}
             visited == [n \in Name |->
                IF \E i \in 1 .. last : o[i] = n THEN Visit(cs[n], born[n]) ELSE cs[n]]
  <1>1. CASE o = <<>>
    <2>1. r = [child |-> cs, current |-> 0, published |-> UpdatePicker(EmptyList)]
      BY <1>1, Zenon DEF ChoosePriority
    <2>2. r.published = EmptyList
      BY <2>1 DEF UpdatePicker
    <2>3. Len(o) = 0
      BY <1>1, ListIsSequence
    <2>4. r.child = cs /\ r.current = 0
      BY <2>1
    <2> HIDE DEF r
    <2>5. Chosen(o, r.child, r.current, r.published)
      BY <1>1, <2>2, <2>3, <2>4 DEF Chosen
    <2> QED BY <2>5 DEF r
  <1>2. CASE o # <<>>
    <2>1. /\ Len(o) \in Nat /\ Len(o) > 0
          /\ \A i \in 1 .. Len(o) : o[i] \in Name
      BY <1>2, ListIsSequence
    <2>2. usable \in SUBSET Nat /\ trying \in SUBSET Nat
      BY <2>1
    <2>3. /\ last \in 1 .. Len(o)
          /\ usable # {} => last \in usable
          /\ \A i \in 1 .. (last - 1) : i \notin usable
      <3>1. CASE usable = {}
        <4>1. last = Len(o)
          BY <3>1
        <4> HIDE DEF usable, last
        <4> QED BY <4>1, <3>1, <2>1
      <3>2. CASE usable # {}
        <4>1. last \in usable /\ \A j \in usable : last <= j
          BY <3>2, <2>2, FirstIsLeast
        <4>2. usable \subseteq 1 .. Len(o)
          OBVIOUS
        <4> HIDE DEF usable, last
        <4> QED BY <4>1, <4>2, <2>1
      <3> QED BY <3>1, <3>2
    <2>4. ASSUME NEW i \in 1 .. Len(o)
          PROVE  /\ Settled(visit[i]) /\ visit[i].deactivation_timer = "none"
                 /\ visit[i] # None
                 /\ visit[i].state \in {"Connecting", "ReadyOrIdle", "ConnectingExpired",
                                        "TransientFailure"}
      <3>1. o[i] \in Name
        BY <2>1
      <3>2. cs[o[i]] # None => Settled(cs[o[i]])
        BY <3>1 DEF Tidy
      <3>3. cs[o[i]] = None => born[o[i]] \in Connectivity
        BY ReportedAssumption DEF Elements
      <3>4. visit[i] = Visit(cs[o[i]], born[o[i]])
        OBVIOUS
      <3> HIDE DEF visit
      <3>5. Settled(visit[i]) /\ visit[i].deactivation_timer = "none" /\ visit[i] # None
        BY <3>2, <3>3, <3>4, VisitSettles
      <3> QED BY <3>5 DEF Settled, CreatedChild
    <2>5. \A i \in 1 .. last : visited[o[i]] = visit[i]
      <3> HIDE DEF last, usable
      <3> QED BY <2>1, <2>3
    <2>6. Tidy(visited)
      <3>1. ASSUME NEW n \in Name
            PROVE  visited[n] # None => Settled(visited[n])
        <4>1. CASE \E i \in 1 .. last : o[i] = n
          <5>1. PICK i \in 1 .. last : o[i] = n
            BY <4>1
          <5>2. visited[n] = visit[i] /\ i \in 1 .. Len(o)
            <6> HIDE DEF visited, visit, last
            <6> QED BY <5>1, <2>5, <2>3, <2>1
          <5> HIDE DEF visited, visit
          <5> QED BY <5>2, <2>4
        <4>2. CASE ~\E i \in 1 .. last : o[i] = n
          <5>1. visited[n] = cs[n]
            BY <4>2
          <5> HIDE DEF visited
          <5> QED BY <5>1 DEF Tidy
        <4> QED BY <4>1, <4>2
      <3>2. visited = [n \in Name |-> visited[n]]
        OBVIOUS
      <3> HIDE DEF visited
      <3> QED BY <3>1, <3>2 DEF Tidy, Settled
    <2>7. \A i \in 1 .. last : /\ visited[o[i]] # None
                               /\ visited[o[i]].deactivation_timer = "none"
      <3> HIDE DEF visited, visit, last
      <3> QED BY <2>4, <2>5, <2>3, <2>1
    <2>8. \A i \in 1 .. Len(o) : i \notin usable =>
             visit[i].state \in {"ConnectingExpired", "TransientFailure"}
      <3> HIDE DEF visit
      <3> QED BY <2>4
    <2>9. ASSUME NEW k \in 1 .. last, NEW d \in BOOLEAN,
                 r = SetCurrentPriority(o, visited, k, d)
          PROVE  /\ Tidy(r.child)
                 /\ r.current = k /\ k \in 1 .. Len(o)
                 /\ r.published = LbStateOf(r.child, o[k])
                 /\ \A i \in 1 .. k : r.child[o[i]].deactivation_timer = "none"
                 /\ \A i \in 1 .. last : /\ r.child[o[i]] # None
                                          /\ r.child[o[i]].state = visit[i].state
      <3> HIDE DEF r, visited, visit, last, usable, trying
      <3>1. k \in 1 .. Len(o) /\ 1 .. last \subseteq 1 .. Len(o) /\ 1 .. k \subseteq 1 .. last
        BY <2>1, <2>3
      <3>2. \A i \in 1 .. k : visited[o[i]] # None /\ visited[o[i]].deactivation_timer = "none"
        BY <3>1, <2>7
      <3>3. LET q == SetCurrentPriority(o, visited, k, d)
            IN  /\ Tidy(q.child)
                /\ \A n \in Name : (q.child[n] = None <=> visited[n] = None)
                /\ \A n \in Name : visited[n] # None =>
                                      /\ q.child[n].reported = visited[n].reported
                                      /\ q.child[n].picker = visited[n].picker
                                      /\ q.child[n].state = visited[n].state
                /\ \A i \in 1 .. k : q.child[o[i]].deactivation_timer = "none"
                /\ q.current = k
                /\ q.published = LbStateOf(q.child, o[k])
        <4>1. k \in 1 .. Len(o)
          BY <3>1
        <4> QED BY <4>1, <3>2, <2>6, SetCurrentSound
      <3>4. \A i \in 1 .. last : o[i] \in Name
        BY <3>1, <2>1
      <3> QED BY <2>9, <3>1, <3>3, <3>4, <2>5, <2>7
    <2>10. CASE usable # {}
      <3>1. r = SetCurrentPriority(o, visited, last, visit[last].state = "ReadyOrIdle")
        BY <1>2, <2>10, Zenon DEF ChoosePriority
      <3>2. visit[last].state \in {"Connecting", "ReadyOrIdle"}
        BY <2>3, <2>10
      <3> HIDE DEF r, visited, visit, last, usable, trying
      <3>3. last \in 1 .. last
        BY <2>1, <2>3
      <3>4. \A i \in 1 .. (last - 1) : /\ i \in 1 .. last /\ i \in 1 .. Len(o)
                                       /\ i \notin usable
        BY <2>1, <2>3
      <3>5. Chosen(o, r.child, r.current, r.published)
        <4>1. /\ Tidy(r.child)
              /\ r.current = last /\ last \in 1 .. Len(o)
              /\ r.published = LbStateOf(r.child, o[last])
              /\ \A i \in 1 .. last : r.child[o[i]].deactivation_timer = "none"
              /\ \A i \in 1 .. last : /\ r.child[o[i]] # None
                                       /\ r.child[o[i]].state = visit[i].state
          BY <3>1, <3>3, <2>9
        <4> QED BY <4>1, <3>2, <3>3, <3>4, <1>2, <2>1, <2>8 DEF Chosen, Passed
      <3> QED BY <3>5 DEF r
    <2>11. CASE usable = {} /\ trying # {}
      <3>1. r = SetCurrentPriority(o, visited, First(trying), FALSE)
        BY <1>2, <2>11, Zenon DEF ChoosePriority
      <3>2. last = Len(o)
        BY <2>11
      <3>3. /\ First(trying) \in trying /\ \A j \in trying : First(trying) <= j
        BY <2>2, <2>11, FirstIsLeast
      <3> DEFINE k == First(trying)
      <3>4. k \in 1 .. last /\ visit[k].state = "ConnectingExpired"
        BY <3>3
      <3>5. \A i \in 1 .. last : visit[i].state = "ConnectingExpired" => i \in trying
        OBVIOUS
      <3> HIDE DEF r, visited, visit, last, usable, trying, k
      <3>6. ASSUME NEW i \in 1 .. (k - 1)
            PROVE  i \in 1 .. last /\ visit[i].state = "TransientFailure"
        <4>1. i \in 1 .. last /\ i \in 1 .. Len(o) /\ i \notin trying
          BY <3>2, <3>3, <3>4, <2>1 DEF k
        <4> QED BY <4>1, <3>5, <2>8, <2>11
      <3>7. \A i \in 1 .. Len(o) : /\ i \in 1 .. last
                                   /\ visit[i].state \in {"ConnectingExpired", "TransientFailure"}
        BY <3>2, <2>8, <2>11
      <3>8. r = SetCurrentPriority(o, visited, k, FALSE)
        BY <3>1 DEF k
      <3>9. \A i \in 1 .. k : i \in 1 .. last
        BY <3>4, <2>1, <2>3
      <3>10. Chosen(o, r.child, r.current, r.published)
        <4>1. /\ Tidy(r.child)
              /\ r.current = k /\ k \in 1 .. Len(o)
              /\ r.published = LbStateOf(r.child, o[k])
              /\ \A i \in 1 .. k : r.child[o[i]].deactivation_timer = "none"
              /\ \A i \in 1 .. last : /\ r.child[o[i]] # None
                                       /\ r.child[o[i]].state = visit[i].state
          BY <3>4, <3>8, <2>9
        <4> QED BY <4>1, <3>4, <3>6, <3>7, <3>9, <1>2, <2>1 DEF Chosen, Passed
      <3> QED BY <3>10 DEF r
    <2>12. CASE usable = {} /\ trying = {}
      <3>1. r = SetCurrentPriority(o, visited, Len(o), FALSE)
        BY <1>2, <2>12, Zenon DEF ChoosePriority
      <3>2. last = Len(o)
        BY <2>12
      <3>3. \A i \in 1 .. last : visit[i].state # "ConnectingExpired"
        BY <2>12
      <3> HIDE DEF r, visited, visit, last, usable, trying
      <3>4. \A i \in 1 .. Len(o) : i \in 1 .. last /\ visit[i].state = "TransientFailure"
        BY <3>2, <3>3, <2>8, <2>12
      <3>5. Len(o) \in 1 .. last
        BY <2>1, <3>2
      <3>6. Chosen(o, r.child, r.current, r.published)
        <4> DEFINE k == Len(o)
        <4> HIDE DEF k
        <4>1. /\ Tidy(r.child)
              /\ r.current = k /\ k \in 1 .. Len(o)
              /\ r.published = LbStateOf(r.child, o[k])
              /\ \A i \in 1 .. k : r.child[o[i]].deactivation_timer = "none"
              /\ \A i \in 1 .. last : /\ r.child[o[i]] # None
                                       /\ r.child[o[i]].state = visit[i].state
          BY <3>1, <3>5, <2>9 DEF k
        <4> QED BY <4>1, <3>2, <3>4, <3>5, <1>2, <2>1 DEF k, Chosen, Passed
      <3> QED BY <3>6 DEF r
    <2> QED BY <2>10, <2>11, <2>12
  <1> QED BY <1>1, <1>2

\* handle_deactivation_timers and update_child_data leave settled children only.
LEMMA SettlingIsTidy ==
    ASSUME NEW cs, Loose(cs)
    PROVE  Tidy([n \in Name |-> UpdateChildData(HandleDeactivationTimer(cs[n]))])
  <1> DEFINE now == [n \in Name |-> UpdateChildData(HandleDeactivationTimer(cs[n]))]
  <1>1. ASSUME NEW n \in Name, now[n] # None PROVE Settled(now[n])
    <2>1. now[n] = UpdateChildData(HandleDeactivationTimer(cs[n]))
      OBVIOUS
    <2>2. cs[n] # None /\ cs[n].deactivation_timer # "expired" /\ now[n] = Update(cs[n])
      BY <1>1, <2>1 DEF UpdateChildData, HandleDeactivationTimer
    <2>3. cs[n] \in CreatedChild /\ (cs[n].state = "Connecting" <=> cs[n].failover_timer # "none")
      BY <2>2 DEF Loose
    <2> HIDE DEF now
    <2> QED BY <2>2, <2>3, UpdateSettles
  <1>2. now = [n \in Name |-> now[n]]
    OBVIOUS
  <1> HIDE DEF now
  <1>3. Tidy(now)
    BY <1>1, <1>2 DEF Tidy, Settled
  <1> QED BY <1>3 DEF now

\* Whatever reconcile is given, it ends with a choice among settled children.
LEMMA ReconcileSound ==
    ASSUME NEW o, List(o), NEW cs, Loose(cs), Reconcile(o, cs)
    PROVE  Chosen(o, child', current', published')
  <1> DEFINE now == [n \in Name |-> UpdateChildData(HandleDeactivationTimer(cs[n]))]
  <1>1. Tidy(now)
    BY SettlingIsTidy
  <1>2. PICK born \in [{n \in Elements(o) : now[n] = None} -> Reported] :
            LET r == ChoosePriority(o, now, born)
            IN  child' = r.child /\ current' = r.current /\ published' = r.published
    BY Zenon DEF Reconcile
  <1> HIDE DEF now
  <1>3. LET r == ChoosePriority(o, now, born)
        IN  Chosen(o, r.child, r.current, r.published)
    BY <1>1, ChooseSound
  <1> QED BY <1>2, <1>3

-----------------------------------------------------------------------------
(* The inductive invariant, and that every step keeps it.                  *)

\* The safety properties need no strengthening, but they need each other: the
\* child in use must exist for what is published to be its state, and a timer
\* may expire because the children in use have none.
IInv ==
    /\ TypeOK
    /\ BestOffered
    /\ PublishedIsCurrent
    /\ InUseKept
    /\ NoLostWakeup

\* A choice among settled children satisfies the invariant.
LEMMA ChosenIsSound ==
    ASSUME List(order'), Chosen(order', child', current', published'),
           firing' \in 0 .. MaxWork, queued' \in 0 .. (MaxWork - firing')
    PROVE  IInv'
  <1>1. /\ Len(order') \in Nat
        /\ order' # <<>> => Len(order') > 0
        /\ order' = <<>> => Len(order') = 0
        /\ \A i \in 1 .. Len(order') : order'[i] \in Name
    BY ListIsSequence
  <1>2. /\ Tidy(child')
        /\ current' \in 0 .. Len(order')
        /\ order' # <<>> => current' # 0
        /\ \A i \in 1 .. current' : child'[order'[i]] # None
                                    /\ child'[order'[i]].deactivation_timer = "none"
        /\ published' = IF order' = <<>> THEN EmptyList ELSE LbStateOf(child', order'[current'])
    BY DEF Chosen
  <1>3. \A n \in Name : child'[n] # None => Settled(child'[n])
    BY <1>2 DEF Tidy
  <1>4. TypeOK'
    <2>1. published' \in LbState
      <3>1. CASE order' = <<>>
        BY <3>1, <1>2 DEF LbState, EmptyList, Connectivity, Picker
      <3>2. CASE order' # <<>>
        <4>1. order'[current'] \in Name /\ child'[order'[current']] # None
          BY <3>2, <1>1, <1>2
        <4>2. child'[order'[current']] \in CreatedChild
          BY <4>1, <1>3 DEF Settled
        <4> QED BY <3>2, <4>1, <4>2, <1>2 DEF LbState, LbStateOf, CreatedChild
      <3> QED BY <3>1, <3>2
    <2>2. \A n \in Name : child'[n] # None =>
             (child'[n].state = "Connecting" <=> child'[n].failover_timer # "none")
      BY <1>3 DEF Settled
    <2>3. order' \in Orders \cup {<<>>} /\ child' \in [Name -> CreatedChild \cup {None}]
      BY <1>2 DEF Tidy, List
    <2> QED BY <1>2, <2>1, <2>2, <2>3 DEF TypeOK
  <1>5. PublishedIsCurrent'
    BY <1>2 DEF PublishedIsCurrent
  <1>6. InUseKept'
    BY <1>2 DEF InUseKept
  <1>7. NoLostWakeup'
    BY <1>3 DEF NoLostWakeup, Settled, Timer
  <1>8. BestOffered'
    <2> SUFFICES ASSUME current' # 0 PROVE BestOffered'
      BY DEF BestOffered
    <2> DEFINE rep(i) == IF child'[order'[i]] = None THEN "none" ELSE child'[order'[i]].reported
               k == current'
    <2>1. k \in 1 .. Len(order') /\ 1 .. (k - 1) \subseteq 1 .. Len(order')
      BY <1>1, <1>2
    <2>2. ASSUME NEW i \in 1 .. Len(order')
          PROVE  /\ Passed(order', child', i) => rep(i) \in Failing
                 /\ child'[order'[i]] # None =>
                      (child'[order'[i]].state = "TransientFailure" <=> rep(i) = "TRANSIENT_FAILURE")
      BY <1>1, <1>3 DEF Settled, CreatedChild, Passed, Failing
    <2>3. /\ \A i \in 1 .. (k - 1) : Passed(order', child', i)
          /\ child'[order'[k]].state = "ConnectingExpired" =>
                /\ \A i \in 1 .. Len(order') : Passed(order', child', i)
                /\ \A i \in 1 .. (k - 1) : child'[order'[i]].state = "TransientFailure"
          /\ child'[order'[k]].state = "TransientFailure" =>
                \A i \in 1 .. Len(order') :
                    child'[order'[i]] # None /\ child'[order'[i]].state = "TransientFailure"
      BY DEF Chosen
    <2>4. child'[order'[k]] # None
      BY <2>1, <1>2
    <2>5. \A i \in 1 .. (k - 1) : rep(i) \in Failing
      BY <2>1, <2>2, <2>3
    <2>6. child'[order'[k]].state = "ConnectingExpired" =>
             /\ \A i \in 1 .. Len(order') : rep(i) \in Failing
             /\ \A i \in 1 .. (k - 1) : rep(i) = "TRANSIENT_FAILURE"
      BY <2>1, <2>2, <2>3 DEF Passed
    <2>7. rep(k) = "TRANSIENT_FAILURE" => \A i \in 1 .. Len(order') : rep(i) = "TRANSIENT_FAILURE"
      BY <2>1, <2>2, <2>3, <2>4
    <2>8. \A i \in 1 .. Len(order') :
             [j \in 1 .. Len(order') |->
                 IF child'[order'[j]] = None THEN "none" ELSE child'[order'[j]].reported][i] = rep(i)
      OBVIOUS
    <2> HIDE DEF rep
    <2> QED BY <2>1, <2>5, <2>6, <2>7, <2>8 DEF BestOffered
  <1> QED BY <1>4, <1>5, <1>6, <1>7, <1>8 DEF IInv

\* A report is a new state in a picker of the child's.
LEMMA ReportsType ==
    ASSUME NEW c \in CreatedChild, NEW n, NEW s \in Reported
    PROVE  /\ Reports(c, n, s) \in CreatedChild
           /\ Reports(c, n, s).state = c.state
           /\ Reports(c, n, s).failover_timer = c.failover_timer
  BY ReportedAssumption DEF Reports, CreatedChild, Picker

\* Builder::build.
LEMMA InitSound == Init => IInv
  <1> SUFFICES ASSUME Init PROVE IInv
    OBVIOUS
  <1>1. \A n \in Name : child[n] = None
    BY DEF Init
  <1>2. child \in [Name -> CreatedChild \cup {None}]
    BY DEF Init
  <1> QED BY <1>1, <1>2, MaxWorkAssumption
          DEF Init, IInv, TypeOK, BestOffered, PublishedIsCurrent, InUseKept, NoLostWakeup

\* The list and the children between operations are ones that reconcile accepts.
LEMMA BetweenOperations ==
    ASSUME IInv
    PROVE  List(order) /\ Loose(child)
  BY DEF IInv, TypeOK, List, Loose

\* An operation that has one child report ends in a choice.
LEMMA CalledSound ==
    ASSUME IInv, NEW n \in Name, child[n] # None, NEW s \in Reported, Called(n, s)
    PROVE  IInv'
  <1> DEFINE cs == [child EXCEPT ![n] = Reports(child[n], n, s)]
  <1>1. child \in [Name -> CreatedChild \cup {None}] /\ child[n] \in CreatedChild
    BY DEF IInv, TypeOK
  <1>2. /\ Reports(child[n], n, s) \in CreatedChild
        /\ Reports(child[n], n, s).state = child[n].state
        /\ Reports(child[n], n, s).failover_timer = child[n].failover_timer
    BY <1>1, ReportsType
  <1>3. Loose(cs)
    <2>1. cs \in [Name -> CreatedChild \cup {None}]
      BY <1>1, <1>2
    <2>2. ASSUME NEW m \in Name, cs[m] # None
          PROVE  cs[m].state = "Connecting" <=> cs[m].failover_timer # "none"
      <3>1. CASE m = n
        BY <1>1, <1>2, <3>1 DEF IInv, TypeOK
      <3>2. CASE m # n
        BY <1>1, <2>2, <3>2 DEF IInv, TypeOK
      <3> QED BY <3>1, <3>2
    <2> HIDE DEF cs
    <2> QED BY <2>1, <2>2 DEF Loose
  <1>4. Reconcile(order, cs) /\ order' = order /\ firing' = firing /\ queued' = queued
    BY DEF Called
  <1> HIDE DEF cs
  <1>5. Chosen(order, child', current', published')
    BY <1>3, <1>4, ReconcileSound, BetweenOperations
  <1>6. firing \in 0 .. MaxWork /\ queued \in 0 .. (MaxWork - firing)
    BY DEF IInv, TypeOK
  <1> QED BY <1>4, <1>5, <1>6, BetweenOperations, ChosenIsSound

\* Every step keeps the invariant.
LEMMA NextSound == IInv /\ [Next]_vars => IInv'
  <1> SUFFICES ASSUME IInv, [Next]_vars PROVE IInv'
    OBVIOUS
  <1>1. /\ firing \in 0 .. MaxWork /\ queued \in 0 .. (MaxWork - firing)
        /\ child \in [Name -> CreatedChild \cup {None}]
        /\ current \in 0 .. Len(order)
    BY DEF IInv, TypeOK
  <1>2. ASSUME NEW o \in Orders, ResolverUpdate(o) PROVE IInv'
    <2> DEFINE kept == {n \in Elements(o) : child[n] # None}
    <2>1. PICK report \in [kept -> Reported \cup {None}] :
              Reconcile(o, [n \in Name |->
                    IF n \notin kept THEN None
                    ELSE IF report[n] = None THEN child[n] ELSE Reports(child[n], n, report[n])])
      BY <1>2 DEF ResolverUpdate
    <2> DEFINE cs == [n \in Name |->
                    IF n \notin kept THEN None
                    ELSE IF report[n] = None THEN child[n] ELSE Reports(child[n], n, report[n])]
    <2>2. List(o) /\ order' = o /\ firing' = firing /\ queued' = queued
      BY <1>2 DEF ResolverUpdate, List
    <2>3. ASSUME NEW n \in Name, cs[n] # None
          PROVE  /\ cs[n] \in CreatedChild
                 /\ cs[n].state = "Connecting" <=> cs[n].failover_timer # "none"
      <3>1. n \in kept /\ child[n] # None /\ child[n] \in CreatedChild
        BY <1>1, <2>3
      <3>2. child[n].state = "Connecting" <=> child[n].failover_timer # "none"
        BY <3>1 DEF IInv, TypeOK
      <3>3. CASE report[n] = None
        <4>1. cs[n] = child[n]
          BY <3>1, <3>3
        <4> HIDE DEF cs
        <4> QED BY <4>1, <3>1, <3>2
      <3>4. CASE report[n] # None
        <4>1. cs[n] = Reports(child[n], n, report[n]) /\ report[n] \in Reported
          BY <3>1, <3>4
        <4> HIDE DEF cs, kept
        <4> QED BY <4>1, <3>1, <3>2, ReportsType
      <3> QED BY <3>3, <3>4
    <2>4. cs = [n \in Name |-> cs[n]]
      OBVIOUS
    <2>5. Reconcile(o, cs)
      BY <2>1
    <2> HIDE DEF cs
    <2>6. Loose(cs)
      BY <2>3, <2>4 DEF Loose
    <2>7. Chosen(o, child', current', published')
      BY <2>2, <2>5, <2>6, ReconcileSound
    <2> QED BY <1>1, <2>2, <2>7, ChosenIsSound
  <1>3. ASSUME NEW n \in Name, NEW s \in Reported, ChildWork(n, s) PROVE IInv'
    BY <1>3, CalledSound DEF ChildWork
  <1>4. ASSUME NEW s \in Reported, ExitIdle(s) PROVE IInv'
    <2>1. current \in 1 .. Len(order) /\ current \in 1 .. current
      BY <1>1, <1>4, BetweenOperations, ListIsSequence DEF ExitIdle
    <2>2. order[current] \in Name /\ child[order[current]] # None
      BY <2>1, BetweenOperations, ListIsSequence DEF IInv, InUseKept
    <2> QED BY <1>4, <2>2, CalledSound DEF ExitIdle
  <1>5. CASE QuietWork
    <2>1. Reconcile(order, child) /\ order' = order /\ firing' = firing /\ queued' = queued
      BY <1>5 DEF QuietWork
    <2>2. Chosen(order, child', current', published')
      BY <2>1, ReconcileSound, BetweenOperations
    <2> QED BY <1>1, <2>1, <2>2, BetweenOperations, ChosenIsSound
  <1>6. CASE TimerWork
    <2>1. Reconcile(order, child) /\ order' = order /\ firing' = firing
      BY <1>6 DEF TimerWork
    <2>2. queued' \in 0 .. (MaxWork - firing)
      BY <1>1, <1>6, MaxWorkAssumption DEF TimerWork
    <2>3. Chosen(order, child', current', published')
      BY <2>1, ReconcileSound, BetweenOperations
    <2> QED BY <1>1, <2>1, <2>2, <2>3, BetweenOperations, ChosenIsSound
  <1>7. ASSUME NEW n \in Name, NEW t \in Timer, Expire(n, t) PROVE IInv'
    <2>1. /\ firing + queued < MaxWork /\ child[n] # None /\ child[n][t] = "running"
          /\ child' = [child EXCEPT ![n][t] = "expired"] /\ firing' = firing + 1
          /\ order' = order /\ current' = current /\ published' = published /\ queued' = queued
      BY <1>7 DEF Expire, Running
    <2>2. child[n] \in CreatedChild
      BY <1>1, <2>1
    <2>3. /\ child'[n] \in CreatedChild /\ child'[n] # None
          /\ child'[n].state = child[n].state
          /\ child'[n].reported = child[n].reported
          /\ child'[n].picker = child[n].picker
          /\ child'[n].failover_timer = "none" <=> child[n].failover_timer = "none"
          /\ child'[n].deactivation_timer = "none" <=> child[n].deactivation_timer = "none"
      <3>1. CASE t = "failover_timer"
        <4>1. child'[n] = [child[n] EXCEPT !.failover_timer = "expired"]
          BY <1>1, <2>1, <3>1
        <4> QED BY <2>1, <2>2, <3>1, <4>1, NoneAssumption DEF CreatedChild, TimerState
      <3>2. CASE t = "deactivation_timer"
        <4>1. child'[n] = [child[n] EXCEPT !.deactivation_timer = "expired"]
          BY <1>1, <2>1, <3>2
        <4> QED BY <2>1, <2>2, <3>2, <4>1, NoneAssumption DEF CreatedChild, TimerState
      <3> QED BY <3>1, <3>2 DEF Timer
    <2>4. \A m \in Name : m # n => child'[m] = child[m]
      BY <1>1, <2>1
    <2>5. child' \in [Name -> CreatedChild \cup {None}]
      <3>1. child' = [m \in Name |-> child'[m]]
        BY <1>1, <2>1
      <3>2. \A m \in Name : child'[m] \in CreatedChild \cup {None}
        BY <1>1, <2>3, <2>4
      <3> QED BY <3>1, <3>2
    <2>6. TypeOK'
      <3>1. \A m \in Name : child'[m] # None =>
               (child'[m].state = "Connecting" <=> child'[m].failover_timer # "none")
        BY <2>1, <2>3, <2>4 DEF IInv, TypeOK
      <3>2. firing' \in 0 .. MaxWork /\ queued' \in 0 .. (MaxWork - firing')
        BY <1>1, <2>1, MaxWorkAssumption
      <3> QED BY <2>1, <2>5, <3>1, <3>2 DEF IInv, TypeOK
    <2>7. /\ Len(order) \in Nat
          /\ \A i \in 1 .. Len(order) : order[i] \in Name
          /\ order # <<>> => Len(order) > 0
      BY BetweenOperations, ListIsSequence
    <2>8. \A i \in 1 .. Len(order) :
             /\ child'[order[i]] = None <=> child[order[i]] = None
             /\ child[order[i]] # None => /\ child'[order[i]].state = child[order[i]].state
                                          /\ child'[order[i]].reported = child[order[i]].reported
                                          /\ child'[order[i]].picker = child[order[i]].picker
                                          /\ child'[order[i]].deactivation_timer = "none"
                                               <=> child[order[i]].deactivation_timer = "none"
      BY <2>1, <2>3, <2>4, <2>7
    <2>9. \A i \in 1 .. current : i \in 1 .. Len(order)
      BY <1>1, <2>7
    <2>10. InUseKept'
      BY <2>1, <2>8, <2>9 DEF IInv, InUseKept
    <2>11. PublishedIsCurrent'
      <3> SUFFICES ASSUME published # None, order # <<>>
                   PROVE  LbStateOf(child', order[current]) = LbStateOf(child, order[current])
        BY <2>1 DEF IInv, PublishedIsCurrent
      <3>1. current \in 1 .. current /\ child[order[current]] # None
        BY <1>1, <2>7 DEF IInv, InUseKept
      <3> QED BY <2>8, <2>9, <3>1 DEF LbStateOf
    <2>12. BestOffered'
      <3> SUFFICES ASSUME current # 0 PROVE BestOffered'
        BY <2>1 DEF BestOffered
      <3> DEFINE R(c) == [i \in 1 .. Len(order) |->
                            IF c[order[i]] = None THEN "none" ELSE c[order[i]].reported]
      <3>1. R(child') = R(child)
        BY <2>8
      <3>2. child'[order[current]].state = child[order[current]].state
        <4>1. current \in 1 .. current
          BY <1>1, <2>7
        <4> QED BY <4>1, <2>8, <2>9 DEF IInv, InUseKept
      <3>3. LET reported == R(child)
            IN  /\ \A i \in 1 .. current - 1 : reported[i] \in Failing
                /\ child[order[current]].state = "ConnectingExpired" =>
                      /\ \A i \in 1 .. Len(order) : reported[i] \in Failing
                      /\ \A i \in 1 .. current - 1 : reported[i] = "TRANSIENT_FAILURE"
                /\ reported[current] = "TRANSIENT_FAILURE" =>
                      \A i \in 1 .. Len(order) : reported[i] = "TRANSIENT_FAILURE"
        BY Zenon DEF IInv, BestOffered
      <3> DEFINE reported == R(child')
      <3>4. /\ \A i \in 1 .. current - 1 : reported[i] \in Failing
            /\ child'[order[current]].state = "ConnectingExpired" =>
                  /\ \A i \in 1 .. Len(order) : reported[i] \in Failing
                  /\ \A i \in 1 .. current - 1 : reported[i] = "TRANSIENT_FAILURE"
            /\ reported[current] = "TRANSIENT_FAILURE" =>
                  \A i \in 1 .. Len(order) : reported[i] = "TRANSIENT_FAILURE"
        <4> HIDE DEF R
        <4> QED BY <3>1, <3>2, <3>3
      <3>5. reported = [i \in 1 .. Len(order') |->
                 IF child'[order'[i]] = None THEN "none" ELSE child'[order'[i]].reported]
        BY <2>1
      <3> HIDE DEF reported
      <3> QED BY <2>1, <3>4, <3>5 DEF BestOffered
    <2>13. NoLostWakeup'
      BY <1>1, <2>1 DEF NoLostWakeup
    <2> QED BY <2>6, <2>10, <2>11, <2>12, <2>13 DEF IInv
  <1>8. CASE ScheduleWork
    <2>1. /\ firing' \in 0 .. MaxWork /\ queued' \in 0 .. (MaxWork - firing')
          /\ firing' + queued' = firing + queued
          /\ order' = order /\ current' = current /\ published' = published /\ child' = child
      BY <1>1, <1>8, MaxWorkAssumption DEF ScheduleWork
    <2>2. TypeOK'
      BY <2>1 DEF IInv, TypeOK
    <2>3. BestOffered'
      BY <2>1 DEF IInv, BestOffered
    <2>4. PublishedIsCurrent' /\ InUseKept' /\ NoLostWakeup'
      BY <2>1 DEF IInv, PublishedIsCurrent, InUseKept, NoLostWakeup
    <2> QED BY <2>2, <2>3, <2>4 DEF IInv
  <1>9. CASE UNCHANGED vars
    <2>1. /\ order' = order /\ child' = child /\ current' = current
          /\ published' = published /\ firing' = firing /\ queued' = queued
      BY <1>9 DEF vars
    <2>2. TypeOK'
      BY <2>1 DEF IInv, TypeOK
    <2>3. BestOffered'
      BY <2>1 DEF IInv, BestOffered
    <2>4. PublishedIsCurrent' /\ InUseKept' /\ NoLostWakeup'
      BY <2>1 DEF IInv, PublishedIsCurrent, InUseKept, NoLostWakeup
    <2> QED BY <2>2, <2>3, <2>4 DEF IInv
  <1> QED BY <1>2, <1>3, <1>4, <1>5, <1>6, <1>7, <1>8, <1>9 DEF Next

-----------------------------------------------------------------------------
(* Theorems.                                                               *)

\* Every reachable state satisfies the inductive invariant.
THEOREM InvariantHolds == SafetySpec => []IInv
  <1> QED BY InitSound, NextSound, PTL DEF SafetySpec

\* The policy's state stays well formed: a child has a failover timer exactly while
\* ChildState is Connecting.
THEOREM AlwaysTypeOK == SafetySpec => []TypeOK
  <1>1. IInv => TypeOK
    BY DEF IInv
  <1> QED BY InvariantHolds, <1>1, PTL

\* For any lists and names, choose_priority passes over a child only while it reports
\* that it fails or is trying, and fails calls only if every child does.
THEOREM AlwaysBestOffered == SafetySpec => []BestOffered
  <1>1. IInv => BestOffered
    BY DEF IInv
  <1> QED BY InvariantHolds, <1>1, PTL

\* update_picker's comparison with published_lb_state never holds back the latest
\* state or picker of the child in use.
THEOREM AlwaysPublishedIsCurrent == SafetySpec => []PublishedIsCurrent
  <1>1. IInv => PublishedIsCurrent
    BY DEF IInv
  <1> QED BY InvariantHolds, <1>1, PTL

\* The child in use, and those preferred to it, are never deactivated or deleted.
THEOREM AlwaysInUseKept == SafetySpec => []InUseKept
  <1>1. IInv => InUseKept
    BY DEF IInv
  <1> QED BY InvariantHolds, <1>1, PTL

\* No expired timer is left without work that will look at it.
THEOREM AlwaysNoLostWakeup == SafetySpec => []NoLostWakeup
  <1>1. IInv => NoLostWakeup
    BY DEF IInv
  <1> QED BY InvariantHolds, <1>1, PTL
=============================================================================
