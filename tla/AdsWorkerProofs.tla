--------------------------- MODULE AdsWorkerProofs ---------------------------
(***************************************************************************)
(* Proofs about AdsWorker, for any types, names and watchers, any bounds   *)
(* and any number of streams: what a turn of the worker leaves behind      *)
(* satisfies the safety properties, because of what the queue may hold.    *)
(*                                                                         *)
(* The properties are stated of a turn c, so that they can be followed     *)
(* through the worker's methods; of Turn they are properties of the state. *)
(***************************************************************************)
EXTENDS AdsWorker, TLAPS, FiniteSetTheorems, SequenceTheorems, WellFoundedInduction

Turns == [ts : [Type -> TypeStates], timers : [Keys -> Nat],
          session : {"none", "active", "retired"}, sent : [Type -> Seq(Names)],
          gate : SUBSET Watcher, told : [Watcher -> CacheStates],
          last : [Type -> Request], bad : SUBSET Nat, ok : BOOLEAN]

\* The stream knows what the watchers of the types outside X want.
Asked(c, X) ==
    c.ok /\ c.session = "active" =>
        \A t \in Type \ X : Watchers(c.ts[t]) # {} => c.last[t].names = Subscription(c.ts[t])

\* What the watchers of the types outside X wait for has a timer, if timers are used.
Timed(c, X) ==
    ResourceInitialTimeout /\ c.ok /\ c.session = "active" =>
        \A t \in Type \ X, w \in Watcher, n \in Name :
            c.ts[t].watchers[w] = n /\ c.ts[t].cache[n] = "Requested" => c.timers[<<t, n>>] # 0

\* Watchers have been told what is cached.
Heard(c) ==
    \A t \in Type, w \in Watcher, n \in Name :
        c.ts[t].watchers[w] = n =>
            c.told[w] = (IF c.ts[t].cache[n] = "Requested" THEN "none" ELSE c.ts[t].cache[n])

\* A watcher id belongs to one type.
Owned(c) ==
    \A w \in Watcher : \A t, u \in Type :
        c.ts[t].watchers[w] # None /\ c.ts[u].watchers[w] # None => t = u

\* Nonces are of this stream; a worker without a stream has made no request on it.
Nonces(c) ==
    /\ c.session = "none" => \A t \in Type : c.last[t] = NoRequest
    /\ c.session # "none" => \A t \in Type : c.ts[t].nonce # 0 => c.ts[t].nonce > count.base
    /\ \A t \in Type : c.last[t].nonce # 0 => c.last[t].nonce > count.base

\* Versions were accepted.
Versions(c) ==
    /\ \A t \in Type : c.ts[t].version \notin c.bad /\ c.ts[t].version <= count.responses
    /\ \A t \in Type : c.last[t].version \notin c.bad /\ c.last[t].version <= count.responses
    /\ \A v \in c.bad : v # 0 /\ v <= count.responses

\* No watcher id is in a type.
Absent(c, w) == \A t \in Type : c.ts[t].watchers[w] = None

\* The response of id v has left no trace yet.
Unseen(c, v) ==
    /\ v \notin c.bad
    /\ \A t \in Type : c.ts[t].version # v /\ c.last[t].version # v

-----------------------------------------------------------------------------
(* What the queue may hold.                                                *)

StreamKinds == {"ready", "response", "failed"}

\* Ready, responses, Failed: nothing of a stream before it is up or after it failed.
StreamOrder ==
    /\ life \in {"unspawned", "setup"} =>
          session = "none" /\ \A i \in DOMAIN queue : queue[i].kind \notin StreamKinds
    /\ life = "streaming" => \A i \in DOMAIN queue : queue[i].kind # "failed"
    /\ \A i, j \in DOMAIN queue :
          i < j /\ queue[i].kind = "failed" => queue[j].kind \notin StreamKinds

\* One response at a time, and the worker has not seen it.
ResponseOrder ==
    /\ count.base <= count.responses
    /\ \A i, j \in DOMAIN queue :
          queue[i].kind = "response" /\ queue[j].kind = "response" => i = j
    /\ \A i \in DOMAIN queue :
          queue[i].kind = "response" /\ ~queue[i].garbage =>
             /\ queue[i].id > count.base /\ queue[i].id <= count.responses
             /\ Unseen(Turn, queue[i].id)

Watches(i, w) == queue[i].kind = "watch" /\ queue[i].w = w
Unwatches(i, w) == queue[i].kind = "unwatch" /\ queue[i].w = w

\* Watch before Unwatch, once each.
WatchOrder ==
    /\ \A w \in Watcher : \A i \in DOMAIN queue : Watches(i, w) =>
          Absent(Turn, w) /\ \A j \in DOMAIN queue : Watches(j, w) => i = j
    /\ \A w \in Watcher : \A i, j \in DOMAIN queue :
          Unwatches(i, w) /\ Watches(j, w) => j < i
    /\ \A w \in Watcher :
          watch[w] = None /\ (\A i \in DOMAIN queue : ~Unwatches(i, w)) =>
             Absent(Turn, w) /\ \A i \in DOMAIN queue : ~Watches(i, w)

\* A timer that was cancelled is not in the map, nor is another of its id.
DeadTimers ==
    /\ IsFiniteSet(firing)
    /\ dead \subseteq Expirations(queue)
    /\ \A x \in dead : timers[x[1]] # x[2]

WorkerInv ==
    /\ Asked(Turn, {}) /\ Timed(Turn, {})
    /\ Heard(Turn) /\ Owned(Turn) /\ Nonces(Turn) /\ Versions(Turn)

\* The inductive invariant.
IInv == TypeOK /\ WorkerInv /\ StreamOrder /\ ResponseOrder /\ WatchOrder /\ DeadTimers
-----------------------------------------------------------------------------
(* Messages, expirations and timer ids.                                    *)

\* The fields a message has, by its kind.
LEMMA MessageFields ==
    ASSUME NEW m \in Message
    PROVE  /\ m.kind \in {"watch", "unwatch", "timer"} \cup StreamKinds
           /\ m.kind = "watch" => m.w \in Watcher /\ m.type \in Type /\ m.name \in Name \cup {All}
           /\ m.kind = "unwatch" => m.w \in Watcher
           /\ m.kind = "timer" => m.type \in Type /\ m.name \in Name /\ m.id \in Nat \ {0}
           /\ m.kind = "response" => m.garbage \in BOOLEAN
           /\ m.kind = "response" /\ ~m.garbage =>
                 /\ m.type \in Type /\ m.content \in Contents /\ m.top \in BOOLEAN
                 /\ m.id \in Nat \ {0}
  BY DEF Message, StreamKinds

\* The queue as an array.
LEMMA QueueIndices ==
    ASSUME TypeOK
    PROVE  /\ Len(queue) \in Nat
           /\ DOMAIN queue = 1 .. Len(queue)
           /\ \A i \in DOMAIN queue : queue[i] \in Message
  BY LenProperties, ElementOfSeq DEF TypeOK

\* Taking the head shifts the rest down by one.
LEMMA QueueTail ==
    ASSUME TypeOK, queue # <<>>
    PROVE  /\ Head(queue) \in Message /\ Head(queue) = queue[1] /\ 1 \in DOMAIN queue
           /\ Tail(queue) \in Seq(Message)
           /\ DOMAIN Tail(queue) = 1 .. (Len(queue) - 1)
           /\ \A i \in DOMAIN Tail(queue) :
                 i + 1 \in DOMAIN queue /\ Tail(queue)[i] = queue[i + 1]
  <1>1. queue \in Seq(Message)
    BY DEF TypeOK
  <1>2. Len(queue) \in Nat \ {0} /\ DOMAIN queue = 1 .. Len(queue)
    BY <1>1, EmptySeq, LenProperties
  <1>3. /\ Head(queue) \in Message /\ Tail(queue) \in Seq(Message)
        /\ Len(Tail(queue)) = Len(queue) - 1
        /\ \A i \in 1 .. Len(Tail(queue)) : Tail(queue)[i] = queue[i + 1]
    BY <1>1, HeadTailProperties
  <1>4. DOMAIN Tail(queue) = 1 .. Len(Tail(queue))
    BY <1>3, LenProperties
  <1>5. Head(queue) = queue[1]
    BY <1>1, <1>2
  <1> QED BY <1>2, <1>3, <1>4, <1>5

\* Sending adds one message at the end.
LEMMA QueueAppend ==
    ASSUME TypeOK, NEW m \in Message, Send(m)
    PROVE  /\ queue' \in Seq(Message)
           /\ Len(queue) \in Nat
           /\ DOMAIN queue = 1 .. Len(queue)
           /\ DOMAIN queue' = 1 .. (Len(queue) + 1)
           /\ \A i \in DOMAIN queue : queue'[i] = queue[i]
           /\ queue'[Len(queue) + 1] = m
  <1>1. queue \in Seq(Message)
    BY DEF TypeOK
  <1>2. Len(queue) \in Nat /\ DOMAIN queue = 1 .. Len(queue)
    BY <1>1, LenProperties
  <1> QED BY <1>1, <1>2, AppendProperties DEF Send

\* There are finitely many expirations on their way.
LEMMA ExpirationsFinite ==
    ASSUME TypeOK, IsFiniteSet(firing)
    PROVE  IsFiniteSet(Expirations(queue))
  <1> DEFINE I == {j \in DOMAIN queue : queue[j].kind = "timer"}
             S == {<<<<queue[i].type, queue[i].name>>, queue[i].id>> : i \in I}
  <1>1. IsFiniteSet(I)
    <2>1. IsFiniteSet(DOMAIN queue)
      BY QueueIndices, FS_Interval
    <2> QED BY <2>1, FS_Subset
  <1>2. IsFiniteSet(S)
    <2> DEFINE f == [i \in I |-> <<<<queue[i].type, queue[i].name>>, queue[i].id>>]
    <2> HIDE DEF I
    <2>1. f \in Surjection(I, S)
      BY DEF Surjection
    <2> HIDE DEF S, f
    <2> QED BY <1>1, <2>1, FS_Surjection
  <1>3. Expirations(queue) = firing \cup S
    BY Zenon DEF Expirations
  <1> HIDE DEF S
  <1> QED BY <1>2, <1>3, FS_Union, Zenon

\* A new timer's id is that of no expiration on its way.
LEMMA FreshIdSound ==
    ASSUME IsFiniteSet(Expirations(queue)), NEW k
    PROVE  FreshId(k) \in Nat \ {0} /\ <<k, FreshId(k)>> \notin Expirations(queue)
  <1> DEFINE E == Expirations(queue)
             N == Cardinality(E) + 1
             free == {id \in 1 .. N : <<k, id>> \notin E}
  <1>1. Cardinality(E) \in Nat
    BY FS_CardinalityType
  <1>2. free # {}
    <2> SUFFICES ASSUME free = {} PROVE FALSE
      OBVIOUS
    <2> DEFINE f == [id \in 1 .. N |-> <<k, id>>]
    <2>1. f \in [1 .. N -> E]
      <3> HIDE DEF E, N
      <3> QED OBVIOUS
    <2>2. \A i, j \in 1 .. N : f[i] = f[j] => i = j
      <3> HIDE DEF E, N
      <3> QED OBVIOUS
    <2>3. IsFiniteSet(1 .. N) /\ Cardinality(1 .. N) = N
      <3> HIDE DEF N
      <3>1. N \in Nat \ {0}
        BY <1>1 DEF N
      <3> QED BY <3>1, FS_Interval
    <2>4. Cardinality(1 .. N) <= Cardinality(E)
      <3> HIDE DEF E, N, f
      <3>1. f \in Injection(1 .. N, E)
        BY <2>1, <2>2 DEF Injection, IsInjective
      <3>2. IsFiniteSet(E)
        BY DEF E
      <3> QED BY <3>1, <3>2, FS_Injection
    <2> QED BY <1>1, <2>3, <2>4
  <1>3. \E i \in free : \A j \in free : i <= j
    <2> DEFINE R == {ss \in Nat \X Nat : ss[1] < ss[2]}
    <2>1. IsWellFoundedOn(R, Nat)
      BY NatLessThanWellFounded, Zenon DEF OpToRel
    <2>2. free \in SUBSET Nat
      BY <1>1
    <2>3. \E i \in free : \A j \in free : <<j, i>> \notin R
      <3> HIDE DEF R, free
      <3> QED BY <1>2, <2>1, <2>2, WFMin
    <2>4. PICK i \in free : \A j \in free : <<j, i>> \notin R
      BY <2>3
    <2>5. ASSUME NEW j \in free PROVE i <= j
      <3>1. i \in Nat /\ j \in Nat /\ <<j, i>> \notin R
        BY <2>2, <2>4
      <3> QED BY <3>1
    <2> QED BY <2>5
  <1>4. \E id \in 1 .. N : <<k, id>> \notin E /\ \A j \in 1 .. id - 1 : <<k, j>> \in E
    <2>1. PICK i \in free : \A j \in free : i <= j
      BY <1>3
    <2>2. ASSUME NEW j \in 1 .. i - 1 PROVE <<k, j>> \in E
      <3> HIDE DEF E
      <3> QED BY <1>1, <2>1
    <2> QED BY <2>1, <2>2
  <1>5. FreshId(k) \in 1 .. N /\ <<k, FreshId(k)>> \notin E
    <2> HIDE DEF E
    <2>1. FreshId(k) = CHOOSE id \in 1 .. N :
              <<k, id>> \notin E /\ \A j \in 1 .. id - 1 : <<k, j>> \in E
      BY Zenon DEF FreshId, E
    <2> QED BY <1>4, <2>1, Zenon
  <1> QED BY <1>1, <1>5

-----------------------------------------------------------------------------
(* Requests and timers.                                                    *)

\* What a request leaves alone.
Kept(c, d) ==
    d.ts = c.ts /\ d.told = c.told /\ d.session = c.session /\ d.bad = c.bad /\ d.gate = c.gate

\* Timers run on, are cancelled or are new.
Renewed(c, d) ==
    \A k \in Keys : \/ d.timers[k] \in {0, c.timers[k]}
                    \/ <<k, d.timers[k]>> \notin Expirations(queue)

\* A subscription is a set of names, or the wildcard.
LEMMA SubscriptionTyped ==
    ASSUME NEW s \in TypeStates
    PROVE  Subscription(s) \in Names /\ RequestOf(s) \in Request
  <1>1. s.watchers \in [Watcher -> Interest] /\ s.version \in Nat /\ s.nonce \in Nat
    BY DEF TypeStates
  <1>2. \A w \in Watchers(s) : s.watchers[w] \in Name \cup {All}
    BY <1>1 DEF Watchers, Interest
  <1>3. Subscription(s) \in Names
    BY <1>2 DEF Subscription, Names
  <1> QED BY <1>1, <1>3 DEF RequestOf, Request

\* start_pending_resource_timers times what the watchers of the types T wait for.
LEMMA StartTimersSound ==
    ASSUME IsFiniteSet(Expirations(queue)), NEW c \in Turns, NEW T \in SUBSET Type,
           Timed(c, T)
    PROVE  LET d == StartTimers(c, T)
           IN  /\ d \in Turns /\ Kept(c, d) /\ d.sent = c.sent /\ d.last = c.last /\ d.ok = c.ok
               /\ Renewed(c, d) /\ Timed(d, {})
  <1> DEFINE due == {k \in T \X Name : /\ ResourceInitialTimeout
                                       /\ c.ts[k[1]].cache[k[2]] = "Requested"
                                       /\ \E w \in Watcher : c.ts[k[1]].watchers[w] = k[2]
                                       /\ c.timers[k] = 0}
             tm == [k \in Keys |-> IF k \in due THEN FreshId(k) ELSE c.timers[k]]
             d == StartTimers(c, T)
  <1>1. d = [c EXCEPT !.timers = tm]
    BY DEF StartTimers
  <1>2. \A k \in Keys : /\ k \in due => tm[k] \in Nat \ {0} /\ <<k, tm[k]>> \notin Expirations(queue)
                        /\ k \notin due => tm[k] = c.timers[k]
    <2> HIDE DEF due
    <2> QED BY FreshIdSound
  <1>3. tm \in [Keys -> Nat]
    <2>1. c.timers \in [Keys -> Nat]
      BY DEF Turns
    <2> HIDE DEF due
    <2> QED BY <2>1, FreshIdSound
  <1>4. d \in Turns /\ Kept(c, d) /\ d.sent = c.sent /\ d.last = c.last /\ d.ok = c.ok /\ d.timers = tm
    <2> HIDE DEF tm
    <2> QED BY <1>1, <1>3 DEF Turns, Kept
  <1>5. Renewed(c, d)
    <2> HIDE DEF tm, due, d
    <2> QED BY <1>2, <1>4 DEF Renewed
  <1>6. Timed(d, {})
    <2> SUFFICES ASSUME ResourceInitialTimeout, d.ok, d.session = "active",
                        NEW t \in Type, NEW w \in Watcher, NEW n \in Name,
                        c.ts[t].watchers[w] = n, c.ts[t].cache[n] = "Requested"
                 PROVE  tm[<<t, n>>] # 0
      <3> HIDE DEF tm, d
      <3> QED BY <1>4 DEF Timed, Kept
    <2>1. <<t, n>> \in Keys
      BY DEF Keys
    <2>2. CASE t \in T
      <3>1. <<t, n>> \in due \/ c.timers[<<t, n>>] # 0
        BY <2>2
      <3> HIDE DEF tm, due
      <3> QED BY <1>2, <2>1, <3>1
    <2>3. CASE t \notin T
      <3>1. c.timers[<<t, n>>] # 0
        <4> HIDE DEF d
        <4> QED BY <1>4, <2>3 DEF Timed, Kept
      <3>2. <<t, n>> \notin due
        BY <2>3
      <3> HIDE DEF tm, due
      <3> QED BY <1>2, <2>1, <3>1, <3>2
    <2> QED BY <2>2, <2>3
  <1> HIDE DEF d
  <1> QED BY <1>4, <1>5, <1>6 DEF d

\* What a queued request does, for each of the types T, if the stream is up; what
\* an earlier request said stays true of the others.
LEMMA WriteSound ==
    ASSUME NEW c \in Turns, NEW T \in SUBSET Type, Asked(c, T)
    PROVE  LET d == Write(c, T)
           IN  /\ d \in Turns /\ Kept(c, d) /\ d.timers = c.timers
               /\ d.ok => c.ok
               /\ Asked(d, {})
               /\ life # "streaming" => ~d.ok
               /\ \A t \in Type : d.last[t] = c.last[t] \/ (t \in T /\ d.last[t] = RequestOf(c.ts[t]))
  <1> DEFINE d == Write(c, T)
             se == [t \in Type |-> IF t \in T THEN Queued(c.sent[t], Subscription(c.ts[t]))
                                   ELSE c.sent[t]]
             la == [t \in Type |-> IF t \in T THEN RequestOf(c.ts[t]) ELSE c.last[t]]
  <1>1. \A t \in Type : c.ts[t] \in TypeStates /\ c.sent[t] \in Seq(Names) /\ c.last[t] \in Request
    BY DEF Turns
  <1>2. CASE life # "streaming"
    <2>1. d = [c EXCEPT !.ok = FALSE]
      BY <1>2 DEF Write
    <2>2. /\ d \in Turns /\ Kept(c, d) /\ d.timers = c.timers /\ d.ok = FALSE /\ d.last = c.last
      BY <2>1 DEF Turns, Kept
    <2> HIDE DEF d
    <2> QED BY <2>2 DEF Asked, d
  <1>3. CASE life = "streaming"
    <2>1. d = [c EXCEPT !.sent = se, !.last = la]
      BY <1>3 DEF Write
    <2>2. se \in [Type -> Seq(Names)]
      <3> SUFFICES ASSUME NEW t \in Type
                   PROVE  Queued(c.sent[t], Subscription(c.ts[t])) \in Seq(Names)
        BY <1>1
      <3> QED BY <1>1, SubscriptionTyped, AppendProperties DEF Queued
    <2>3. la \in [Type -> Request]
      BY <1>1, SubscriptionTyped
    <2>4. /\ d \in Turns /\ Kept(c, d) /\ d.timers = c.timers /\ d.ok = c.ok /\ d.last = la
      <3> HIDE DEF se, la
      <3> QED BY <2>1, <2>2, <2>3 DEF Turns, Kept
    <2>5. Asked(d, {})
      <3> SUFFICES ASSUME c.ok, c.session = "active", NEW t \in Type, Watchers(c.ts[t]) # {}
                   PROVE  la[t].names = Subscription(c.ts[t])
        <4> HIDE DEF d, la
        <4> QED BY <2>4 DEF Asked, Kept
      <3>1. t \notin T => c.last[t].names = Subscription(c.ts[t])
        BY DEF Asked
      <3>2. RequestOf(c.ts[t]).names = Subscription(c.ts[t])
        BY DEF RequestOf
      <3> QED BY <3>1, <3>2
    <2>6. \A t \in Type : la[t] = c.last[t] \/ (t \in T /\ la[t] = RequestOf(c.ts[t]))
      OBVIOUS
    <2> HIDE DEF d, la
    <2> QED BY <1>3, <2>4, <2>5, <2>6 DEF d
  <1> HIDE DEF d
  <1> QED BY <1>2, <1>3 DEF d

\* send_request brings the stream up to date on the types T and times what their
\* watchers wait for, or the turn fails.
LEMMA SendRequestSound ==
    ASSUME IsFiniteSet(Expirations(queue)), NEW c \in Turns, NEW T \in SUBSET Type,
           Asked(c, T), Timed(c, T)
    PROVE  LET d == SendRequest(c, T)
           IN  /\ d \in Turns /\ Kept(c, d) /\ Renewed(c, d)
               /\ Asked(d, {}) /\ Timed(d, {})
               /\ \A t \in Type : d.last[t] = c.last[t] \/ d.last[t] = RequestOf(c.ts[t])
  <1> DEFINE asking == {t \in T : Watchers(c.ts[t]) # {}}
             e == Write(c, asking)
             d == SendRequest(c, T)
  <1>0. asking \in SUBSET Type /\ asking \subseteq T
    OBVIOUS
  <1>1. d = IF asking = {} THEN c ELSE IF e.ok THEN StartTimers(e, asking) ELSE e
    BY DEF SendRequest
  <1>2. Asked(c, asking)
    BY DEF Asked
  <1>3. Timed(c, asking)
    <2> SUFFICES ASSUME ResourceInitialTimeout, c.ok, c.session = "active",
                        NEW t \in Type \ asking, NEW w \in Watcher, NEW n \in Name,
                        c.ts[t].watchers[w] = n, c.ts[t].cache[n] = "Requested"
                 PROVE  c.timers[<<t, n>>] # 0
      <3> HIDE DEF asking
      <3> QED BY DEF Timed
    <2>1. w \in Watchers(c.ts[t])
      BY NamesAssumption DEF Watchers
    <2>2. t \notin T
      BY <2>1
    <2> QED BY <2>2 DEF Timed
  <1>4. /\ e \in Turns /\ Kept(c, e) /\ e.timers = c.timers /\ (e.ok => c.ok) /\ Asked(e, {})
        /\ \A t \in Type : e.last[t] = c.last[t] \/ e.last[t] = RequestOf(c.ts[t])
    <2> HIDE DEF asking
    <2> QED BY <1>0, <1>2, WriteSound
  <1>5. CASE asking = {}
    <2>1. d = c
      BY <1>1, <1>5
    <2>2. Asked(c, {}) /\ Timed(c, {})
      BY <1>2, <1>3, <1>5
    <2> HIDE DEF d
    <2> QED BY <2>1, <2>2 DEF Kept, Renewed, d
  <1>6. CASE asking # {} /\ e.ok
    <2>1. d = StartTimers(e, asking)
      BY <1>1, <1>6
    <2>2. Timed(e, asking)
      <3> HIDE DEF e, asking
      <3> QED BY <1>3, <1>4 DEF Timed, Kept
    <2>3. /\ d \in Turns /\ Kept(e, d) /\ d.last = e.last /\ d.ok = e.ok
          /\ Renewed(e, d) /\ Timed(d, {})
      <3> HIDE DEF e, asking, d
      <3> QED BY <1>0, <1>4, <2>1, <2>2, StartTimersSound
    <2> HIDE DEF d, e
    <2>4. Asked(d, {})
      BY <1>4, <2>3 DEF Asked, Kept
    <2> QED BY <1>4, <2>3, <2>4 DEF Kept, Renewed, d
  <1>7. CASE asking # {} /\ ~e.ok
    <2>1. d = e
      BY <1>1, <1>7
    <2> HIDE DEF d, e
    <2> QED BY <1>4, <1>7, <2>1 DEF Timed, Renewed, d
  <1> HIDE DEF d
  <1> QED BY <1>5, <1>6, <1>7 DEF d

-----------------------------------------------------------------------------
(* The worker's methods.                                                   *)

\* What every step of a turn keeps.
Sound(c) == c \in Turns /\ Heard(c) /\ Owned(c) /\ Nonces(c) /\ Versions(c)

\* What a turn must come to.
Good(c) == Sound(c) /\ Asked(c, {}) /\ Timed(c, {})

\* No id of a watcher, or of a response, comes from nowhere.
NoNews(c, d) ==
    /\ \A w \in Watcher : Absent(c, w) => Absent(d, w)
    /\ \A v : v # 0 /\ Unseen(c, v) => Unseen(d, v)

\* A request, or the start of timers, keeps what a turn keeps.
LEMMA KeptSound ==
    ASSUME NEW c, Sound(c), NEW d \in Turns, Kept(c, d), c.session # "none",
           \A t \in Type : d.last[t] = c.last[t] \/ d.last[t] = RequestOf(c.ts[t])
    PROVE  Sound(d) /\ NoNews(c, d)
  <1>1. /\ d.ts = c.ts /\ d.told = c.told /\ d.session = c.session /\ d.bad = c.bad
    BY DEF Kept
  <1>2. \A t \in Type : RequestOf(c.ts[t]).version = c.ts[t].version
                        /\ RequestOf(c.ts[t]).nonce = c.ts[t].nonce
    BY DEF RequestOf
  <1>3. Heard(d) /\ Owned(d)
    BY <1>1 DEF Sound, Heard, Owned
  <1>4. Nonces(d)
    BY <1>1, <1>2 DEF Sound, Nonces
  <1>5. Versions(d)
    BY <1>1, <1>2 DEF Sound, Versions
  <1>6. NoNews(c, d)
    BY <1>1, <1>2 DEF NoNews, Absent, Unseen
  <1> QED BY <1>3, <1>4, <1>5, <1>6 DEF Sound

\* send_request ends a turn well.
LEMMA SendRequestGood ==
    ASSUME IsFiniteSet(Expirations(queue)), NEW c, Sound(c), c.session # "none",
           NEW T \in SUBSET Type, Asked(c, T), Timed(c, T)
    PROVE  LET d == SendRequest(c, T)
           IN  Good(d) /\ NoNews(c, d) /\ Renewed(c, d) /\ d.session = c.session
  <1> DEFINE d == SendRequest(c, T)
  <1>0. c \in Turns
    BY DEF Sound
  <1>1. /\ d \in Turns /\ Kept(c, d) /\ Renewed(c, d)
        /\ Asked(d, {}) /\ Timed(d, {})
        /\ \A t \in Type : d.last[t] = c.last[t] \/ d.last[t] = RequestOf(c.ts[t])
    BY <1>0, SendRequestSound
  <1> HIDE DEF d
  <1>2. Sound(d) /\ NoNews(c, d)
    BY <1>1, KeptSound
  <1> QED BY <1>1, <1>2 DEF Good, Kept, d

\* So does start_pending_resource_timers.
LEMMA StartTimersGood ==
    ASSUME IsFiniteSet(Expirations(queue)), NEW c, Sound(c), c.session # "none",
           NEW T \in SUBSET Type, Asked(c, {}), Timed(c, T)
    PROVE  LET d == StartTimers(c, T)
           IN  Good(d) /\ NoNews(c, d) /\ Renewed(c, d) /\ d.session = c.session
  <1> DEFINE d == StartTimers(c, T)
  <1>0. c \in Turns
    BY DEF Sound
  <1>1. /\ d \in Turns /\ Kept(c, d) /\ d.last = c.last /\ d.ok = c.ok
        /\ Renewed(c, d) /\ Timed(d, {})
    BY <1>0, StartTimersSound
  <1> HIDE DEF d
  <1>2. Sound(d) /\ NoNews(c, d)
    BY <1>1, KeptSound
  <1>3. Asked(d, {})
    BY <1>1 DEF Asked, Kept
  <1> QED BY <1>1, <1>2, <1>3 DEF Good, Kept, d

\* What follows when a turn has changed the state of one type, and the watchers'
\* events: the other types are as they were.
LEMMA OneType ==
    ASSUME NEW c, Good(c), NEW d \in Turns, NEW t \in Type,
           \A u \in Type \ {t} : d.ts[u] = c.ts[u] /\ \A n \in Name : d.timers[<<u, n>>] = c.timers[<<u, n>>],
           d.last = c.last, d.session = c.session, d.ok = c.ok
    PROVE  Asked(d, {t}) /\ Timed(d, {t})
  <1>1. Asked(d, {t})
    BY DEF Good, Asked
  <1>2. Timed(d, {t})
    BY DEF Good, Timed
  <1> QED BY <1>1, <1>2

\* A watcher comes: it hears what is cached, the stream hears of it if that is news,
\* and its resource has a timer if it must wait.
LEMMA AddWatcherGood ==
    ASSUME IsFiniteSet(Expirations(queue)), NEW c, Good(c),
           NEW w \in Watcher, NEW t \in Type, NEW n \in Name \cup {All}, Absent(c, w)
    PROVE  LET d == AddWatcher(c, w, t, n)
           IN  /\ Good(d) /\ Renewed(c, d) /\ d.session = c.session
               /\ \A u \in Watcher : u # w /\ Absent(c, u) => Absent(d, u)
               /\ \A v : v # 0 /\ Unseen(c, v) => Unseen(d, v)
  <1> DEFINE s == c.ts[t]
             ws == [s.watchers EXCEPT ![w] = n]
             ca == [m \in Name |-> IF m = n /\ s.cache[m] = "none" THEN "Requested" ELSE s.cache[m]]
             s2 == [s EXCEPT !.watchers = ws, !.cache = ca]
             to == [c.told EXCEPT ![w] = IF n = All THEN "none" ELSE CachedEvent(s.cache[n])]
             b == [c EXCEPT !.ts = [c.ts EXCEPT ![t] = s2], !.told = to]
             d == AddWatcher(c, w, t, n)
  <1>1. c \in Turns /\ s \in TypeStates /\ s.watchers \in [Watcher -> Interest]
        /\ s.cache \in [Name -> CacheStates] /\ c.told \in [Watcher -> CacheStates]
        /\ c.ts \in [Type -> TypeStates]
    BY DEF Good, Sound, Turns, TypeStates
  <1>2. d = IF c.session # "active" THEN b
            ELSE IF Changed(s, b.ts[t]) THEN SendRequest(b, {t})
            ELSE StartTimers(b, {t})
    BY <1>1 DEF AddWatcher, Turns, TypeStates
  <1>3. /\ ws \in [Watcher -> Interest] /\ ws[w] = n
        /\ \A u \in Watcher \ {w} : ws[u] = s.watchers[u]
    BY <1>1 DEF Interest
  <1>4. /\ ca \in [Name -> CacheStates]
        /\ \A m \in Name : IF m = n /\ s.cache[m] = "none" THEN ca[m] = "Requested"
                           ELSE ca[m] = s.cache[m]
    BY <1>1 DEF CacheStates
  <1>5. /\ to \in [Watcher -> CacheStates]
        /\ to[w] = IF n = All THEN "none" ELSE CachedEvent(s.cache[n])
        /\ \A u \in Watcher \ {w} : to[u] = c.told[u]
    <2>1. n # All => s.cache[n] \in CacheStates
      BY <1>1
    <2>2. (IF n = All THEN "none" ELSE CachedEvent(s.cache[n])) \in CacheStates
      BY <2>1 DEF CachedEvent, CacheStates
    <2> QED BY <1>1, <2>2
  <1>6. /\ s2 \in TypeStates /\ s2.watchers = ws /\ s2.cache = ca
        /\ s2.version = s.version /\ s2.nonce = s.nonce
    <2> HIDE DEF ws, ca
    <2> QED BY <1>1, <1>3, <1>4 DEF TypeStates
  <1>7. /\ b \in Turns /\ b.ts[t] = s2 /\ b.told = to /\ b.timers = c.timers /\ b.last = c.last
        /\ b.session = c.session /\ b.ok = c.ok /\ b.bad = c.bad
        /\ \A u \in Type \ {t} : b.ts[u] = c.ts[u]
    <2> HIDE DEF s2, to
    <2> QED BY <1>1, <1>5, <1>6 DEF Turns
  <1> HIDE DEF ws, ca, s2, to, b, d
  <1>8. Heard(b)
    <2> SUFFICES ASSUME NEW x \in Type, NEW u \in Watcher, NEW m \in Name,
                        b.ts[x].watchers[u] = m
                 PROVE  to[u] = IF b.ts[x].cache[m] = "Requested" THEN "none" ELSE b.ts[x].cache[m]
      BY <1>7 DEF Heard
    <2>0. m # None /\ m # All
      BY NamesAssumption
    <2>1. CASE u = w
      <3>1. x = t
        BY <1>7, <2>0, <2>1 DEF Absent
      <3>2. m = n
        BY <1>3, <1>6, <1>7, <2>1, <3>1
      <3> QED BY <1>4, <1>5, <1>6, <1>7, <2>0, <2>1, <3>1, <3>2 DEF CachedEvent
    <2>2. CASE u # w
      <3>1. c.ts[x].watchers[u] = m
        BY <1>3, <1>6, <1>7, <2>2
      <3>2. c.told[u] = IF c.ts[x].cache[m] = "Requested" THEN "none" ELSE c.ts[x].cache[m]
        BY <3>1 DEF Good, Sound, Heard
      <3>3. x # t \/ ca[m] = s.cache[m] \/ (s.cache[m] = "none" /\ ca[m] = "Requested")
        BY <1>4
      <3> QED BY <1>5, <1>6, <1>7, <2>2, <3>2, <3>3
    <2> QED BY <2>1, <2>2
  <1>9. Owned(b)
    <2> SUFFICES ASSUME NEW u \in Watcher, NEW x \in Type, NEW y \in Type,
                        b.ts[x].watchers[u] # None, b.ts[y].watchers[u] # None
                 PROVE  x = y
      BY DEF Owned
    <2>1. u = w => x = t /\ y = t
      BY <1>7 DEF Absent
    <2>2. u # w => c.ts[x].watchers[u] # None /\ c.ts[y].watchers[u] # None
      BY <1>3, <1>6, <1>7
    <2> QED BY <2>1, <2>2 DEF Good, Sound, Owned
  <1>10. \A x \in Type : b.ts[x].version = c.ts[x].version /\ b.ts[x].nonce = c.ts[x].nonce
    BY <1>6, <1>7
  <1>11. Nonces(b)
    BY <1>7, <1>10 DEF Good, Sound, Nonces
  <1>12. Versions(b)
    BY <1>7, <1>10 DEF Good, Sound, Versions
  <1>13. Sound(b)
    BY <1>7, <1>8, <1>9, <1>11, <1>12 DEF Sound
  <1>14. Asked(b, {t}) /\ Timed(b, {t})
    BY <1>7, OneType
  <1>15. /\ Renewed(c, b)
         /\ \A u \in Watcher : u # w /\ Absent(c, u) => Absent(b, u)
         /\ \A v : v # 0 /\ Unseen(c, v) => Unseen(b, v)
    BY <1>3, <1>6, <1>7, <1>10 DEF Renewed, Absent, Unseen
  <1>16. CASE c.session # "active"
    <2>1. d = b
      BY <1>2, <1>16
    <2>2. Good(b)
      BY <1>7, <1>13, <1>16 DEF Good, Asked, Timed
    <2> QED BY <1>7, <1>15, <2>1, <2>2 DEF d
  <1>17. CASE c.session = "active" /\ Changed(s, b.ts[t])
    <2>1. d = SendRequest(b, {t})
      BY <1>2, <1>17
    <2>2. Good(d) /\ NoNews(b, d) /\ Renewed(b, d) /\ d.session = b.session
      BY <1>7, <1>13, <1>14, <1>17, <2>1, SendRequestGood
    <2> QED BY <1>7, <1>15, <2>2 DEF NoNews, Renewed, d
  <1>18. CASE c.session = "active" /\ ~Changed(s, b.ts[t])
    <2>1. d = StartTimers(b, {t})
      BY <1>2, <1>18
    <2>2. Subscription(s2) = Subscription(s)
      BY <1>7, <1>18 DEF Changed
    <2>3. Subscription(s2) # {}
      <3>1. w \in Watchers(s2)
        BY <1>3, <1>6, NamesAssumption DEF Watchers
      <3> QED BY <3>1 DEF Subscription
    <2>4. Watchers(s) # {}
      <3>1. ASSUME Watchers(s) = {}, NEW u \in Watcher PROVE s.watchers[u] = None
        BY <3>1 DEF Watchers
      <3> QED BY <2>2, <2>3, <3>1, NamesAssumption DEF Subscription
    <2>5. Asked(b, {})
      BY <1>7, <1>14, <2>2, <2>4 DEF Good, Asked
    <2>6. Good(d) /\ NoNews(b, d) /\ Renewed(b, d) /\ d.session = b.session
      BY <1>7, <1>13, <1>14, <1>18, <2>1, <2>5, StartTimersGood
    <2> QED BY <1>7, <1>15, <2>6 DEF NoNews, Renewed, d
  <1> QED BY <1>16, <1>17, <1>18

\* A watcher goes, and is not of any type after that.
LEMMA RemoveWatcherGood ==
    ASSUME IsFiniteSet(Expirations(queue)), count.responses \in Nat,
           NEW c, Good(c), NEW w \in Watcher
    PROVE  LET d == RemoveWatcher(c, w)
           IN  /\ Good(d) /\ Renewed(c, d) /\ d.session = c.session
               /\ NoNews(c, d) /\ Absent(d, w)
  <1> DEFINE owners == {x \in Type : c.ts[x].watchers[w] # None}
             o == CHOOSE x \in owners : TRUE
             d == RemoveWatcher(c, w)
  <1>1. CASE owners = {}
    <2>1. d = c
      BY <1>1 DEF RemoveWatcher
    <2>2. Absent(c, w)
      BY <1>1 DEF Absent
    <2> HIDE DEF d
    <2> QED BY <2>1, <2>2 DEF Renewed, NoNews, d
  <1>2. CASE owners # {}
    <2> DEFINE s == [c.ts[o] EXCEPT !.watchers[w] = None]
               gone == Watchers(s) = {}
               s2 == IF gone THEN NewType ELSE s
               to == [c.told EXCEPT ![w] = "none"]
               b == [c EXCEPT !.ts[o] = s2, !.told[w] = "none"]
               e == IF gone THEN CancelType(b, o) ELSE b
    <2>3. d = IF c.session = "active" /\ Changed(c.ts[o], s) THEN SendRequest(e, {o}) ELSE e
      BY <1>2 DEF RemoveWatcher
    <2>4. o \in Type /\ c.ts[o].watchers[w] # None
      BY <1>2
    <2> HIDE DEF owners, o, d
    <2>5. c \in Turns /\ c.ts[o] \in TypeStates /\ c.ts[o].watchers \in [Watcher -> Interest]
          /\ c.told \in [Watcher -> CacheStates] /\ c.ts \in [Type -> TypeStates]
          /\ c.timers \in [Keys -> Nat]
      BY <2>4 DEF Good, Sound, Turns, TypeStates
    <2>6. /\ s \in TypeStates /\ s.watchers[w] = None
          /\ \A u \in Watcher \ {w} : s.watchers[u] = c.ts[o].watchers[u]
          /\ s.cache = c.ts[o].cache /\ s.version = c.ts[o].version /\ s.nonce = c.ts[o].nonce
      BY <2>5 DEF TypeStates, Interest
    <2>7. /\ NewType \in TypeStates /\ NewType.version = 0 /\ NewType.nonce = 0
          /\ \A u \in Watcher : NewType.watchers[u] = None
      BY DEF NewType, TypeStates, Interest, CacheStates
    <2>8. s2 \in TypeStates /\ s2.watchers[w] = None
          /\ (\A u \in Watcher : s2.watchers[u] = None \/ s2 = s)
          /\ s2.version \in {0, c.ts[o].version} /\ s2.nonce \in {0, c.ts[o].nonce}
          /\ (gone => Watchers(s2) = {}) /\ (~gone => s2 = s)
      <3> HIDE DEF s
      <3> QED BY <2>6, <2>7 DEF Watchers
    <2>9. to \in [Watcher -> CacheStates] /\ to[w] = "none"
          /\ \A u \in Watcher \ {w} : to[u] = c.told[u]
      BY <2>5 DEF CacheStates
    <2>10. /\ b \in Turns /\ b.ts[o] = s2 /\ b.told = to /\ b.timers = c.timers /\ b.last = c.last
           /\ b.session = c.session /\ b.ok = c.ok /\ b.bad = c.bad
           /\ \A u \in Type \ {o} : b.ts[u] = c.ts[u]
      <3>1. b = [c EXCEPT !.ts = [c.ts EXCEPT ![o] = s2], !.told = to]
        <4> HIDE DEF s2
        <4> QED BY <2>5 DEF Turns
      <3> HIDE DEF s2, to, b
      <3> QED BY <2>4, <2>5, <2>8, <2>9, <3>1 DEF Turns
    <2>11. /\ e \in Turns /\ e.ts = b.ts /\ e.told = to /\ e.last = c.last
           /\ e.session = c.session /\ e.ok = c.ok /\ e.bad = c.bad
           /\ ~gone => e.timers = c.timers
           /\ \A k \in Keys : e.timers[k] = c.timers[k] \/ (e.timers[k] = 0 /\ k[1] = o)
      <3> DEFINE tm == [k \in Keys |-> IF k[1] = o THEN 0 ELSE b.timers[k]]
      <3>1. tm \in [Keys -> Nat] /\ \A k \in Keys : tm[k] = c.timers[k] \/ (tm[k] = 0 /\ k[1] = o)
        <4> HIDE DEF b
        <4> QED BY <2>5, <2>10
      <3>2. e = IF gone THEN [b EXCEPT !.timers = tm] ELSE b
        BY DEF CancelType
      <3> HIDE DEF b, tm, gone, e
      <3> QED BY <2>10, <3>1, <3>2 DEF Turns
    <2> HIDE DEF s, gone, s2, to, b, e
    <2>12. Heard(e)
      <3> SUFFICES ASSUME NEW x \in Type, NEW u \in Watcher, NEW m \in Name,
                          e.ts[x].watchers[u] = m
                   PROVE  to[u] = IF e.ts[x].cache[m] = "Requested" THEN "none" ELSE e.ts[x].cache[m]
        BY <2>11 DEF Heard
      <3>0. m # None
        BY NamesAssumption
      <3>1. u # w
        <4>1. u = w /\ x # o => c.ts[x].watchers[w] = None
          BY <2>4 DEF Good, Sound, Owned
        <4> QED BY <2>8, <2>10, <2>11, <3>0, <4>1
      <3>2. e.ts[x].cache = c.ts[x].cache /\ c.ts[x].watchers[u] = m
        BY <2>6, <2>8, <2>10, <2>11, <3>0, <3>1
      <3> QED BY <2>9, <3>1, <3>2 DEF Good, Sound, Heard
    <2>13. \A x \in Type, u \in Watcher : e.ts[x].watchers[u] # None => c.ts[x].watchers[u] # None
      BY <2>6, <2>8, <2>10, <2>11
    <2>14. Owned(e)
      BY <2>13 DEF Good, Sound, Owned
    <2>15. \A x \in Type : /\ e.ts[x].version \in {0, c.ts[x].version}
                           /\ e.ts[x].nonce \in {0, c.ts[x].nonce}
      BY <2>8, <2>10, <2>11
    <2>16. Nonces(e)
      BY <2>11, <2>15 DEF Good, Sound, Nonces
    <2>17. Versions(e)
      BY <2>11, <2>15 DEF Good, Sound, Versions
    <2>18. Sound(e)
      BY <2>11, <2>12, <2>14, <2>16, <2>17 DEF Sound
    <2>19. Absent(e, w)
      <3>1. \A x \in Type \ {o} : c.ts[x].watchers[w] = None
        BY <2>4 DEF Good, Sound, Owned
      <3> QED BY <2>8, <2>10, <2>11, <3>1 DEF Absent
    <2>20. Renewed(c, e) /\ NoNews(c, e)
      <3>1. Renewed(c, e)
        BY <2>11 DEF Renewed
      <3>2. \A u \in Watcher : Absent(c, u) => Absent(e, u)
        BY <2>13 DEF Absent
      <3>3. \A v : v # 0 /\ Unseen(c, v) => Unseen(e, v)
        BY <2>11, <2>15 DEF Unseen
      <3> QED BY <3>1, <3>2, <3>3 DEF NoNews
    <2>21. Asked(e, {o}) /\ Timed(e, {o})
      <3>1. \A x \in Type \ {o}, n \in Name : e.timers[<<x, n>>] = c.timers[<<x, n>>]
        BY <2>11 DEF Keys
      <3> QED BY <2>4, <2>10, <2>11, <3>1, OneType
    <2>22. CASE c.session = "active" /\ Changed(c.ts[o], s)
      <3>1. d = SendRequest(e, {o})
        BY <2>3, <2>22
      <3>2. Good(d) /\ NoNews(e, d) /\ Renewed(e, d) /\ d.session = e.session
        BY <2>4, <2>11, <2>18, <2>21, <2>22, <3>1, SendRequestGood
      <3>3. Renewed(c, d)
        BY <2>20, <3>2 DEF Renewed
      <3> QED BY <2>11, <2>19, <2>20, <3>2, <3>3 DEF NoNews, d
    <2>23. CASE ~(c.session = "active" /\ Changed(c.ts[o], s))
      <3>1. d = e
        BY <2>3, <2>23
      <3>2. Asked(e, {})
        <4> SUFFICES ASSUME e.ok, e.session = "active", Watchers(e.ts[o]) # {}
                     PROVE  e.last[o].names = Subscription(e.ts[o])
          BY <2>21 DEF Asked
        <4>1. e.ts[o] = s /\ Subscription(s) = Subscription(c.ts[o])
          BY <2>8, <2>10, <2>11, <2>23 DEF Changed
        <4>2. Watchers(c.ts[o]) # {}
          BY <2>4 DEF Watchers
        <4> QED BY <2>4, <2>11, <4>1, <4>2 DEF Good, Asked
      <3>3. Timed(e, {})
        <4> SUFFICES ASSUME ResourceInitialTimeout, e.ok, e.session = "active",
                            NEW u \in Watcher, NEW n \in Name,
                            e.ts[o].watchers[u] = n, e.ts[o].cache[n] = "Requested"
                     PROVE  e.timers[<<o, n>>] # 0
          BY <2>21 DEF Timed
        <4>0. n # None
          BY NamesAssumption
        <4>1. e.ts[o] = s /\ ~gone
          BY <2>8, <2>10, <2>11, <4>0 DEF Watchers
        <4>2. c.ts[o].watchers[u] = n /\ c.ts[o].cache[n] = "Requested"
          BY <2>6, <4>0, <4>1
        <4> QED BY <2>4, <2>11, <4>1, <4>2 DEF Good, Timed
      <3>4. Good(e)
        BY <2>18, <3>2, <3>3 DEF Good
      <3> QED BY <2>11, <2>19, <2>20, <3>1, <3>4 DEF d
    <2> QED BY <2>22, <2>23
  <1> QED BY <1>1, <1>2

\* Between c and d a timeout was declared, if any, of timer id of resource n.
TimedOut(c, d, t, n, id) ==
    \A x \in Type, m \in Name :
        d.ts[x].cache[m] # c.ts[x].cache[m] => x = t /\ m = n /\ c.timers[<<t, n>>] = id

\* An expiration takes its timer from the map; if the resource is still waited for,
\* it and its watchers are told that it does not exist.
LEMMA TimeoutGood ==
    ASSUME NEW c, Good(c), NEW t \in Type, NEW n \in Name, NEW id \in Nat \ {0},
           NEW d, d = Timeout(c, t, n, id)
    PROVE  /\ Good(d) /\ Renewed(c, d) /\ d.session = c.session /\ NoNews(c, d)
           /\ TimedOut(c, d, t, n, id)
  <1> DEFINE s == c.ts[t]
             b == [c EXCEPT !.timers[<<t, n>>] = 0]
             to == [w \in Watcher |-> IF s.watchers[w] = n THEN "DoesNotExist" ELSE c.told[w]]
             ca == [s.cache EXCEPT ![n] = "DoesNotExist"]
             s2 == [s EXCEPT !.cache = ca]
             e == [b EXCEPT !.ts = [c.ts EXCEPT ![t] = s2], !.told = to]
  <1>1. c \in Turns /\ s \in TypeStates /\ s.watchers \in [Watcher -> Interest]
        /\ s.cache \in [Name -> CacheStates] /\ c.told \in [Watcher -> CacheStates]
        /\ c.ts \in [Type -> TypeStates] /\ c.timers \in [Keys -> Nat] /\ <<t, n>> \in Keys
    BY DEF Good, Sound, Turns, TypeStates, Keys
  <1>2. d = IF c.timers[<<t, n>>] # id THEN c
            ELSE IF Watchers(s) = {} \/ s.cache[n] \notin {"none", "Requested"} THEN b ELSE e
    BY <1>1 DEF Timeout, Turns, TypeStates
  <1>3. /\ b \in Turns /\ b.ts = c.ts /\ b.told = c.told /\ b.last = c.last
        /\ b.session = c.session /\ b.ok = c.ok /\ b.bad = c.bad
        /\ b.timers[<<t, n>>] = 0
        /\ \A k \in Keys : k # <<t, n>> => b.timers[k] = c.timers[k]
    BY <1>1 DEF Turns
  <1>4. /\ ca \in [Name -> CacheStates] /\ ca[n] = "DoesNotExist"
        /\ \A m \in Name \ {n} : ca[m] = s.cache[m]
    BY <1>1 DEF CacheStates
  <1>5. /\ s2 \in TypeStates /\ s2.watchers = s.watchers /\ s2.cache = ca
        /\ s2.version = s.version /\ s2.nonce = s.nonce
    <2> HIDE DEF ca
    <2> QED BY <1>1, <1>4 DEF TypeStates
  <1>6. to \in [Watcher -> CacheStates]
        /\ \A w \in Watcher : to[w] = IF s.watchers[w] = n THEN "DoesNotExist" ELSE c.told[w]
    BY <1>1 DEF CacheStates
  <1>7. /\ e \in Turns /\ e.ts[t] = s2 /\ e.told = to /\ e.last = c.last
        /\ e.session = c.session /\ e.ok = c.ok /\ e.bad = c.bad /\ e.timers = b.timers
        /\ \A u \in Type \ {t} : e.ts[u] = c.ts[u]
    <2> HIDE DEF b, s2, to
    <2> QED BY <1>1, <1>3, <1>5, <1>6 DEF Turns
  <1> HIDE DEF b, to, ca, s2, e
  <1>8. \A x \in Type : /\ e.ts[x].watchers = c.ts[x].watchers
                        /\ e.ts[x].version = c.ts[x].version /\ e.ts[x].nonce = c.ts[x].nonce
    BY <1>5, <1>7
  <1>9. Renewed(c, b) /\ Renewed(c, e)
    BY <1>3, <1>7 DEF Renewed
  <1>10. CASE c.timers[<<t, n>>] # id
    <2>1. d = c
      BY <1>2, <1>10
    <2> QED BY <2>1 DEF Renewed, NoNews, TimedOut
  <1>11. CASE c.timers[<<t, n>>] = id /\ (Watchers(s) = {} \/ s.cache[n] \notin {"none", "Requested"})
    <2>1. d = b
      BY <1>2, <1>11
    <2>2. Sound(b) /\ NoNews(c, b)
      <3>1. Heard(b) /\ Owned(b)
        BY <1>3 DEF Good, Sound, Heard, Owned
      <3>2. Nonces(b) /\ Versions(b)
        BY <1>3 DEF Good, Sound, Nonces, Versions
      <3>3. NoNews(c, b)
        BY <1>3 DEF NoNews, Absent, Unseen
      <3> QED BY <1>3, <3>1, <3>2, <3>3 DEF Sound
    <2>3. Asked(b, {})
      BY <1>3 DEF Good, Asked
    <2>4. Timed(b, {})
      <3> SUFFICES ASSUME ResourceInitialTimeout, c.ok, c.session = "active",
                          NEW x \in Type, NEW w \in Watcher,
                          NEW m \in Name, c.ts[x].watchers[w] = m, c.ts[x].cache[m] = "Requested"
                   PROVE  b.timers[<<x, m>>] # 0
        BY <1>3 DEF Timed
      <3>1. c.timers[<<x, m>>] # 0
        BY DEF Good, Timed
      <3>2. w \in Watchers(c.ts[x])
        BY NamesAssumption DEF Watchers
      <3>3. <<x, m>> \in Keys /\ <<x, m>> # <<t, n>>
        BY <1>11, <3>2 DEF Keys
      <3> QED BY <1>3, <3>1, <3>3
    <2> QED BY <1>3, <1>9, <2>1, <2>2, <2>3, <2>4 DEF Good, TimedOut
  <1>12. CASE /\ c.timers[<<t, n>>] = id
              /\ ~(Watchers(s) = {} \/ s.cache[n] \notin {"none", "Requested"})
    <2>1. d = e
      BY <1>2, <1>12
    <2>2. Heard(e)
      <3> SUFFICES ASSUME NEW x \in Type, NEW u \in Watcher, NEW m \in Name,
                          c.ts[x].watchers[u] = m
                   PROVE  to[u] = IF e.ts[x].cache[m] = "Requested" THEN "none" ELSE e.ts[x].cache[m]
        BY <1>7, <1>8 DEF Heard
      <3>0. m # None
        BY NamesAssumption
      <3>1. c.told[u] = IF c.ts[x].cache[m] = "Requested" THEN "none" ELSE c.ts[x].cache[m]
        BY DEF Good, Sound, Heard
      <3>2. CASE x = t
        BY <1>4, <1>5, <1>6, <1>7, <3>1, <3>2
      <3>3. CASE x # t
        <4>1. s.watchers[u] # n
          <5>1. s.watchers[u] = None
            BY <3>0, <3>3 DEF Good, Sound, Owned
          <5> QED BY <5>1, NamesAssumption
        <4> QED BY <1>6, <1>7, <3>1, <3>3, <4>1
      <3> QED BY <3>2, <3>3
    <2>3. Owned(e)
      BY <1>8 DEF Good, Sound, Owned
    <2>4. Nonces(e)
      BY <1>7, <1>8 DEF Good, Sound, Nonces
    <2>5. Versions(e)
      BY <1>7, <1>8 DEF Good, Sound, Versions
    <2>6. NoNews(c, e)
      BY <1>7, <1>8 DEF NoNews, Absent, Unseen
    <2>7. Asked(e, {})
      <3>1. \A x \in Type : Watchers(e.ts[x]) = Watchers(c.ts[x])
                            /\ Subscription(e.ts[x]) = Subscription(c.ts[x])
        BY <1>8 DEF Watchers, Subscription
      <3> QED BY <1>7, <3>1 DEF Good, Asked
    <2>8. Timed(e, {})
      <3> SUFFICES ASSUME ResourceInitialTimeout, c.ok, c.session = "active",
                          NEW x \in Type, NEW w \in Watcher,
                          NEW m \in Name, c.ts[x].watchers[w] = m, e.ts[x].cache[m] = "Requested"
                   PROVE  b.timers[<<x, m>>] # 0
        BY <1>7, <1>8 DEF Timed
      <3>1. <<x, m>> \in Keys /\ <<x, m>> # <<t, n>> /\ c.ts[x].cache[m] = "Requested"
        BY <1>4, <1>5, <1>7 DEF Keys
      <3> QED BY <1>3, <3>1 DEF Good, Timed
    <2>9. Good(e)
      BY <1>7, <2>2, <2>3, <2>4, <2>5, <2>7, <2>8 DEF Good, Sound
    <2>10. \A x \in Type, m \in Name : e.ts[x].cache[m] # c.ts[x].cache[m] => x = t /\ m = n
      BY <1>4, <1>5, <1>7
    <2> QED BY <1>7, <1>9, <1>12, <2>1, <2>6, <2>9, <2>10 DEF TimedOut
  <1> QED BY <1>10, <1>11, <1>12

\* What a response leaves in the cache: what it says of a resource, a deletion, or
\* what was there.
LEMMA CacheAfterSound ==
    ASSUME NEW t, NEW cache \in [Name -> CacheStates], NEW content \in Contents
    PROVE  LET after == CacheAfter(t, cache, content)
           IN  /\ after \in [Name -> CacheStates]
               /\ \A n \in Name :
                     \/ content[n] # "absent" /\ after[n] \in {"Received", "NACKed"}
                     \/ content[n] = "absent" /\ after[n] \in {cache[n], "DoesNotExist"}
  <1> DEFINE after == CacheAfter(t, cache, content)
  <1>1. \A n \in Name : content[n] \in {"absent", "valid", "invalid"} /\ cache[n] \in CacheStates
    BY DEF Contents
  <1>2. ASSUME NEW n \in Name
        PROVE  after[n] = IF content[n] = "valid" THEN "Received"
                          ELSE IF content[n] = "invalid" THEN "NACKed"
                          ELSE IF t \in AllRequired /\ cache[n] = "Received"
                          THEN "DoesNotExist" ELSE cache[n]
    <2>1. after[n] = CASE content[n] = "valid" -> "Received"
                       [] content[n] = "invalid" -> "NACKed"
                       [] OTHER -> IF t \in AllRequired /\ cache[n] = "Received"
                                   THEN "DoesNotExist" ELSE cache[n]
      BY DEF CacheAfter
    <2> QED BY <2>1, <1>1
  <1>3. ASSUME NEW n \in Name
        PROVE  /\ \/ content[n] # "absent" /\ after[n] \in {"Received", "NACKed"}
                  \/ content[n] = "absent" /\ after[n] \in {cache[n], "DoesNotExist"}
               /\ after[n] \in CacheStates
    <2> HIDE DEF after
    <2> QED BY <1>1, <1>2 DEF CacheStates
  <1>4. after = [n \in Name |-> after[n]]
    BY DEF CacheAfter
  <1> HIDE DEF after
  <1> QED BY <1>3, <1>4 DEF after

\* A response the worker has not seen is cached, told and answered: with the new
\* version if it was accepted, with the old one if not, and with its nonce.
LEMMA ResponseGood ==
    ASSUME NEW c, Good(c), c.session = "active",
           NEW r, r.type \in Type, r.content \in Contents, r.top \in BOOLEAN, r.id \in Nat \ {0},
           r.id > count.base, r.id <= count.responses, Unseen(c, r.id)
    PROVE  LET d == Response(c, r)
           IN  /\ Good(d) /\ Renewed(c, d) /\ d.session = c.session
               /\ \A u \in Watcher : Absent(c, u) => Absent(d, u)
  <1> DEFINE t == r.type
             s == c.ts[t]
             cache == CacheAfter(t, s.cache, r.content)
             seen == {n \in Name : r.content[n] # "absent"}
             notified == seen \cup {n \in Name : cache[n] # s.cache[n]}
             nack == r.top \/ \E n \in Name : r.content[n] = "invalid"
             s2 == [s EXCEPT !.nonce = r.id, !.cache = cache,
                             !.version = VersionAfter(@, r.id, nack)]
             tm == [k \in Keys |-> IF k[1] = t /\ k[2] \in seen THEN 0 ELSE c.timers[k]]
             to == [w \in Watcher |-> IF s.watchers[w] \in notified
                                      THEN cache[s.watchers[w]] ELSE c.told[w]]
             ga == IF life = "streaming" THEN UNION {Matching(s, n) : n \in notified} ELSE {}
             ba == IF nack THEN c.bad \cup {r.id} ELSE c.bad
             b == [c EXCEPT !.ts = [c.ts EXCEPT ![t] = s2], !.timers = tm, !.told = to,
                            !.gate = ga, !.bad = ba]
             d == Response(c, r)
  <1>1. c \in Turns /\ s \in TypeStates /\ s.watchers \in [Watcher -> Interest]
        /\ s.cache \in [Name -> CacheStates] /\ c.told \in [Watcher -> CacheStates]
        /\ c.ts \in [Type -> TypeStates] /\ c.timers \in [Keys -> Nat] /\ c.bad \in SUBSET Nat
        /\ s.version \in Nat
    BY DEF Good, Sound, Turns, TypeStates
  <1>2. d = IF Watchers(s) = {} THEN c ELSE Write(b, {t})
    <2>1. [c EXCEPT !.ts[t] = s2, !.timers = tm, !.told = to, !.gate = ga, !.bad = ba] = b
      <3> HIDE DEF s2, tm, to, ga, ba
      <3> QED BY <1>1 DEF Turns
    <2>2. d = IF Watchers(s) = {} THEN c
              ELSE Write([c EXCEPT !.ts[t] = s2, !.timers = tm, !.told = to, !.gate = ga,
                                   !.bad = ba], {t})
      BY DEF Response
    <2> HIDE DEF d, b, s2, tm, to, ga, ba, s
    <2> QED BY <2>1, <2>2
  <1>3. /\ cache \in [Name -> CacheStates]
        /\ \A n \in Name : \/ n \in seen /\ cache[n] \in {"Received", "NACKed"}
                           \/ n \notin seen /\ cache[n] \in {s.cache[n], "DoesNotExist"}
    <2>1. /\ cache \in [Name -> CacheStates]
          /\ \A n \in Name :
                \/ r.content[n] # "absent" /\ cache[n] \in {"Received", "NACKed"}
                \/ r.content[n] = "absent" /\ cache[n] \in {s.cache[n], "DoesNotExist"}
      <3> HIDE DEF s
      <3> QED BY <1>1, CacheAfterSound
    <2> HIDE DEF cache
    <2> QED BY <2>1
  <1>4. /\ seen \subseteq Name
        /\ \A n \in Name : n \in notified <=> n \in seen \/ cache[n] # s.cache[n]
        /\ notified \subseteq Name
    OBVIOUS
  <1>5. nack \in BOOLEAN /\ VersionAfter(s.version, r.id, nack) = IF nack THEN s.version ELSE r.id
    BY DEF VersionAfter
  <1>6. /\ s2 \in TypeStates /\ s2.watchers = s.watchers /\ s2.cache = cache /\ s2.nonce = r.id
        /\ s2.version = IF nack THEN s.version ELSE r.id
    <2>1. s2 = [s EXCEPT !.nonce = r.id, !.cache = cache,
                         !.version = VersionAfter(s.version, r.id, nack)]
      <3> HIDE DEF cache, nack
      <3> QED BY <1>1 DEF TypeStates
    <2> HIDE DEF cache, nack, s2, s
    <2> QED BY <1>1, <1>3, <1>5, <2>1 DEF TypeStates
  <1>7. /\ tm \in [Keys -> Nat]
        /\ \A k \in Keys : tm[k] = IF k[1] = t /\ k[2] \in seen THEN 0 ELSE c.timers[k]
    <2> HIDE DEF seen
    <2> QED BY <1>1
  <1>8. /\ to \in [Watcher -> CacheStates]
        /\ \A w \in Watcher : to[w] = IF s.watchers[w] \in notified
                                      THEN cache[s.watchers[w]] ELSE c.told[w]
    <2> HIDE DEF notified, cache, s
    <2> QED BY <1>1, <1>3, <1>4
  <1>9. ga \in SUBSET Watcher
    BY DEF Matching
  <1>10. /\ ba \in SUBSET Nat /\ c.bad \subseteq ba
         /\ \A v \in ba : v \in c.bad \/ (nack /\ v = r.id)
         /\ ~nack => ba = c.bad
    <2> HIDE DEF nack
    <2> QED BY <1>1
  <1>11. /\ b \in Turns /\ b.ts[t] = s2 /\ b.told = to /\ b.timers = tm /\ b.last = c.last
         /\ b.session = c.session /\ b.ok = c.ok /\ b.bad = ba
         /\ \A u \in Type \ {t} : b.ts[u] = c.ts[u]
    <2>1. t \in Type
      OBVIOUS
    <2>2. [c.ts EXCEPT ![t] = s2] \in [Type -> TypeStates]
      <3> HIDE DEF s2, t
      <3> QED BY <1>1, <1>6, <2>1
    <2>3. /\ [c.ts EXCEPT ![t] = s2][t] = s2
          /\ \A u \in Type \ {t} : [c.ts EXCEPT ![t] = s2][u] = c.ts[u]
      <3> HIDE DEF s2, t
      <3> QED BY <1>1, <2>1
    <2> HIDE DEF s2, tm, to, ga, ba, s, t
    <2>4. /\ b.ts = [c.ts EXCEPT ![t] = s2] /\ b.told = to /\ b.timers = tm /\ b.last = c.last
          /\ b.session = c.session /\ b.ok = c.ok /\ b.bad = ba
      BY <1>1 DEF Turns
    <2>5. b \in Turns
      BY <1>1, <1>7, <1>8, <1>9, <1>10, <2>2 DEF Turns
    <2> QED BY <2>3, <2>4, <2>5
  <1> HIDE DEF cache, seen, notified, nack, s2, tm, to, ga, ba, b, d
  <1>12. \A x \in Type : b.ts[x].watchers = c.ts[x].watchers
    BY <1>6, <1>11
  <1>13. Heard(b)
    <2> SUFFICES ASSUME NEW x \in Type, NEW u \in Watcher, NEW m \in Name,
                        c.ts[x].watchers[u] = m
                 PROVE  to[u] = IF b.ts[x].cache[m] = "Requested" THEN "none" ELSE b.ts[x].cache[m]
      BY <1>11, <1>12 DEF Heard
    <2>0. m # None
      BY NamesAssumption
    <2>1. c.told[u] = IF c.ts[x].cache[m] = "Requested" THEN "none" ELSE c.ts[x].cache[m]
      BY DEF Good, Sound, Heard
    <2>2. CASE x = t /\ m \in notified
      <3>1. cache[m] # "Requested"
        BY <1>3, <1>4, <2>2
      <3> QED BY <1>6, <1>8, <1>11, <2>2, <3>1
    <2>3. CASE x = t /\ m \notin notified
      <3>1. cache[m] = s.cache[m]
        BY <1>4, <2>3
      <3> QED BY <1>6, <1>8, <1>11, <2>1, <2>3, <3>1
    <2>4. CASE x # t
      <3>1. s.watchers[u] = None
        BY <2>0, <2>4 DEF Good, Sound, Owned
      <3>2. None \notin notified
        BY <1>4, NamesAssumption
      <3> QED BY <1>8, <1>11, <2>1, <2>4, <3>1, <3>2
    <2> QED BY <2>2, <2>3, <2>4
  <1>14. Owned(b)
    BY <1>12 DEF Good, Sound, Owned
  <1>15. Nonces(b)
    BY <1>6, <1>11 DEF Good, Sound, Nonces
  <1>16. Versions(b)
    <2>1. \A x \in Type : b.ts[x].version = c.ts[x].version \/ (~nack /\ b.ts[x].version = r.id)
      BY <1>6, <1>11
    <2>2. r.id \notin c.bad
          /\ \A x \in Type : c.ts[x].version # r.id /\ c.last[x].version # r.id
      BY DEF Unseen
    <2>3. \A x \in Type : b.ts[x].version \notin ba
      BY <1>10, <2>1, <2>2 DEF Good, Sound, Versions
    <2>4. \A x \in Type : c.last[x].version \notin ba
      BY <1>10, <2>2 DEF Good, Sound, Versions
    <2> QED BY <1>10, <1>11, <2>1, <2>3, <2>4 DEF Good, Sound, Versions
  <1>17. Sound(b)
    BY <1>11, <1>13, <1>14, <1>15, <1>16 DEF Sound
  <1>18. Asked(b, {t})
    BY <1>11 DEF Good, Asked
  <1>19. Timed(b, {})
    <2> SUFFICES ASSUME ResourceInitialTimeout, c.ok, c.session = "active",
                        NEW x \in Type, NEW w \in Watcher,
                        NEW m \in Name, c.ts[x].watchers[w] = m, b.ts[x].cache[m] = "Requested"
                 PROVE  tm[<<x, m>>] # 0
      BY <1>11, <1>12 DEF Timed
    <2>0. <<x, m>> \in Keys /\ <<x, m>>[1] = x /\ <<x, m>>[2] = m
      BY DEF Keys
    <2>1. CASE x = t
      <3>1. m \notin seen /\ s.cache[m] = "Requested"
        BY <1>3, <1>6, <1>11, <2>1
      <3> QED BY <1>7, <2>0, <2>1, <3>1 DEF Good, Timed
    <2>2. CASE x # t
      BY <1>7, <1>11, <2>0, <2>2 DEF Good, Timed
    <2> QED BY <2>1, <2>2
  <1>20. Renewed(c, b) /\ \A u \in Watcher : Absent(c, u) => Absent(b, u)
    BY <1>7, <1>11, <1>12 DEF Renewed, Absent
  <1>21. CASE Watchers(s) = {}
    <2>1. d = c
      BY <1>2, <1>21
    <2> QED BY <2>1 DEF Renewed, d
  <1>22. CASE Watchers(s) # {}
    <2>1. d = Write(b, {t})
      BY <1>2, <1>22
    <2>2. /\ d \in Turns /\ Kept(b, d) /\ d.timers = b.timers /\ (d.ok => b.ok) /\ Asked(d, {})
          /\ \A x \in Type : d.last[x] = b.last[x] \/ d.last[x] = RequestOf(b.ts[x])
      <3>1. {t} \in SUBSET Type
        OBVIOUS
      <3>2. b \in Turns
        BY <1>11
      <3>3. PICK T \in SUBSET Type : T = {t}
        BY <3>1
      <3>4. Asked(b, T) /\ d = Write(b, T)
        BY <1>18, <2>1, <3>3
      <3> QED BY <3>2, <3>4, WriteSound
    <2>3. Sound(d) /\ NoNews(b, d)
      BY <1>11, <1>17, <2>2, KeptSound
    <2>4. Timed(d, {})
      BY <1>19, <2>2 DEF Timed, Kept
    <2>5. Good(d)
      BY <2>2, <2>3, <2>4 DEF Good
    <2>6. Renewed(c, d) /\ d.session = c.session
      BY <1>11, <1>20, <2>2 DEF Renewed, Kept
    <2> QED BY <1>20, <2>3, <2>5, <2>6 DEF NoNews, d
  <1> QED BY <1>21, <1>22

\* A new stream: no nonce of an older one is left, and every type with watchers
\* asks again.
LEMMA ReadyGood ==
    ASSUME IsFiniteSet(Expirations(queue)), NEW c, Good(c)
    PROVE  LET d == Ready(c)
           IN  Good(d) /\ Renewed(c, d) /\ d.session = "active" /\ NoNews(c, d)
  <1> DEFINE d == Ready(c)
             b == ClearNonces(c)
             tb == [t \in Type |-> [c.ts[t] EXCEPT !.nonce = 0]]
  <1>1. d = SendRequest(b, Type)
    BY DEF Ready
  <1>2. c \in Turns /\ c.ts \in [Type -> TypeStates]
    BY DEF Good, Sound, Turns
  <1>3. ASSUME NEW t \in Type
        PROVE  /\ tb[t] \in TypeStates /\ tb[t].nonce = 0 /\ tb[t].version = c.ts[t].version
               /\ tb[t].watchers = c.ts[t].watchers /\ tb[t].cache = c.ts[t].cache
    <2>1. c.ts[t] \in TypeStates
      BY <1>2
    <2> QED BY <2>1 DEF TypeStates
  <1>4. tb \in [Type -> TypeStates]
    BY <1>3
  <1>5. b = [c EXCEPT !.ts = tb, !.session = "active"]
    BY DEF ClearNonces
  <1>6. /\ b \in Turns /\ b.ts = tb /\ b.session = "active" /\ b.told = c.told
        /\ b.timers = c.timers /\ b.last = c.last /\ b.bad = c.bad
    <2> HIDE DEF tb, b
    <2> QED BY <1>2, <1>4, <1>5 DEF Turns
  <1> HIDE DEF d, b, tb
  <1>7. Heard(b) /\ Owned(b)
    BY <1>3, <1>6 DEF Good, Sound, Heard, Owned
  <1>8. Nonces(b)
    BY <1>3, <1>6 DEF Good, Sound, Nonces
  <1>9. Versions(b)
    BY <1>3, <1>6 DEF Good, Sound, Versions
  <1>10. Sound(b)
    BY <1>6, <1>7, <1>8, <1>9 DEF Sound
  <1>11. NoNews(c, b) /\ Renewed(c, b)
    BY <1>3, <1>6 DEF NoNews, Absent, Unseen, Renewed
  <1>12. Asked(b, Type) /\ Timed(b, Type)
    BY DEF Asked, Timed
  <1>13. Good(d) /\ NoNews(b, d) /\ Renewed(b, d) /\ d.session = b.session
    BY <1>1, <1>6, <1>10, <1>12, SendRequestGood
  <1>14. Renewed(c, d)
    BY <1>6, <1>11, <1>13 DEF Renewed
  <1> QED BY <1>6, <1>11, <1>13, <1>14 DEF NoNews, d

\* A failed turn retires the stream, so that one that is still in use has been
\* told everything.
LEMMA RetireGood ==
    ASSUME NEW c, Good(c)
    PROVE  LET d == Retire(c)
           IN  /\ Good(d) /\ Renewed(c, d) /\ NoNews(c, d)
               /\ d.session = "active" => d.ok
               /\ d.session = "none" <=> c.session = "none"
  <1> DEFINE d == Retire(c)
             none == [k \in Keys |-> 0]
  <1>0. c \in Turns
    BY DEF Good, Sound
  <1>1. CASE c.ok \/ c.session = "none"
    <2>1. d = c
      BY <1>1 DEF Retire
    <2> HIDE DEF d
    <2> QED BY <1>1, <2>1 DEF Renewed, NoNews, d
  <1>2. CASE ~(c.ok \/ c.session = "none")
    <2>1. d = [c EXCEPT !.session = "retired", !.timers = none]
      BY <1>0, <1>2 DEF Retire, CancelAll, Turns
    <2>2. none \in [Keys -> Nat] /\ \A k \in Keys : none[k] = 0
      OBVIOUS
    <2> HIDE DEF none
    <2>3. /\ d \in Turns /\ d.ts = c.ts /\ d.session = "retired" /\ d.told = c.told
          /\ d.timers = none /\ d.last = c.last /\ d.bad = c.bad /\ d.ok = c.ok
      <3> HIDE DEF d
      <3> QED BY <1>0, <2>1, <2>2 DEF Turns
    <2> HIDE DEF d
    <2>4. Heard(d) /\ Owned(d)
      BY <2>3 DEF Good, Sound, Heard, Owned
    <2>5. Nonces(d) /\ Versions(d)
      BY <1>2, <2>3 DEF Good, Sound, Nonces, Versions
    <2>6. Asked(d, {}) /\ Timed(d, {})
      BY <2>3 DEF Asked, Timed
    <2>7. Renewed(c, d) /\ NoNews(c, d)
      BY <2>2, <2>3 DEF Renewed, NoNews, Absent, Unseen
    <2> QED BY <1>2, <2>3, <2>4, <2>5, <2>6, <2>7 DEF Good, Sound, d
  <1> QED BY <1>1, <1>2

-----------------------------------------------------------------------------
(* The state before and after a turn.                                      *)

\* The worker's state is a turn that has not failed.
LEMMA TurnFields ==
    /\ Turn.ts = ts /\ Turn.timers = timers /\ Turn.session = session /\ Turn.sent = sent
    /\ Turn.gate = gate /\ Turn.told = told /\ Turn.last = last /\ Turn.bad = bad /\ Turn.ok = TRUE
    /\ Turn.ts' = ts' /\ Turn.timers' = timers' /\ Turn.session' = session'
    /\ Turn.sent' = sent' /\ Turn.gate' = gate' /\ Turn.told' = told'
    /\ Turn.last' = last' /\ Turn.bad' = bad' /\ Turn.ok' = TRUE
  BY DEF Turn

\* A turn starts well.
LEMMA TurnGood ==
    ASSUME TypeOK, WorkerInv
    PROVE  Good(Turn)
  <1>1. Turn \in Turns
    BY DEF TypeOK, Turn, Turns
  <1> QED BY <1>1 DEF WorkerInv, Good, Sound

\* Expirations are of keys, with ids.
LEMMA ExpirationsTyped ==
    ASSUME TypeOK
    PROVE  Expirations(queue) \subseteq Keys \X (Nat \ {0})
  <1>1. ASSUME NEW i \in DOMAIN queue, queue[i].kind = "timer"
        PROVE  <<<<queue[i].type, queue[i].name>>, queue[i].id>> \in Keys \X (Nat \ {0})
    BY <1>1, QueueIndices, MessageFields DEF Keys
  <1>2. firing \subseteq Keys \X (Nat \ {0})
    BY DEF TypeOK
  <1> QED BY <1>1, <1>2 DEF Expirations

\* Taking the head of the queue brings no expiration.
LEMMA ExpirationsTail ==
    ASSUME TypeOK, queue # <<>>
    PROVE  Expirations(Tail(queue)) \subseteq Expirations(queue)
  <1> SUFFICES ASSUME NEW i \in DOMAIN Tail(queue), Tail(queue)[i].kind = "timer"
               PROVE  <<<<Tail(queue)[i].type, Tail(queue)[i].name>>, Tail(queue)[i].id>>
                          \in Expirations(queue)
    BY DEF Expirations
  <1>1. i + 1 \in DOMAIN queue /\ Tail(queue)[i] = queue[i + 1]
    BY QueueTail
  <1> QED BY <1>1 DEF Expirations

\* What a good turn leaves behind is a good state of the worker.
LEMMA WorkerAfter ==
    ASSUME NEW d, Good(d), d.session = "active" => d.ok,
           ts' = d.ts, timers' = d.timers, session' = d.session, sent' = d.sent,
           gate' = d.gate, told' = d.told, last' = d.last, bad' = d.bad, count' = count
    PROVE  WorkerInv'
  <1>1. Asked(Turn, {})'
    <2>1. ASSUME NEW t \in Type
          PROVE  /\ Watchers(Turn.ts[t])' = Watchers(d.ts[t])
                 /\ Subscription(Turn.ts[t])' = Subscription(d.ts[t])
      BY TurnFields DEF Watchers, Subscription
    <2> QED BY <2>1, TurnFields DEF Good, Asked
  <1>2. Timed(Turn, {})'
    BY TurnFields DEF Good, Timed
  <1>3. Heard(Turn)'
    BY TurnFields DEF Good, Sound, Heard
  <1>4. Owned(Turn)'
    BY TurnFields DEF Good, Sound, Owned
  <1>5. Nonces(Turn)'
    BY TurnFields DEF Good, Sound, Nonces, NoRequest
  <1>6. Versions(Turn)'
    BY TurnFields DEF Good, Sound, Versions
  <1> QED BY <1>1, <1>2, <1>3, <1>4, <1>5, <1>6 DEF WorkerInv

\* A turn that ends well keeps the invariant, if it did not take the stream out of
\* its order, and the watchers and the response it has news of are those of the
\* message it took from the queue.
LEMMA FinishSound ==
    ASSUME IInv, queue # <<>>, NEW c, Finish(c, TRUE) \/ Finish(c, FALSE),
           Good(c), Renewed(Turn, c),
           Head(queue).kind # "failed",
           life \in {"unspawned", "setup"} => c.session = "none",
           \A v : v # 0 /\ Unseen(Turn, v) => Unseen(c, v) \/ Head(queue).kind = "response",
           \A u \in Watcher : Absent(Turn, u) => Absent(c, u) \/ Watches(1, u),
           \A u \in Watcher : Unwatches(1, u) => Absent(c, u)
    PROVE  IInv'
  <1>1. PICK d : d = Retire(c)
    OBVIOUS
  <1>2. /\ ts' = d.ts /\ timers' = d.timers /\ session' = d.session /\ sent' = d.sent
        /\ gate' = d.gate /\ told' = d.told /\ last' = d.last /\ bad' = d.bad
        /\ dead' = {x \in Expirations(Tail(queue)) : x \in dead \/ d.timers[x[1]] # x[2]}
        /\ queue' = Tail(queue)
        /\ \/ life' = life
           \/ life = "unspawned" /\ life' = "setup"
        /\ watch' = watch /\ firing' = firing /\ count' = count
    BY <1>1 DEF Finish, Bury
  <1>3. /\ Good(d) /\ Renewed(c, d) /\ NoNews(c, d)
        /\ d.session = "active" => d.ok
        /\ d.session = "none" <=> c.session = "none"
    BY <1>1, RetireGood
  <1>4. TypeOK /\ WorkerInv /\ StreamOrder /\ ResponseOrder /\ WatchOrder /\ DeadTimers
    BY DEF IInv
  <1>5. /\ Head(queue) = queue[1] /\ 1 \in DOMAIN queue
        /\ Tail(queue) \in Seq(Message)
        /\ \A i \in DOMAIN Tail(queue) :
              i \in Nat \ {0} /\ i + 1 \in DOMAIN queue /\ Tail(queue)[i] = queue[i + 1]
    BY <1>4, QueueTail
  <1>6. Expirations(queue)' = Expirations(Tail(queue))
    BY <1>2 DEF Expirations
  <1>7. Expirations(Tail(queue)) \subseteq Expirations(queue)
    BY <1>4, ExpirationsTail
  <1>8. Expirations(queue) \subseteq Keys \X (Nat \ {0})
    BY <1>4, ExpirationsTyped
  <1>9. d \in Turns
    BY <1>3 DEF Good, Sound
  <1>10. TypeOK'
    <2>1. /\ ts' \in [Type -> TypeStates] /\ timers' \in [Keys -> Nat]
          /\ session' \in {"none", "active", "retired"} /\ sent' \in [Type -> Seq(Names)]
          /\ gate' \subseteq Watcher /\ told' \in [Watcher -> CacheStates]
          /\ last' \in [Type -> Request] /\ bad' \subseteq Nat
      BY <1>2, <1>9 DEF Turns
    <2>2. dead' \subseteq (Keys \X Nat)
      BY <1>2, <1>7, <1>8
    <2>3. life' \in {"unspawned", "setup", "streaming", "reported"} /\ queue' \in Seq(Message)
      BY <1>2, <1>4, <1>5 DEF TypeOK
    <2>4. /\ watch' \in [Watcher -> (Type \X (Name \cup {All})) \cup {None}]
          /\ firing' \subseteq (Keys \X (Nat \ {0}))
          /\ count' \in [watches : 0 .. MaxWatches, streams : 0 .. MaxStreams,
                         responses : 0 .. MaxResponses, base : 0 .. MaxResponses]
      BY <1>2, <1>4 DEF TypeOK
    <2> QED BY <2>1, <2>2, <2>3, <2>4 DEF TypeOK
  <1>11. WorkerInv'
    BY <1>2, <1>3, WorkerAfter
  <1>12. StreamOrder'
    <2>1. life' \in {"unspawned", "setup"} =>
             session' = "none" /\ \A i \in DOMAIN queue' : queue'[i].kind \notin StreamKinds
      BY <1>2, <1>3, <1>4, <1>5 DEF StreamOrder
    <2>2. life' = "streaming" => \A i \in DOMAIN queue' : queue'[i].kind # "failed"
      BY <1>2, <1>4, <1>5 DEF StreamOrder
    <2>3. \A i, j \in DOMAIN queue' :
             i < j /\ queue'[i].kind = "failed" => queue'[j].kind \notin StreamKinds
      BY <1>2, <1>4, <1>5 DEF StreamOrder
    <2> QED BY <2>1, <2>2, <2>3 DEF StreamOrder
  <1>13. ResponseOrder'
    <2>1. \A v : Unseen(d, v) => Unseen(Turn, v)'
      BY <1>2, TurnFields DEF Unseen
    <2>2. \A i, j \in DOMAIN queue' :
             queue'[i].kind = "response" /\ queue'[j].kind = "response" => i = j
      BY <1>2, <1>4, <1>5 DEF ResponseOrder
    <2>3. ASSUME NEW i \in DOMAIN queue', queue'[i].kind = "response", ~queue'[i].garbage
          PROVE  /\ queue'[i].id > count.base /\ queue'[i].id <= count.responses
                 /\ Unseen(d, queue'[i].id)
      <3>1. i + 1 \in DOMAIN queue /\ queue'[i] = queue[i + 1] /\ i + 1 # 1
        BY <1>2, <1>5
      <3>2. /\ queue'[i].id > count.base /\ queue'[i].id <= count.responses
            /\ Unseen(Turn, queue'[i].id)
        BY <1>4, <2>3, <3>1 DEF ResponseOrder
      <3>3. Head(queue).kind # "response"
        BY <1>4, <1>5, <2>3, <3>1 DEF ResponseOrder
      <3>4. queue'[i].id # 0
        BY <1>4, <2>3, <3>1, QueueIndices, MessageFields
      <3>5. Unseen(c, queue'[i].id)
        BY <3>2, <3>3, <3>4
      <3> QED BY <1>3, <3>2, <3>4, <3>5 DEF NoNews
    <2> QED BY <1>2, <1>4, <2>1, <2>2, <2>3 DEF ResponseOrder
  <1>14. WatchOrder'
    <2>1. \A u \in Watcher : Absent(c, u) => Absent(Turn, u)'
      <3>1. \A u \in Watcher : Absent(d, u) => Absent(Turn, u)'
        BY <1>2, TurnFields DEF Absent
      <3> QED BY <1>3, <3>1 DEF NoNews
    <2>2. \A i \in DOMAIN queue', u \in Watcher :
             /\ i \in Nat \ {0} /\ i + 1 \in DOMAIN queue
             /\ Watches(i, u)' <=> Watches(i + 1, u)
             /\ Unwatches(i, u)' <=> Unwatches(i + 1, u)
      BY <1>2, <1>5 DEF Watches, Unwatches
    <2>3. ASSUME NEW u \in Watcher, NEW i \in DOMAIN queue', Watches(i, u)'
          PROVE  Absent(Turn, u)' /\ \A j \in DOMAIN queue' : Watches(j, u)' => i = j
      <3>1. Watches(i + 1, u) /\ i + 1 \in DOMAIN queue
        BY <2>2, <2>3
      <3>2. Absent(Turn, u) /\ \A j \in DOMAIN queue : Watches(j, u) => i + 1 = j
        BY <1>4, <3>1 DEF WatchOrder
      <3>3. ~Watches(1, u)
        BY <1>5, <2>2, <3>2
      <3> QED BY <2>1, <2>2, <3>2, <3>3
    <2>4. ASSUME NEW u \in Watcher, NEW i \in DOMAIN queue', NEW j \in DOMAIN queue',
                 Unwatches(i, u)', Watches(j, u)'
          PROVE  j < i
      <3>1. j + 1 < i + 1
        BY <1>4, <2>2, <2>4 DEF WatchOrder
      <3> QED BY <2>2, <3>1
    <2>5. ASSUME NEW u \in Watcher, watch[u] = None, \A i \in DOMAIN queue' : ~Unwatches(i, u)'
          PROVE  Absent(Turn, u)' /\ \A i \in DOMAIN queue' : ~Watches(i, u)'
      <3>1. \A j \in DOMAIN queue : j # 1 => j - 1 \in DOMAIN queue' /\ j = (j - 1) + 1
        BY <1>2, <1>4, QueueTail, QueueIndices
      <3>2. CASE Unwatches(1, u)
        <4>1. Absent(Turn, u)'
          BY <2>1, <3>2
        <4>2. ASSUME NEW i \in DOMAIN queue', Watches(i, u)' PROVE FALSE
          <5>1. i + 1 < 1
            BY <1>4, <1>5, <2>2, <3>2, <4>2 DEF WatchOrder
          <5> QED BY <2>2, <5>1
        <4> QED BY <4>1, <4>2
      <3>3. CASE ~Unwatches(1, u)
        <4>1. \A j \in DOMAIN queue : ~Unwatches(j, u)
          BY <2>2, <2>5, <3>1, <3>3
        <4>2. Absent(Turn, u) /\ \A j \in DOMAIN queue : ~Watches(j, u)
          BY <1>4, <2>5, <4>1 DEF WatchOrder
        <4> QED BY <1>5, <2>1, <2>2, <4>2
      <3> QED BY <3>2, <3>3
    <2> QED BY <1>2, <2>3, <2>4, <2>5 DEF WatchOrder
  <1>15. DeadTimers'
    <2>1. dead' \subseteq Expirations(queue)'
      BY <1>2, <1>6
    <2>2. ASSUME NEW x \in dead' PROVE timers'[x[1]] # x[2]
      <3>1. x \in Expirations(queue) /\ (x \in dead \/ d.timers[x[1]] # x[2])
        BY <1>2, <1>7
      <3>2. x[1] \in Keys /\ x[2] # 0 /\ x = <<x[1], x[2]>>
        BY <1>8, <3>1
      <3>3. x \in dead => timers[x[1]] # x[2]
        BY <1>4 DEF DeadTimers
      <3>4. c.timers[x[1]] \in {0, timers[x[1]]} \/ <<x[1], c.timers[x[1]]>> \notin Expirations(queue)
        BY <3>2, TurnFields DEF Renewed
      <3>5. d.timers[x[1]] \in {0, c.timers[x[1]]} \/ <<x[1], d.timers[x[1]]>> \notin Expirations(queue)
        BY <1>3, <3>2 DEF Renewed
      <3> QED BY <1>2, <3>1, <3>2, <3>3, <3>4, <3>5
    <2> QED BY <1>2, <1>4, <2>1, <2>2 DEF DeadTimers
  <1> QED BY <1>10, <1>11, <1>12, <1>13, <1>14, <1>15 DEF IInv

-----------------------------------------------------------------------------
(* What the other actors leave alone.                                      *)

\* The worker's state is as good as it was while it waits.
LEMMA WorkerFrame ==
    ASSUME TypeOK, WorkerInv, UNCHANGED <<ts, timers, session, told, last, bad>>,
           count'.responses \in Nat, count.responses <= count'.responses,
           count'.base = count.base \/ session = "none"
    PROVE  WorkerInv'
  <1>1. Asked(Turn, {})'
    <2>1. ASSUME NEW t \in Type
          PROVE  /\ Watchers(Turn.ts[t])' = Watchers(Turn.ts[t])
                 /\ Subscription(Turn.ts[t])' = Subscription(Turn.ts[t])
      BY TurnFields DEF Watchers, Subscription
    <2> QED BY <2>1, TurnFields DEF WorkerInv, Asked
  <1>2. Timed(Turn, {})'
    BY TurnFields DEF WorkerInv, Timed
  <1>3. Heard(Turn)'
    BY TurnFields DEF WorkerInv, Heard
  <1>4. Owned(Turn)'
    BY TurnFields DEF WorkerInv, Owned
  <1>5. Nonces(Turn)'
    BY TurnFields DEF WorkerInv, Nonces, NoRequest
  <1>6. Versions(Turn)'
    <2>1. \A t \in Type : ts[t].version \in Nat /\ last[t].version \in Nat
      BY DEF TypeOK, TypeStates, Request
    <2>2. bad \subseteq Nat /\ count.responses \in Nat
      BY BoundsAssumption DEF TypeOK
    <2>3. /\ \A t \in Type : ts[t].version \notin bad /\ ts[t].version <= count.responses
          /\ \A t \in Type : last[t].version \notin bad /\ last[t].version <= count.responses
          /\ \A v \in bad : v # 0 /\ v <= count.responses
      BY TurnFields DEF WorkerInv, Versions
    <2>4. \A v \in Nat : v <= count.responses => v <= count'.responses
      BY <2>2
    <2>5. /\ \A t \in Type : ts[t].version <= count'.responses /\ last[t].version <= count'.responses
          /\ \A v \in bad : v <= count'.responses
      BY <2>1, <2>2, <2>3, <2>4
    <2> QED BY <2>3, <2>5, TurnFields DEF Versions
  <1> QED BY <1>1, <1>2, <1>3, <1>4, <1>5, <1>6 DEF WorkerInv

\* A message sent is the last; the others stay where they were.
LEMMA Appended ==
    ASSUME TypeOK, NEW m \in Message, Send(m)
    PROVE  /\ queue' \in Seq(Message)
           /\ \A i \in DOMAIN queue : i \in DOMAIN queue' /\ i \in Nat /\ queue'[i] = queue[i]
           /\ \A i \in DOMAIN queue' :
                 \/ i \in DOMAIN queue /\ i \in Nat /\ queue'[i] = queue[i]
                 \/ /\ i = Len(queue) + 1 /\ i \in Nat /\ i \notin DOMAIN queue /\ queue'[i] = m
                    /\ \A j \in DOMAIN queue : j < i
  BY QueueAppend

\* A message that is not of a stream keeps the order of the stream's.
LEMMA StreamAppend ==
    ASSUME TypeOK, StreamOrder, NEW m \in Message, Send(m), m.kind \notin StreamKinds,
           life' = life, session' = session
    PROVE  StreamOrder'
  <1>1. life' \in {"unspawned", "setup"} =>
           session' = "none" /\ \A i \in DOMAIN queue' : queue'[i].kind \notin StreamKinds
    BY Appended DEF StreamOrder
  <1>2. life' = "streaming" => \A i \in DOMAIN queue' : queue'[i].kind # "failed"
    BY Appended DEF StreamOrder, StreamKinds
  <1>3. \A i, j \in DOMAIN queue' :
           i < j /\ queue'[i].kind = "failed" => queue'[j].kind \notin StreamKinds
    BY Appended DEF StreamOrder, StreamKinds
  <1> QED BY <1>1, <1>2, <1>3 DEF StreamOrder

\* A message that is not a response leaves the one in the queue, if any, unseen.
LEMMA ResponseAppend ==
    ASSUME TypeOK, ResponseOrder, NEW m \in Message, Send(m), m.kind # "response",
           UNCHANGED <<ts, last, bad, count>>
    PROVE  ResponseOrder'
  <1>1. \A v : Unseen(Turn, v) => Unseen(Turn, v)'
    BY TurnFields DEF Unseen
  <1>2. \A i, j \in DOMAIN queue' :
           queue'[i].kind = "response" /\ queue'[j].kind = "response" => i = j
    BY Appended DEF ResponseOrder
  <1>3. ASSUME NEW i \in DOMAIN queue', queue'[i].kind = "response", ~queue'[i].garbage
        PROVE  /\ queue'[i].id > count.base /\ queue'[i].id <= count.responses
               /\ Unseen(Turn, queue'[i].id)
    BY <1>3, Appended DEF ResponseOrder
  <1> QED BY <1>1, <1>2, <1>3 DEF ResponseOrder

\* A message that is neither Watch nor Unwatch leaves the watchers' order alone.
LEMMA WatchAppend ==
    ASSUME TypeOK, WatchOrder, NEW m \in Message, Send(m), m.kind \notin {"watch", "unwatch"},
           UNCHANGED <<ts, watch>>
    PROVE  WatchOrder'
  <1>1. \A u \in Watcher : Absent(Turn, u) => Absent(Turn, u)'
    BY TurnFields DEF Absent
  <1>2. ASSUME NEW u \in Watcher, NEW i \in DOMAIN queue'
        PROVE  /\ Watches(i, u)' => i \in DOMAIN queue /\ Watches(i, u)
               /\ Unwatches(i, u)' => i \in DOMAIN queue /\ Unwatches(i, u)
    BY Appended DEF Watches, Unwatches
  <1>3. ASSUME NEW u \in Watcher, NEW i \in DOMAIN queue, Unwatches(i, u)
        PROVE  i \in DOMAIN queue' /\ Unwatches(i, u)'
    BY <1>3, Appended DEF Unwatches
  <1>4. ASSUME NEW u \in Watcher, NEW i \in DOMAIN queue', Watches(i, u)'
        PROVE  Absent(Turn, u)' /\ \A j \in DOMAIN queue' : Watches(j, u)' => i = j
    BY <1>1, <1>2, <1>4 DEF WatchOrder
  <1>5. ASSUME NEW u \in Watcher, NEW i \in DOMAIN queue', NEW j \in DOMAIN queue',
               Unwatches(i, u)', Watches(j, u)'
        PROVE  j < i
    BY <1>2, <1>5 DEF WatchOrder
  <1>6. ASSUME NEW u \in Watcher, watch[u] = None, \A i \in DOMAIN queue' : ~Unwatches(i, u)'
        PROVE  Absent(Turn, u)' /\ \A i \in DOMAIN queue' : ~Watches(i, u)'
    BY <1>1, <1>2, <1>3, <1>6 DEF WatchOrder
  <1> QED BY <1>4, <1>5, <1>6 DEF WatchOrder

\* Expirations stay on their way while messages are sent.
LEMMA DeadAppend ==
    ASSUME TypeOK, DeadTimers, NEW m \in Message, Send(m), UNCHANGED <<timers, dead>>,
           IsFiniteSet(firing'),
           \A x \in firing : x \in firing' \/ (m.kind = "timer" /\ x = <<<<m.type, m.name>>, m.id>>)
    PROVE  DeadTimers'
  <1>1. Expirations(queue) \subseteq Expirations(queue)'
    <2> SUFFICES ASSUME NEW x \in Expirations(queue) PROVE x \in Expirations(queue)'
      OBVIOUS
    <2>1. CASE x \in firing
      <3>1. CASE x \in firing'
        BY <3>1 DEF Expirations
      <3>2. CASE m.kind = "timer" /\ x = <<<<m.type, m.name>>, m.id>>
        <4>1. PICK i \in DOMAIN queue' : queue'[i] = m
          BY QueueAppend
        <4> QED BY <3>2, <4>1 DEF Expirations
      <3> QED BY <2>1, <3>1, <3>2
    <2>2. CASE x \notin firing
      <3>1. PICK i \in DOMAIN queue : /\ queue[i].kind = "timer"
                                      /\ x = <<<<queue[i].type, queue[i].name>>, queue[i].id>>
        BY <2>2 DEF Expirations
      <3>2. i \in DOMAIN queue' /\ queue'[i] = queue[i]
        BY Appended
      <3> QED BY <3>1, <3>2 DEF Expirations
    <2> QED BY <2>1, <2>2
  <1> QED BY <1>1 DEF DeadTimers

\* What is left to show when a message is sent and the worker waits.
LEMMA TypeAppend ==
    ASSUME TypeOK, NEW m \in Message, Send(m),
           UNCHANGED <<ts, timers, session, told, last, dead, bad>>,
           life' \in {"unspawned", "setup", "streaming", "reported"},
           sent' \in [Type -> Seq(Names)], gate' \subseteq Watcher,
           watch' \in [Watcher -> (Type \X (Name \cup {All})) \cup {None}],
           firing' \subseteq firing,
           count' \in [watches : 0 .. MaxWatches, streams : 0 .. MaxStreams,
                       responses : 0 .. MaxResponses, base : 0 .. MaxResponses]
    PROVE  TypeOK'
  <1>1. queue' \in Seq(Message)
    BY Appended
  <1> QED BY <1>1 DEF TypeOK

-----------------------------------------------------------------------------
(* The actions.                                                            *)

\* What the handlers start from.
LEMMA HandlerStart ==
    ASSUME IInv, NEW kind, HeadIs(kind)
    PROVE  /\ queue # <<>> /\ Head(queue) = queue[1] /\ 1 \in DOMAIN queue
           /\ Head(queue) \in Message /\ Head(queue).kind = kind
           /\ Good(Turn) /\ Turn.session = session /\ IsFiniteSet(Expirations(queue))
           /\ kind \in StreamKinds => life \notin {"unspawned", "setup"}
           /\ life \in {"unspawned", "setup"} => session = "none"
           /\ count.responses \in Nat /\ count.base \in Nat
  <1>1. TypeOK /\ WorkerInv /\ StreamOrder /\ DeadTimers
    BY DEF IInv
  <1>2. queue # <<>> /\ Head(queue).kind = kind
    BY DEF HeadIs
  <1>3. Head(queue) = queue[1] /\ 1 \in DOMAIN queue /\ Head(queue) \in Message
    BY <1>1, <1>2, QueueTail
  <1>4. Good(Turn) /\ Turn.session = session
    BY <1>1, TurnGood, TurnFields
  <1>5. IsFiniteSet(Expirations(queue))
    BY <1>1, ExpirationsFinite DEF DeadTimers
  <1>6. /\ kind \in StreamKinds => life \notin {"unspawned", "setup"}
        /\ life \in {"unspawned", "setup"} => session = "none"
    BY <1>1, <1>2, <1>3 DEF StreamOrder
  <1>7. count.responses \in Nat /\ count.base \in Nat
    BY <1>1, BoundsAssumption DEF TypeOK
  <1> QED BY <1>2, <1>3, <1>4, <1>5, <1>6, <1>7

\* Watch.
LEMMA HandleWatchSound ==
    ASSUME IInv, HandleWatch
    PROVE  IInv'
  <1>1. HeadIs("watch")
    BY DEF HandleWatch
  <1>2. PICK w, t, n : w = Head(queue).w /\ t = Head(queue).type /\ n = Head(queue).name
    OBVIOUS
  <1>3. w \in Watcher /\ t \in Type /\ n \in Name \cup {All}
    BY <1>1, <1>2, HandlerStart, MessageFields
  <1>4. PICK c : c = AddWatcher(Turn, w, t, n)
    OBVIOUS
  <1>5. Finish(c, TRUE)
    BY <1>2, <1>4 DEF HandleWatch
  <1>6. Watches(1, w) /\ \A u : ~Unwatches(1, u)
    BY <1>1, <1>2, HandlerStart DEF Watches, Unwatches
  <1>7. Absent(Turn, w)
    BY <1>1, <1>3, <1>6, HandlerStart DEF IInv, WatchOrder
  <1>8. /\ Good(c) /\ Renewed(Turn, c) /\ c.session = session
        /\ \A u \in Watcher : u # w /\ Absent(Turn, u) => Absent(c, u)
        /\ \A v : v # 0 /\ Unseen(Turn, v) => Unseen(c, v)
    BY <1>1, <1>3, <1>4, <1>7, HandlerStart, AddWatcherGood
  <1>9. /\ queue # <<>> /\ Head(queue).kind # "failed"
        /\ life \in {"unspawned", "setup"} => c.session = "none"
    BY <1>1, <1>8, HandlerStart
  <1>10. /\ \A v : v # 0 /\ Unseen(Turn, v) => Unseen(c, v) \/ Head(queue).kind = "response"
         /\ \A u \in Watcher : Absent(Turn, u) => Absent(c, u) \/ Watches(1, u)
         /\ \A u \in Watcher : Unwatches(1, u) => Absent(c, u)
    BY <1>6, <1>8
  <1> QED BY <1>5, <1>8, <1>9, <1>10, FinishSound

\* Unwatch.
LEMMA HandleUnwatchSound ==
    ASSUME IInv, HandleUnwatch
    PROVE  IInv'
  <1>1. HeadIs("unwatch")
    BY DEF HandleUnwatch
  <1>2. PICK w : w = Head(queue).w
    OBVIOUS
  <1>3. w \in Watcher
    BY <1>1, <1>2, HandlerStart, MessageFields
  <1>4. PICK c : c = RemoveWatcher(Turn, w)
    OBVIOUS
  <1>5. Finish(c, TRUE)
    BY <1>2, <1>4 DEF HandleUnwatch
  <1>6. \A u : Unwatches(1, u) => u = w
    BY <1>1, <1>2, HandlerStart DEF Unwatches
  <1>7. Good(c) /\ Renewed(Turn, c) /\ c.session = session /\ NoNews(Turn, c) /\ Absent(c, w)
    BY <1>1, <1>3, <1>4, HandlerStart, RemoveWatcherGood
  <1>8. /\ queue # <<>> /\ Head(queue).kind # "failed"
        /\ life \in {"unspawned", "setup"} => c.session = "none"
    BY <1>1, <1>7, HandlerStart
  <1>9. /\ \A v : v # 0 /\ Unseen(Turn, v) => Unseen(c, v) \/ Head(queue).kind = "response"
        /\ \A u \in Watcher : Absent(Turn, u) => Absent(c, u) \/ Watches(1, u)
        /\ \A u \in Watcher : Unwatches(1, u) => Absent(c, u)
    BY <1>6, <1>7 DEF NoNews
  <1> QED BY <1>5, <1>7, <1>8, <1>9, FinishSound

\* TimerExpired.
LEMMA HandleTimerSound ==
    ASSUME IInv, HandleTimer
    PROVE  IInv'
  <1>1. HeadIs("timer")
    BY DEF HandleTimer
  <1>2. PICK t, n, id : t = Head(queue).type /\ n = Head(queue).name /\ id = Head(queue).id
    OBVIOUS
  <1>3. t \in Type /\ n \in Name /\ id \in Nat \ {0}
    BY <1>1, <1>2, HandlerStart, MessageFields
  <1>4. PICK c : c = Timeout(Turn, t, n, id)
    OBVIOUS
  <1>5. Finish(c, TRUE)
    BY <1>2, <1>4 DEF HandleTimer
  <1>6. \A u : ~Unwatches(1, u)
    BY <1>1, HandlerStart DEF Unwatches
  <1>7. Good(c) /\ Renewed(Turn, c) /\ c.session = session /\ NoNews(Turn, c)
    <2>1. Good(Turn) /\ Turn.session = session
      BY <1>1, HandlerStart
    <2> QED BY <1>3, <1>4, <2>1, TimeoutGood
  <1>8. /\ queue # <<>> /\ Head(queue).kind # "failed"
        /\ life \in {"unspawned", "setup"} => c.session = "none"
    BY <1>1, <1>7, HandlerStart
  <1>9. /\ \A v : v # 0 /\ Unseen(Turn, v) => Unseen(c, v) \/ Head(queue).kind = "response"
        /\ \A u \in Watcher : Absent(Turn, u) => Absent(c, u) \/ Watches(1, u)
        /\ \A u \in Watcher : Unwatches(1, u) => Absent(c, u)
    BY <1>6, <1>7 DEF NoNews
  <1> QED BY <1>5, <1>7, <1>8, <1>9, FinishSound

\* Ready.
LEMMA HandleReadySound ==
    ASSUME IInv, HandleReady
    PROVE  IInv'
  <1>1. HeadIs("ready")
    BY DEF HandleReady
  <1>2. PICK c : c = Ready(Turn)
    OBVIOUS
  <1>3. Finish(c, FALSE)
    BY <1>2 DEF HandleReady
  <1>4. \A u : ~Unwatches(1, u)
    BY <1>1, HandlerStart DEF Unwatches
  <1>5. Good(c) /\ Renewed(Turn, c) /\ NoNews(Turn, c)
    BY <1>1, <1>2, HandlerStart, ReadyGood
  <1>6. life \notin {"unspawned", "setup"}
    BY <1>1, HandlerStart DEF StreamKinds
  <1>7. /\ queue # <<>> /\ Head(queue).kind # "failed"
        /\ life \in {"unspawned", "setup"} => c.session = "none"
    BY <1>1, <1>6, HandlerStart
  <1>8. /\ \A v : v # 0 /\ Unseen(Turn, v) => Unseen(c, v) \/ Head(queue).kind = "response"
        /\ \A u \in Watcher : Absent(Turn, u) => Absent(c, u) \/ Watches(1, u)
        /\ \A u \in Watcher : Unwatches(1, u) => Absent(c, u)
    BY <1>4, <1>5 DEF NoNews
  <1> QED BY <1>3, <1>5, <1>7, <1>8, FinishSound

\* Response.
LEMMA HandleResponseSound ==
    ASSUME IInv, HandleResponse
    PROVE  IInv'
  <1>1. HeadIs("response")
    BY DEF HandleResponse
  <1>2. PICK r : r = Head(queue)
    OBVIOUS
  <1>3. PICK c : c = IF session # "active" THEN Turn
                     ELSE IF r.garbage THEN [Turn EXCEPT !.ok = FALSE]
                     ELSE Response(Turn, r)
    OBVIOUS
  <1>4. Finish(c, FALSE)
    BY <1>2, <1>3 DEF HandleResponse
  <1>5. \A u : ~Unwatches(1, u)
    BY <1>1, HandlerStart DEF Unwatches
  <1>6. life \notin {"unspawned", "setup"}
    BY <1>1, HandlerStart DEF StreamKinds
  <1>7. /\ Good(c) /\ Renewed(Turn, c)
        /\ \A u \in Watcher : Absent(Turn, u) => Absent(c, u)
    <2>1. CASE session # "active"
      <3>1. c = Turn
        BY <1>3, <2>1
      <3> QED BY <1>1, <3>1, HandlerStart DEF Renewed
    <2>2. CASE session = "active" /\ r.garbage
      <3>1. c = [Turn EXCEPT !.ok = FALSE]
        BY <1>3, <2>2
      <3>2. Turn \in Turns
        BY <1>1, HandlerStart DEF Good, Sound
      <3>3. /\ c \in Turns /\ c.ts = Turn.ts /\ c.session = Turn.session /\ c.told = Turn.told
            /\ c.timers = Turn.timers /\ c.last = Turn.last /\ c.bad = Turn.bad /\ ~c.ok
        BY <3>1, <3>2 DEF Turns
      <3>4. Good(Turn)
        BY <1>1, HandlerStart
      <3>5. Heard(c) /\ Owned(c)
        BY <3>3, <3>4 DEF Good, Sound, Heard, Owned
      <3>6. Nonces(c)
        BY <3>3, <3>4 DEF Good, Sound, Nonces
      <3>7. Versions(c)
        BY <3>3, <3>4 DEF Good, Sound, Versions
      <3> QED BY <3>3, <3>5, <3>6, <3>7 DEF Good, Sound, Asked, Timed, Renewed, Absent
    <2>3. CASE session = "active" /\ ~r.garbage
      <3>1. c = Response(Turn, r)
        BY <1>3, <2>3
      <3>2. /\ r.type \in Type /\ r.content \in Contents /\ r.top \in BOOLEAN
            /\ r.id \in Nat \ {0}
        BY <1>1, <1>2, <2>3, HandlerStart, MessageFields
      <3>3. r.id > count.base /\ r.id <= count.responses /\ Unseen(Turn, r.id)
        BY <1>1, <1>2, <2>3, HandlerStart DEF IInv, ResponseOrder
      <3>4. Good(Turn) /\ Turn.session = "active"
        BY <1>1, <2>3, HandlerStart
      <3> QED BY <3>1, <3>2, <3>3, <3>4, ResponseGood
    <2> QED BY <2>1, <2>2, <2>3
  <1>8. /\ queue # <<>> /\ Head(queue).kind # "failed"
        /\ life \in {"unspawned", "setup"} => c.session = "none"
    BY <1>1, <1>6, HandlerStart
  <1>9. /\ \A v : v # 0 /\ Unseen(Turn, v) => Unseen(c, v) \/ Head(queue).kind = "response"
        /\ \A u \in Watcher : Absent(Turn, u) => Absent(c, u) \/ Watches(1, u)
        /\ \A u \in Watcher : Unwatches(1, u) => Absent(c, u)
    BY <1>1, <1>5, <1>7, HandlerStart
  <1> QED BY <1>4, <1>7, <1>8, <1>9, FinishSound

\* Failed: the stream is over, and nothing of it is left in the queue.
LEMMA HandleFailedSound ==
    ASSUME IInv, HandleFailed
    PROVE  IInv'
  <1>1. HeadIs("failed")
    BY DEF HandleFailed
  <1>2. TypeOK /\ WorkerInv /\ StreamOrder /\ ResponseOrder /\ WatchOrder /\ DeadTimers
    BY DEF IInv
  <1>3. Turn \in Turns /\ Good(Turn) /\ queue # <<>>
    BY <1>1, HandlerStart DEF Good, Sound
  <1>4. /\ timers' = [k \in Keys |-> 0] /\ session' = "none" /\ Bury(timers')
        /\ life' = "setup" /\ queue' = Tail(queue) /\ last' = [t \in Type |-> NoRequest]
        /\ UNCHANGED <<ts, sent, gate, told, bad, watch, firing, count>>
    BY <1>3 DEF HandleFailed, CancelAll, Turns
  <1>5. /\ Tail(queue) \in Seq(Message)
        /\ \A i \in DOMAIN Tail(queue) :
              i \in Nat \ {0} /\ i + 1 \in DOMAIN queue /\ Tail(queue)[i] = queue[i + 1]
        /\ queue[1].kind = "failed" /\ 1 \in DOMAIN queue
    BY <1>1, <1>2, HandlerStart, QueueTail
  <1>6. \A i \in DOMAIN queue' : queue'[i].kind \notin StreamKinds
    BY <1>2, <1>4, <1>5 DEF StreamOrder
  <1>7. Expirations(queue)' = Expirations(Tail(queue))
    BY <1>4 DEF Expirations
  <1>8. Expirations(Tail(queue)) \subseteq Expirations(queue)
    BY <1>2, <1>3, ExpirationsTail
  <1>9. Expirations(queue) \subseteq Keys \X (Nat \ {0})
    BY <1>2, ExpirationsTyped
  <1>10. dead' \subseteq Expirations(Tail(queue))
    BY <1>4 DEF Bury
  <1>11. TypeOK'
    <2>1. /\ timers' \in [Keys -> Nat] /\ last' \in [Type -> Request]
          /\ queue' \in Seq(Message)
      BY <1>4, <1>5 DEF NoRequest, Request, Names
    <2>2. dead' \subseteq (Keys \X Nat)
      BY <1>8, <1>9, <1>10
    <2>3. /\ session' \in {"none", "active", "retired"}
          /\ life' \in {"unspawned", "setup", "streaming", "reported"}
      BY <1>4
    <2> QED BY <1>2, <1>4, <2>1, <2>2, <2>3 DEF TypeOK
  <1>12. WorkerInv'
    <2> DEFINE none == [k \in Keys |-> 0]
               quiet == [t \in Type |-> NoRequest]
    <2>1. none \in [Keys -> Nat] /\ quiet \in [Type -> Request]
          /\ \A t \in Type : quiet[t] = NoRequest /\ quiet[t].nonce = 0 /\ quiet[t].version = 0
      BY DEF NoRequest, Request, Names
    <2> HIDE DEF none, quiet
    <2>2. PICK d : d = [Turn EXCEPT !.timers = none, !.session = "none", !.last = quiet]
      OBVIOUS
    <2>3. /\ d \in Turns /\ d.ts = Turn.ts /\ d.session = "none" /\ d.told = Turn.told
          /\ d.timers = none /\ d.last = quiet /\ d.bad = Turn.bad /\ d.ok = Turn.ok
          /\ d.sent = Turn.sent /\ d.gate = Turn.gate
      BY <1>3, <2>1, <2>2 DEF Turns
    <2>4. Heard(d) /\ Owned(d)
      BY <1>3, <2>3 DEF Good, Sound, Heard, Owned
    <2>5. Nonces(d)
      BY <1>3, <2>1, <2>3 DEF Good, Sound, Nonces
    <2>6. Versions(d)
      <3>1. 0 \notin d.bad /\ 0 <= count.responses
        BY <1>1, <1>3, <2>3, HandlerStart DEF Good, Sound, Versions
      <3> QED BY <1>3, <2>1, <2>3, <3>1 DEF Good, Sound, Versions
    <2>7. Good(d)
      BY <2>3, <2>4, <2>5, <2>6 DEF Good, Sound, Asked, Timed
    <2>8. timers' = none /\ last' = quiet
      BY <1>4 DEF none, quiet
    <2> QED BY <1>4, <2>3, <2>7, <2>8, WorkerAfter, TurnFields
  <1>13. StreamOrder'
    BY <1>4, <1>6 DEF StreamOrder, StreamKinds
  <1>14. ResponseOrder'
    BY <1>2, <1>4, <1>6 DEF ResponseOrder, StreamKinds
  <1>15. WatchOrder'
    <2>1. \A u \in Watcher : Absent(Turn, u) => Absent(Turn, u)'
      BY <1>4, TurnFields DEF Absent
    <2>2. \A i \in DOMAIN queue', u \in Watcher :
             /\ i \in Nat \ {0} /\ i + 1 \in DOMAIN queue
             /\ Watches(i, u)' <=> Watches(i + 1, u)
             /\ Unwatches(i, u)' <=> Unwatches(i + 1, u)
      BY <1>4, <1>5 DEF Watches, Unwatches
    <2>3. ASSUME NEW u \in Watcher, NEW i \in DOMAIN queue', Watches(i, u)'
          PROVE  Absent(Turn, u)' /\ \A j \in DOMAIN queue' : Watches(j, u)' => i = j
      <3>1. Absent(Turn, u) /\ \A j \in DOMAIN queue : Watches(j, u) => i + 1 = j
        BY <1>2, <2>2, <2>3 DEF WatchOrder
      <3> QED BY <2>1, <2>2, <3>1
    <2>4. ASSUME NEW u \in Watcher, NEW i \in DOMAIN queue', NEW j \in DOMAIN queue',
                 Unwatches(i, u)', Watches(j, u)'
          PROVE  j < i
      <3>1. j + 1 < i + 1
        BY <1>2, <2>2, <2>4 DEF WatchOrder
      <3> QED BY <2>2, <3>1
    <2>5. ASSUME NEW u \in Watcher, watch[u] = None, \A i \in DOMAIN queue' : ~Unwatches(i, u)'
          PROVE  Absent(Turn, u)' /\ \A i \in DOMAIN queue' : ~Watches(i, u)'
      <3>1. \A j \in DOMAIN queue : j # 1 => j - 1 \in DOMAIN queue' /\ j = (j - 1) + 1
        BY <1>2, <1>3, <1>4, QueueTail, QueueIndices
      <3>2. ~Unwatches(1, u)
        BY <1>5 DEF Unwatches
      <3>3. \A j \in DOMAIN queue : ~Unwatches(j, u)
        BY <2>2, <2>5, <3>1, <3>2
      <3>4. Absent(Turn, u) /\ \A j \in DOMAIN queue : ~Watches(j, u)
        BY <1>2, <2>5, <3>3 DEF WatchOrder
      <3> QED BY <2>1, <2>2, <3>4
    <2> QED BY <1>4, <2>3, <2>4, <2>5 DEF WatchOrder
  <1>16. DeadTimers'
    <2>1. ASSUME NEW x \in dead' PROVE timers'[x[1]] # x[2]
      BY <1>4, <1>8, <1>9, <1>10
    <2> QED BY <1>2, <1>4, <1>7, <1>10, <2>1 DEF DeadTimers
  <1> QED BY <1>11, <1>12, <1>13, <1>14, <1>15, <1>16 DEF IInv

\* A stream comes up: none of an earlier one is left to be confused with it.
LEMMA ConnectedSound ==
    ASSUME IInv, Connected
    PROVE  IInv'
  <1>1. TypeOK /\ WorkerInv /\ StreamOrder /\ ResponseOrder /\ WatchOrder /\ DeadTimers
    BY DEF IInv
  <1>2. PICK m \in Message : m = [kind |-> "ready"]
    BY DEF Message
  <1>3. /\ life = "setup" /\ life' = "streaming" /\ Send(m) /\ m.kind = "ready"
        /\ count.streams < MaxStreams
        /\ count' = [count EXCEPT !.streams = @ + 1, !.base = count.responses]
        /\ UNCHANGED <<ts, timers, session, sent, gate, told, last, dead, bad, watch, firing>>
    BY <1>2 DEF Connected, workerVars
  <1>4. /\ count' \in [watches : 0 .. MaxWatches, streams : 0 .. MaxStreams,
                       responses : 0 .. MaxResponses, base : 0 .. MaxResponses]
        /\ count'.responses = count.responses /\ count'.base = count.responses
        /\ count.responses \in Nat
    <2>1. /\ count \in [watches : 0 .. MaxWatches, streams : 0 .. MaxStreams,
                        responses : 0 .. MaxResponses, base : 0 .. MaxResponses]
          /\ MaxStreams \in Nat /\ MaxResponses \in Nat
      BY <1>1, BoundsAssumption DEF TypeOK
    <2>2. count.streams + 1 \in 0 .. MaxStreams /\ count.responses \in 0 .. MaxResponses
      BY <1>3, <2>1
    <2>3. count' = [count EXCEPT !.streams = count.streams + 1, !.base = count.responses]
      BY <1>3
    <2>4. count'.responses = count.responses /\ count'.base = count.responses
      BY <2>1, <2>3
    <2>5. count' \in [watches : 0 .. MaxWatches, streams : 0 .. MaxStreams,
                      responses : 0 .. MaxResponses, base : 0 .. MaxResponses]
      <3>1. \A a \in 0 .. MaxStreams, b \in 0 .. MaxResponses :
               [count EXCEPT !.streams = a, !.base = b]
                  \in [watches : 0 .. MaxWatches, streams : 0 .. MaxStreams,
                       responses : 0 .. MaxResponses, base : 0 .. MaxResponses]
        BY <2>1
      <3> QED BY <2>2, <2>3, <3>1
    <2>6. count.responses \in Nat
      BY <2>1, <2>2
    <2> QED BY <2>4, <2>5, <2>6
  <1>5. session = "none" /\ \A i \in DOMAIN queue : queue[i].kind \notin StreamKinds
    BY <1>1, <1>3 DEF StreamOrder
  <1>6. TypeOK'
    BY <1>1, <1>3, <1>4, TypeAppend DEF TypeOK
  <1>7. WorkerInv'
    BY <1>1, <1>3, <1>4, <1>5, WorkerFrame
  <1>8. StreamOrder'
    <2>1. \A i \in DOMAIN queue' : queue'[i].kind # "failed"
      BY <1>1, <1>3, <1>5, Appended DEF StreamKinds
    <2> QED BY <1>3, <2>1 DEF StreamOrder
  <1>9. ResponseOrder'
    <2>1. \A i \in DOMAIN queue' : queue'[i].kind # "response"
      BY <1>1, <1>3, <1>5, Appended DEF StreamKinds
    <2> QED BY <1>4, <2>1 DEF ResponseOrder
  <1>10. WatchOrder'
    BY <1>1, <1>3, WatchAppend
  <1>11. DeadTimers'
    BY <1>1, <1>3, DeadAppend DEF DeadTimers
  <1> QED BY <1>6, <1>7, <1>8, <1>9, <1>10, <1>11 DEF IInv

\* A stream ends, or does not come up: Failed is the last the queue holds of it.
LEMMA LostSound ==
    ASSUME IInv, Lost
    PROVE  IInv'
  <1>1. TypeOK /\ WorkerInv /\ StreamOrder /\ ResponseOrder /\ WatchOrder /\ DeadTimers
    BY DEF IInv
  <1>2. PICK m \in Message : m = [kind |-> "failed"]
    BY DEF Message
  <1>3. /\ life \in {"setup", "streaming"} /\ life' = "reported" /\ Send(m) /\ m.kind = "failed"
        /\ sent' = [t \in Type |-> <<>>] /\ gate' = {}
        /\ UNCHANGED <<ts, timers, session, told, last, dead, bad, watch, firing, count>>
    BY <1>2 DEF Lost
  <1>4. sent' \in [Type -> Seq(Names)]
    BY <1>3
  <1>5. \A i \in DOMAIN queue : queue[i].kind # "failed"
    BY <1>1, <1>3 DEF StreamOrder, StreamKinds
  <1>6. TypeOK'
    BY <1>1, <1>3, <1>4, TypeAppend DEF TypeOK
  <1>7. WorkerInv'
    <2>1. count.responses \in Nat
      BY <1>1, BoundsAssumption DEF TypeOK
    <2> QED BY <1>1, <1>3, <2>1, WorkerFrame
  <1>8. StreamOrder'
    <2>1. ASSUME NEW i \in DOMAIN queue', NEW j \in DOMAIN queue', i < j,
                 queue'[i].kind = "failed"
          PROVE  FALSE
      <3>1. i \notin DOMAIN queue /\ (\A k \in DOMAIN queue : k < i) /\ i \in Nat
        BY <1>1, <1>3, <1>5, <2>1, Appended
      <3>2. i = Len(queue) + 1 /\ (j \in DOMAIN queue \/ j = Len(queue) + 1) /\ j \in Nat
        BY <1>1, <1>3, <3>1, Appended
      <3> QED BY <2>1, <3>1, <3>2
    <2> QED BY <1>3, <2>1 DEF StreamOrder
  <1>9. ResponseOrder'
    BY <1>1, <1>3, ResponseAppend
  <1>10. WatchOrder'
    BY <1>1, <1>3, WatchAppend
  <1>11. DeadTimers'
    BY <1>1, <1>3, DeadAppend DEF DeadTimers
  <1> QED BY <1>6, <1>7, <1>8, <1>9, <1>10, <1>11 DEF IInv

\* A sleep ends: its expiration is on its way.
LEMMA TimerExpiresSound ==
    ASSUME IInv, NEW k \in Keys, TimerExpires(k)
    PROVE  IInv'
  <1>1. TypeOK /\ WorkerInv /\ StreamOrder /\ ResponseOrder /\ WatchOrder /\ DeadTimers
    BY DEF IInv
  <1>2. /\ timers[k] # 0 /\ firing' = firing \cup {<<k, timers[k]>>}
        /\ UNCHANGED <<ts, timers, session, sent, gate, told, last, dead, bad, queue, life,
                       watch, count>>
    BY DEF TimerExpires, workerVars
  <1>3. TypeOK'
    <2>1. timers[k] \in Nat
      BY <1>1 DEF TypeOK
    <2>2. firing' \subseteq Keys \X (Nat \ {0})
      BY <1>1, <1>2, <2>1 DEF TypeOK
    <2> QED BY <1>1, <1>2, <2>2 DEF TypeOK
  <1>4. WorkerInv'
    <2>1. count.responses \in Nat
      BY <1>1, BoundsAssumption DEF TypeOK
    <2> QED BY <1>1, <1>2, <2>1, WorkerFrame
  <1>5. StreamOrder'
    BY <1>1, <1>2 DEF StreamOrder
  <1>6. ResponseOrder'
    BY <1>1, <1>2, TurnFields DEF ResponseOrder, Unseen
  <1>7. WatchOrder'
    BY <1>1, <1>2, TurnFields DEF WatchOrder, Watches, Unwatches, Absent
  <1>8. DeadTimers'
    <2>1. IsFiniteSet(firing')
      BY <1>1, <1>2, FS_AddElement DEF DeadTimers
    <2>2. Expirations(queue) \subseteq Expirations(queue)'
      BY <1>2 DEF Expirations
    <2> QED BY <1>1, <1>2, <2>1, <2>2 DEF DeadTimers
  <1> QED BY <1>3, <1>4, <1>5, <1>6, <1>7, <1>8 DEF IInv

\* The expiration is sent: it is still on its way.
LEMMA TimerSendsSound ==
    ASSUME IInv, NEW x \in firing, TimerSends(x)
    PROVE  IInv'
  <1>1. TypeOK /\ WorkerInv /\ StreamOrder /\ ResponseOrder /\ WatchOrder /\ DeadTimers
    BY DEF IInv
  <1>2. /\ x[1][1] \in Type /\ x[1][2] \in Name /\ x[2] \in Nat \ {0}
        /\ x = <<<<x[1][1], x[1][2]>>, x[2]>>
    BY <1>1 DEF TypeOK, Keys
  <1>3. PICK m \in Message :
            m = [kind |-> "timer", type |-> x[1][1], name |-> x[1][2], id |-> x[2]]
    BY <1>2 DEF Message
  <1>4. /\ Send(m) /\ firing' = firing \ {x}
        /\ m.kind = "timer" /\ m.type = x[1][1] /\ m.name = x[1][2] /\ m.id = x[2]
        /\ UNCHANGED <<ts, timers, session, sent, gate, told, last, dead, bad, life, watch, count>>
    BY <1>3 DEF TimerSends, workerVars
  <1>5. m.kind \notin StreamKinds
    BY <1>4 DEF StreamKinds
  <1>6. TypeOK'
    BY <1>1, <1>4, TypeAppend DEF TypeOK
  <1>7. WorkerInv'
    <2>1. count.responses \in Nat
      BY <1>1, BoundsAssumption DEF TypeOK
    <2> QED BY <1>1, <1>4, <2>1, WorkerFrame
  <1>8. StreamOrder'
    BY <1>1, <1>4, <1>5, StreamAppend
  <1>9. ResponseOrder'
    BY <1>1, <1>4, ResponseAppend
  <1>10. WatchOrder'
    BY <1>1, <1>4, WatchAppend
  <1>11. DeadTimers'
    <2>1. IsFiniteSet(firing')
      BY <1>1, <1>4, FS_RemoveElement DEF DeadTimers
    <2>2. \A y \in firing : y \in firing' \/ (m.kind = "timer" /\ y = <<<<m.type, m.name>>, m.id>>)
      BY <1>2, <1>4
    <2> QED BY <1>1, <1>4, <2>1, <2>2, DeadAppend
  <1> QED BY <1>6, <1>7, <1>8, <1>9, <1>10, <1>11 DEF IInv

\* A watch is opened: its id is of no watcher the worker knows or will hear of.
LEMMA OpenWatchSound ==
    ASSUME IInv, NEW w \in Watcher, NEW t \in Type, NEW n \in Name \cup {All},
           OpenWatch(w, t, n)
    PROVE  IInv'
  <1>1. TypeOK /\ WorkerInv /\ StreamOrder /\ ResponseOrder /\ WatchOrder /\ DeadTimers
    BY DEF IInv
  <1>2. PICK m \in Message : m = [kind |-> "watch", w |-> w, type |-> t, name |-> n]
    BY DEF Message
  <1>3. /\ watch[w] = None /\ ~Mentioned(w) /\ Send(m) /\ m.kind = "watch" /\ m.w = w
        /\ watch' = [watch EXCEPT ![w] = <<t, n>>] /\ count.watches < MaxWatches
        /\ count' = [count EXCEPT !.watches = count.watches + 1]
        /\ UNCHANGED <<ts, timers, session, sent, gate, told, last, dead, bad, life, firing>>
    BY <1>2 DEF OpenWatch, workerVars
  <1>4. m.kind \notin StreamKinds
    BY <1>3 DEF StreamKinds
  <1>5. /\ count' \in [watches : 0 .. MaxWatches, streams : 0 .. MaxStreams,
                       responses : 0 .. MaxResponses, base : 0 .. MaxResponses]
        /\ count'.responses = count.responses /\ count'.base = count.base
        /\ count.responses \in Nat
    <2>1. /\ count \in [watches : 0 .. MaxWatches, streams : 0 .. MaxStreams,
                        responses : 0 .. MaxResponses, base : 0 .. MaxResponses]
          /\ MaxWatches \in Nat /\ MaxResponses \in Nat
      BY <1>1, BoundsAssumption DEF TypeOK
    <2>2. count.watches + 1 \in 0 .. MaxWatches
      BY <1>3, <2>1
    <2>3. count'.responses = count.responses /\ count'.base = count.base
      BY <1>3, <2>1
    <2> QED BY <1>3, <2>1, <2>2, <2>3
  <1>6. watch' \in [Watcher -> (Type \X (Name \cup {All})) \cup {None}]
    BY <1>1, <1>3 DEF TypeOK
  <1>7. TypeOK'
    BY <1>1, <1>3, <1>5, <1>6, TypeAppend DEF TypeOK
  <1>8. WorkerInv'
    BY <1>1, <1>3, <1>5, WorkerFrame
  <1>9. StreamOrder'
    BY <1>1, <1>3, <1>4, StreamAppend
  <1>10. ResponseOrder'
    <2>1. \A v : Unseen(Turn, v) => Unseen(Turn, v)'
      BY <1>3, TurnFields DEF Unseen
    <2>2. \A i \in DOMAIN queue' : queue'[i].kind = "response" =>
             i \in DOMAIN queue /\ queue'[i] = queue[i]
      BY <1>1, <1>3, Appended
    <2> QED BY <1>1, <1>5, <2>1, <2>2 DEF ResponseOrder
  <1>11. WatchOrder'
    <2>1. \A u \in Watcher : Absent(Turn, u) => Absent(Turn, u)'
      BY <1>3, TurnFields DEF Absent
    <2>2. ASSUME NEW u \in Watcher, NEW i \in DOMAIN queue'
          PROVE  /\ Watches(i, u)' => (i \in DOMAIN queue /\ Watches(i, u))
                                         \/ (u = w /\ i = Len(queue) + 1)
                 /\ Unwatches(i, u)' => i \in DOMAIN queue /\ Unwatches(i, u)
      BY <1>1, <1>3, Appended DEF Watches, Unwatches
    <2>3. ASSUME NEW u \in Watcher, NEW i \in DOMAIN queue, Unwatches(i, u)
          PROVE  i \in DOMAIN queue' /\ Unwatches(i, u)'
      BY <1>1, <1>3, <2>3, Appended DEF Unwatches
    <2>4. \A i \in DOMAIN queue : ~Watches(i, w) /\ ~Unwatches(i, w)
      BY <1>3 DEF Mentioned, Watches, Unwatches
    <2>5. Absent(Turn, w)
      BY <1>1, <1>3, <2>4 DEF WatchOrder
    <2>6. ASSUME NEW u \in Watcher, NEW i \in DOMAIN queue', Watches(i, u)'
          PROVE  Absent(Turn, u)' /\ \A j \in DOMAIN queue' : Watches(j, u)' => i = j
      <3>1. CASE u = w
        BY <2>1, <2>2, <2>4, <2>5, <2>6, <3>1
      <3>2. CASE u # w
        BY <1>1, <2>1, <2>2, <2>6, <3>2 DEF WatchOrder
      <3> QED BY <3>1, <3>2
    <2>7. ASSUME NEW u \in Watcher, NEW i \in DOMAIN queue', NEW j \in DOMAIN queue',
                 Unwatches(i, u)', Watches(j, u)'
          PROVE  j < i
      BY <1>1, <2>2, <2>4, <2>7 DEF WatchOrder
    <2>8. ASSUME NEW u \in Watcher, watch'[u] = None, \A i \in DOMAIN queue' : ~Unwatches(i, u)'
          PROVE  Absent(Turn, u)' /\ \A i \in DOMAIN queue' : ~Watches(i, u)'
      <3>1. u # w /\ watch[u] = None
        <4>1. None # <<t, n>>
          BY NamesAssumption
        <4> QED BY <1>1, <1>3, <2>8, <4>1 DEF TypeOK
      <3>2. Absent(Turn, u) /\ \A i \in DOMAIN queue : ~Watches(i, u)
        BY <1>1, <2>3, <2>8, <3>1 DEF WatchOrder
      <3> QED BY <2>1, <2>2, <3>1, <3>2
    <2> QED BY <2>6, <2>7, <2>8 DEF WatchOrder
  <1>12. DeadTimers'
    BY <1>1, <1>3, DeadAppend DEF DeadTimers
  <1> QED BY <1>7, <1>8, <1>9, <1>10, <1>11, <1>12 DEF IInv

\* A watch is dropped: its Unwatch comes after its Watch.
LEMMA DropWatchSound ==
    ASSUME IInv, NEW w \in Watcher, DropWatch(w)
    PROVE  IInv'
  <1>1. TypeOK /\ WorkerInv /\ StreamOrder /\ ResponseOrder /\ WatchOrder /\ DeadTimers
    BY DEF IInv
  <1>2. PICK m \in Message : m = [kind |-> "unwatch", w |-> w]
    BY DEF Message
  <1>3. /\ Send(m) /\ m.kind = "unwatch" /\ m.w = w
        /\ watch' = [watch EXCEPT ![w] = None] /\ gate' = gate \ {w}
        /\ UNCHANGED <<ts, timers, session, sent, told, last, dead, bad, life, firing, count>>
    BY <1>2 DEF DropWatch
  <1>4. m.kind \notin StreamKinds
    BY <1>3 DEF StreamKinds
  <1>5. TypeOK'
    <2>1. watch' \in [Watcher -> (Type \X (Name \cup {All})) \cup {None}]
      BY <1>1, <1>3 DEF TypeOK
    <2>2. gate' \subseteq Watcher
      BY <1>1, <1>3 DEF TypeOK
    <2> QED BY <1>1, <1>3, <2>1, <2>2, TypeAppend DEF TypeOK
  <1>6. WorkerInv'
    <2>1. count.responses \in Nat
      BY <1>1, BoundsAssumption DEF TypeOK
    <2> QED BY <1>1, <1>3, <2>1, WorkerFrame
  <1>7. StreamOrder'
    BY <1>1, <1>3, <1>4, StreamAppend
  <1>8. ResponseOrder'
    BY <1>1, <1>3, ResponseAppend
  <1>9. WatchOrder'
    <2>1. \A u \in Watcher : Absent(Turn, u) => Absent(Turn, u)'
      BY <1>3, TurnFields DEF Absent
    <2>2. ASSUME NEW u \in Watcher, NEW i \in DOMAIN queue'
          PROVE  /\ Watches(i, u)' => i \in DOMAIN queue /\ Watches(i, u)
                 /\ Unwatches(i, u)' => (i \in DOMAIN queue /\ Unwatches(i, u))
                                           \/ (u = w /\ \A j \in DOMAIN queue : j < i)
      BY <1>1, <1>3, Appended DEF Watches, Unwatches
    <2>3. ASSUME NEW u \in Watcher, NEW i \in DOMAIN queue, Unwatches(i, u)
          PROVE  i \in DOMAIN queue' /\ Unwatches(i, u)'
      BY <1>1, <1>3, <2>3, Appended DEF Unwatches
    <2>4. ASSUME NEW u \in Watcher, NEW i \in DOMAIN queue', Watches(i, u)'
          PROVE  Absent(Turn, u)' /\ \A j \in DOMAIN queue' : Watches(j, u)' => i = j
      BY <1>1, <2>1, <2>2, <2>4 DEF WatchOrder
    <2>5. ASSUME NEW u \in Watcher, NEW i \in DOMAIN queue', NEW j \in DOMAIN queue',
                 Unwatches(i, u)', Watches(j, u)'
          PROVE  j < i
      BY <1>1, <2>2, <2>5 DEF WatchOrder
    <2>6. ASSUME NEW u \in Watcher, watch'[u] = None, \A i \in DOMAIN queue' : ~Unwatches(i, u)'
          PROVE  Absent(Turn, u)' /\ \A i \in DOMAIN queue' : ~Watches(i, u)'
      <3>1. PICK i \in DOMAIN queue' : queue'[i] = m
        BY <1>1, <1>3, QueueAppend
      <3>2. u # w
        BY <1>3, <2>6, <3>1 DEF Unwatches
      <3>3. watch[u] = None
        BY <1>1, <1>3, <2>6, <3>2 DEF TypeOK
      <3>4. Absent(Turn, u) /\ \A j \in DOMAIN queue : ~Watches(j, u)
        BY <1>1, <2>3, <2>6, <3>3 DEF WatchOrder
      <3> QED BY <2>1, <2>2, <3>4
    <2> QED BY <2>4, <2>5, <2>6 DEF WatchOrder
  <1>10. DeadTimers'
    BY <1>1, <1>3, DeadAppend DEF DeadTimers
  <1> QED BY <1>5, <1>6, <1>7, <1>8, <1>9, <1>10 DEF IInv

\* A step that touches nothing the invariant is about but the gate keeps it.
LEMMA QuietSound ==
    ASSUME IInv, gate' \subseteq Watcher,
           UNCHANGED <<ts, timers, session, sent, told, last, dead, bad, queue, life, watch,
                       firing, count>>
    PROVE  IInv'
  <1>1. TypeOK /\ WorkerInv /\ StreamOrder /\ ResponseOrder /\ WatchOrder /\ DeadTimers
    BY DEF IInv
  <1>2. TypeOK'
    BY <1>1 DEF TypeOK
  <1>3. WorkerInv'
    <2>1. count.responses \in Nat
      BY <1>1, BoundsAssumption DEF TypeOK
    <2> QED BY <1>1, <2>1, WorkerFrame
  <1>4. StreamOrder'
    BY <1>1 DEF StreamOrder
  <1>5. ResponseOrder'
    BY <1>1, TurnFields DEF ResponseOrder, Unseen
  <1>6. WatchOrder'
    BY <1>1, TurnFields DEF WatchOrder, Watches, Unwatches, Absent
  <1>7. DeadTimers'
    <2>1. Expirations(queue)' = Expirations(queue)
      BY DEF Expirations
    <2> QED BY <1>1, <2>1 DEF DeadTimers
  <1> QED BY <1>2, <1>3, <1>4, <1>5, <1>6, <1>7 DEF IInv

\* The server sends what does not decode.
LEMMA ServerSendsGarbageSound ==
    ASSUME IInv, ServerSendsGarbage
    PROVE  IInv'
  <1>1. TypeOK /\ WorkerInv /\ StreamOrder /\ ResponseOrder /\ WatchOrder /\ DeadTimers
    BY DEF IInv
  <1>2. PICK m \in Message : m = [kind |-> "response", garbage |-> TRUE]
    BY DEF Message
  <1>3. /\ life = "streaming" /\ Send(m) /\ m.kind = "response" /\ m.garbage
        /\ \A j \in DOMAIN queue : queue[j].kind # "response"
        /\ UNCHANGED <<ts, timers, session, sent, gate, told, last, dead, bad, life, watch,
                       firing, count>>
    BY <1>2 DEF ServerSendsGarbage, workerVars
  <1>4. TypeOK'
    BY <1>1, <1>3, TypeAppend DEF TypeOK
  <1>5. WorkerInv'
    <2>1. count.responses \in Nat
      BY <1>1, BoundsAssumption DEF TypeOK
    <2> QED BY <1>1, <1>3, <2>1, WorkerFrame
  <1>6. StreamOrder'
    <2>1. \A i \in DOMAIN queue' : queue'[i].kind # "failed"
      BY <1>1, <1>3, Appended DEF StreamOrder
    <2> QED BY <1>3, <2>1 DEF StreamOrder
  <1>7. ResponseOrder'
    <2>1. \A i \in DOMAIN queue' : queue'[i].kind = "response" =>
             i = Len(queue) + 1 /\ queue'[i].garbage
      BY <1>1, <1>3, Appended
    <2> QED BY <1>1, <1>3, <2>1 DEF ResponseOrder
  <1>8. WatchOrder'
    BY <1>1, <1>3, WatchAppend
  <1>9. DeadTimers'
    BY <1>1, <1>3, DeadAppend DEF DeadTimers
  <1> QED BY <1>4, <1>5, <1>6, <1>7, <1>8, <1>9 DEF IInv

\* The server responds, with a version and a nonce that it has never used.
LEMMA ServerRespondsSound ==
    ASSUME IInv, NEW t \in Type, NEW i \in DOMAIN sent[t], NEW content \in Contents,
           NEW top \in BOOLEAN, ServerResponds(t, i, content, top)
    PROVE  IInv'
  <1>1. TypeOK /\ WorkerInv /\ StreamOrder /\ ResponseOrder /\ WatchOrder /\ DeadTimers
    BY DEF IInv
  <1>2. /\ sent \in [Type -> Seq(Names)] /\ sent[t] \in Seq(Names)
        /\ Len(sent[t]) \in Nat /\ i \in 1 .. Len(sent[t]) /\ sent[t][i] \in Names
        /\ \A j \in i .. Len(sent[t]) : sent[t][j] \in Names
    <2>1. sent \in [Type -> Seq(Names)] /\ sent[t] \in Seq(Names)
      BY <1>1 DEF TypeOK
    <2> QED BY <2>1, LenProperties, ElementOfSeq
  <1>3. /\ count \in [watches : 0 .. MaxWatches, streams : 0 .. MaxStreams,
                      responses : 0 .. MaxResponses, base : 0 .. MaxResponses]
        /\ MaxResponses \in Nat /\ count.responses \in Nat /\ count.base \in Nat
    BY <1>1, BoundsAssumption DEF TypeOK
  <1>4. PICK m \in Message :
            m = [kind |-> "response", type |-> t, content |-> content, top |-> top,
                 garbage |-> FALSE, names |-> sent[t][i], id |-> count.responses + 1]
    <2>1. count.responses + 1 \in Nat \ {0}
      BY <1>3
    <2> QED BY <1>2, <2>1 DEF Message
  <1>5. /\ life = "streaming" /\ count.responses < MaxResponses
        /\ \A j \in DOMAIN queue : queue[j].kind # "response"
        /\ sent' = [sent EXCEPT ![t] = SubSeq(sent[t], i, Len(sent[t]))]
        /\ count' = [count EXCEPT !.responses = count.responses + 1]
        /\ Send(m) /\ m.kind = "response" /\ m.id = count.responses + 1
        /\ UNCHANGED <<ts, timers, session, gate, told, last, dead, bad, life, watch, firing>>
    BY <1>4 DEF ServerResponds
  <1>6. sent' \in [Type -> Seq(Names)]
    <2>1. SubSeq(sent[t], i, Len(sent[t])) \in Seq(Names)
      BY <1>2, SubSeqProperties
    <2> QED BY <1>2, <1>5, <2>1
  <1>7. /\ count' \in [watches : 0 .. MaxWatches, streams : 0 .. MaxStreams,
                       responses : 0 .. MaxResponses, base : 0 .. MaxResponses]
        /\ count'.responses = count.responses + 1 /\ count'.base = count.base
    <2>1. count.responses + 1 \in 0 .. MaxResponses
      BY <1>3, <1>5
    <2>2. count'.responses = count.responses + 1 /\ count'.base = count.base
      BY <1>3, <1>5
    <2> QED BY <1>3, <1>5, <2>1, <2>2
  <1>8. TypeOK'
    BY <1>1, <1>5, <1>6, <1>7, TypeAppend DEF TypeOK
  <1>9. WorkerInv'
    BY <1>1, <1>3, <1>5, <1>7, WorkerFrame
  <1>10. StreamOrder'
    <2>1. \A j \in DOMAIN queue' : queue'[j].kind # "failed"
      BY <1>1, <1>5, Appended DEF StreamOrder
    <2> QED BY <1>5, <2>1 DEF StreamOrder
  <1>11. ResponseOrder'
    <2>1. \A j \in DOMAIN queue' : queue'[j].kind = "response" =>
             j = Len(queue) + 1 /\ queue'[j] = m
      BY <1>1, <1>5, Appended
    <2>2. Unseen(Turn, m.id)'
      <3>1. \A v : v <= count.responses => v # m.id
        <4>1. m.id \in Nat /\ m.id = count.responses + 1
          BY <1>3, <1>5
        <4> SUFFICES ~(m.id <= count.responses)
          OBVIOUS
        <4> QED BY <1>3, <4>1
      <3>2. /\ \A x \in Type : ts[x].version <= count.responses
            /\ \A x \in Type : last[x].version <= count.responses
            /\ \A v \in bad : v <= count.responses
        BY <1>1, TurnFields DEF WorkerInv, Versions
      <3>3. m.id \notin bad /\ \A x \in Type : ts[x].version # m.id /\ last[x].version # m.id
        BY <3>1, <3>2
      <3> QED BY <1>5, <3>3, TurnFields DEF Unseen
    <2>3. count.base <= count.responses
      BY <1>1 DEF ResponseOrder
    <2>4. m.id > count'.base /\ m.id <= count'.responses /\ count'.base <= count'.responses
      BY <1>3, <1>5, <1>7, <2>3
    <2> QED BY <2>1, <2>2, <2>4 DEF ResponseOrder
  <1>12. WatchOrder'
    BY <1>1, <1>5, WatchAppend
  <1>13. DeadTimers'
    BY <1>1, <1>5, DeadAppend DEF DeadTimers
  <1> QED BY <1>8, <1>9, <1>10, <1>11, <1>12, <1>13 DEF IInv

-----------------------------------------------------------------------------
(* Theorems.                                                               *)

\* The invariant holds at the start.
LEMMA InitSound == Init => IInv
  <1> SUFFICES ASSUME Init PROVE IInv
    OBVIOUS
  <1>1. queue = <<>> /\ queue \in Seq(Message) /\ DOMAIN queue = {}
    BY DEF Init
  <1>2. NewType \in TypeStates /\ NoRequest \in Request
    BY DEF NewType, TypeStates, Interest, CacheStates, NoRequest, Request, Names
  <1>3. TypeOK
    <2>1. /\ ts \in [Type -> TypeStates] /\ last \in [Type -> Request]
          /\ timers \in [Keys -> Nat] /\ sent \in [Type -> Seq(Names)]
      BY <1>2 DEF Init
    <2>2. count \in [watches : 0 .. MaxWatches, streams : 0 .. MaxStreams,
                     responses : 0 .. MaxResponses, base : 0 .. MaxResponses]
      BY BoundsAssumption DEF Init
    <2>3. /\ watch \in [Watcher -> (Type \X (Name \cup {All})) \cup {None}]
          /\ told \in [Watcher -> CacheStates]
      BY DEF Init, CacheStates
    <2> QED BY <1>1, <2>1, <2>2, <2>3 DEF Init, TypeOK
  <1>4. /\ \A t \in Type : ts[t] = NewType /\ last[t] = NoRequest
        /\ \A w \in Watcher : NewType.watchers[w] = None
        /\ NewType.version = 0 /\ NewType.nonce = 0
        /\ NoRequest.version = 0 /\ NoRequest.nonce = 0
        /\ session = "none" /\ bad = {} /\ count.responses = 0 /\ count.base = 0
    BY DEF Init, NewType, NoRequest
  <1>5. WorkerInv
    <2>1. Asked(Turn, {}) /\ Timed(Turn, {})
      BY <1>4, TurnFields DEF Asked, Timed
    <2>2. Heard(Turn) /\ Owned(Turn)
      BY <1>4, TurnFields, NamesAssumption DEF Heard, Owned
    <2>3. Nonces(Turn) /\ Versions(Turn)
      BY <1>4, TurnFields DEF Nonces, Versions
    <2> QED BY <2>1, <2>2, <2>3 DEF WorkerInv
  <1>6. StreamOrder
    BY <1>1, <1>4 DEF StreamOrder
  <1>7. ResponseOrder
    BY <1>1, <1>4 DEF ResponseOrder
  <1>8. WatchOrder
    BY <1>1, <1>4, TurnFields DEF WatchOrder, Absent
  <1>9. DeadTimers
    BY FS_EmptySet DEF Init, DeadTimers
  <1> QED BY <1>3, <1>5, <1>6, <1>7, <1>8, <1>9 DEF IInv

\* Every step keeps the invariant.
LEMMA NextSound ==
    ASSUME IInv, [Next]_vars
    PROVE  IInv'
  <1>1. CASE Handle
    BY <1>1, HandleWatchSound, HandleUnwatchSound, HandleTimerSound, HandleReadySound,
       HandleResponseSound, HandleFailedSound DEF Handle
  <1>2. CASE Connected \/ Lost \/ ServerSendsGarbage
    BY <1>2, ConnectedSound, LostSound, ServerSendsGarbageSound
  <1>3. ASSUME NEW k \in Keys, TimerExpires(k) PROVE IInv'
    BY <1>3, TimerExpiresSound
  <1>4. ASSUME NEW x \in firing, TimerSends(x) PROVE IInv'
    BY <1>4, TimerSendsSound
  <1>5. ASSUME NEW w \in Watcher, DropWatch(w) PROVE IInv'
    BY <1>5, DropWatchSound
  <1>6. ASSUME NEW w \in Watcher, DropDone(w) PROVE IInv'
    <2>1. gate' \subseteq Watcher
      BY <1>6 DEF DropDone, IInv, TypeOK
    <2> QED BY <1>6, <2>1, QuietSound DEF DropDone
  <1>7. ASSUME NEW w \in Watcher, NEW t \in Type, NEW n \in Name \cup {All}, OpenWatch(w, t, n)
        PROVE  IInv'
    BY <1>7, OpenWatchSound
  <1>8. ASSUME NEW t \in Type, NEW content \in Contents, NEW top \in BOOLEAN,
               NEW i \in DOMAIN sent[t], ServerResponds(t, i, content, top)
        PROVE  IInv'
    BY <1>8, ServerRespondsSound
  <1>9. CASE UNCHANGED vars
    <2>1. gate' \subseteq Watcher
      BY <1>9 DEF vars, workerVars, IInv, TypeOK
    <2>2. UNCHANGED <<ts, timers, session, sent, told, last, dead, bad, queue, life, watch,
                      firing, count>>
      BY <1>9 DEF vars, workerVars
    <2> QED BY <2>1, <2>2, QuietSound
  <1> QED BY <1>1, <1>2, <1>3, <1>4, <1>5, <1>6, <1>7, <1>8, <1>9 DEF Next

\* The inductive invariant holds in every reachable state of the worker.
THEOREM Invariant == SafetySpec => []IInv
  <1>1. IInv /\ [Next]_vars => IInv'
    BY NextSound
  <1> QED BY InitSound, <1>1, PTL DEF SafetySpec

\* Type correctness of the worker's state, its queue and its stream.
THEOREM TypeCorrect == SafetySpec => []TypeOK
  <1>1. IInv => TypeOK
    BY DEF IInv
  <1> QED BY Invariant, <1>1, PTL

\* handle_command, handle_transport_event: on a stream in use the last request of a
\* type names exactly what its watchers want.
THEOREM StreamKnowsSubscription == SafetySpec => []SubscriptionSent
  <1>1. IInv => SubscriptionSent
    BY TurnFields DEF IInv, WorkerInv, Asked, SubscriptionSent
  <1> QED BY Invariant, <1>1, PTL

\* handle_transport_event (Ready) clears the nonces: none crosses from stream to stream.
THEOREM NoncesAreOfThisStream == SafetySpec => []NonceFresh
  <1>1. IInv => NonceFresh
    BY TurnFields DEF IInv, WorkerInv, Nonces, NonceFresh
  <1> QED BY Invariant, <1>1, PTL

\* handle_response: no request claims a version that was NACKed.
THEOREM VersionsWereAccepted == SafetySpec => []VersionAccepted
  <1>1. IInv => VersionAccepted
    BY TurnFields DEF IInv, WorkerInv, Versions, VersionAccepted
  <1> QED BY Invariant, <1>1, PTL

\* start_pending_resource_timers: unless resource_initial_timeout is None, on a stream
\* in use every wait has a timer.
THEOREM WaitsAreTimed == SafetySpec => []TimersCover
  <1>1. IInv => TimersCover
    BY TurnFields DEF IInv, WorkerInv, Timed, TimersCover
  <1> QED BY Invariant, <1>1, PTL

\* add_watcher, dispatch_resources, handle_resource_timeout: watchers have been told
\* what is cached.
THEOREM WatchersAreTold == SafetySpec => []ToldWhatIsCached
  <1>1. IInv => ToldWhatIsCached
    BY TurnFields DEF IInv, WorkerInv, Heard, ToldWhatIsCached
  <1> QED BY Invariant, <1>1, PTL

\* handle_resource_timeout: no resource is declared missing by an expiration whose
\* timer had been cancelled.
THEOREM CancelledTimersAreIgnored == SafetySpec => NoEarlyTimeout
  <1>1. ASSUME IInv, NEW t \in Type, NEW n \in Name, HandleTimer,
               ts'[t].cache[n] # ts[t].cache[n]
        PROVE  <<<<t, n>>, Head(queue).id>> \notin dead
    <2>1. HeadIs("timer")
      BY <1>1 DEF HandleTimer
    <2>2. PICK x, m, id : x = Head(queue).type /\ m = Head(queue).name /\ id = Head(queue).id
      OBVIOUS
    <2>3. x \in Type /\ m \in Name /\ id \in Nat \ {0}
      BY <1>1, <2>1, <2>2, HandlerStart, MessageFields
    <2>4. PICK c : c = Timeout(Turn, x, m, id)
      OBVIOUS
    <2>5. Finish(c, TRUE)
      BY <1>1, <2>2, <2>4 DEF HandleTimer
    <2>6. Good(Turn)
      BY <1>1, <2>1, HandlerStart
    <2>7. Good(c) /\ TimedOut(Turn, c, x, m, id)
      BY <2>3, <2>4, <2>6, TimeoutGood
    <2>8. ts' = c.ts
      <3>1. c \in Turns
        BY <2>7 DEF Good, Sound
      <3>2. Retire(c).ts = c.ts
        BY <3>1 DEF Retire, CancelAll, Turns
      <3> QED BY <2>5, <3>2 DEF Finish
    <2>9. t = x /\ n = m /\ timers[<<t, n>>] = id
      BY <1>1, <2>7, <2>8, TurnFields DEF TimedOut
    <2>10. ASSUME <<<<t, n>>, id>> \in dead PROVE FALSE
      <3>1. timers[<<t, n>>] # id
        BY <1>1, <2>10 DEF IInv, DeadTimers
      <3> QED BY <2>9, <3>1
    <2> QED BY <2>2, <2>10
  <1>2. IInv /\ [Next]_vars =>
            [\A t \in Type, n \in Name :
                /\ HandleTimer
                /\ ts'[t].cache[n] # ts[t].cache[n]
                => <<<<t, n>>, Head(queue).id>> \notin dead]_vars
    BY <1>1
  <1> QED BY Invariant, <1>2, PTL DEF SafetySpec, NoEarlyTimeout

=============================================================================
