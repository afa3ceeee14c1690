------------------------------ MODULE AdsWorker ------------------------------
(***************************************************************************)
(* The xDS client's ADS worker (xds-client/src/client/worker.rs): an actor *)
(* that owns subscriptions, resource cache, versions, nonces and resource  *)
(* timers, and takes watcher commands, timer expirations and transport     *)
(* events from one FIFO queue; the transport lifecycle task that opens,    *)
(* reads, writes and reopens the stream; the watchers; and a management    *)
(* server (external) that answers some request it has been sent.           *)
(*                                                                         *)
(* A type without watchers has no TypeState in the code; here it has the   *)
(* initial one.  Versions and nonces are the number of the response that   *)
(* carried them, 0 is the empty string.                                    *)
(***************************************************************************)
EXTENDS Naturals, Sequences, FiniteSets

CONSTANTS Type, Name, Watcher,
          AllRequired,    \* types with ALL_RESOURCES_REQUIRED_IN_SOTW
          All, None,      \* the wildcard; no subscription
          ResourceInitialTimeout,  \* whether resource_initial_timeout is set (not None)
          MaxQueue,       \* bound on queued commands before producers wait
          MaxWatches,     \* bound on watches opened
          MaxStreams,     \* bound on streams opened: the last one stays up
          MaxResponses    \* bound on responses

ASSUME NamesAssumption ==
    /\ AllRequired \subseteq Type
    /\ {All, None} \cap Name = {} /\ All # None
    /\ None \notin Type \X (Name \cup {All})

ASSUME TimeoutAssumption == ResourceInitialTimeout \in BOOLEAN

ASSUME BoundsAssumption ==
    {MaxQueue, MaxWatches, MaxStreams, MaxResponses} \subseteq Nat \ {0}

VARIABLES
    ts,         \* AdsWorker.type_states
    timers,     \* AdsWorker.resource_timers: id of the timer, 0 if none
    session,    \* StreamContext.session: none, active, or retired (cancel dropped)
    queue,      \* the command channel
    life,       \* where the lifecycle task is
    sent,       \* subscriptions written to this stream, from what the server read last
    gate,       \* watchers that still hold a ProcessingDone of this stream
    watch,      \* the application's open ResourceWatchers
    firing,     \* timer tasks past their sleep that have not sent yet
    told,       \* the last event a watcher was sent about its resource
    last,       \* history: the last request of each type on this stream
    dead,       \* history: expirations on their way whose timer was cancelled
    bad,        \* history: versions that were rejected
    count       \* watches, streams and responses so far, and before this stream

workerVars == <<ts, timers, session, sent, gate, told, last, dead, bad>>
vars == <<workerVars, queue, life, watch, firing, count>>

Keys == Type \X Name

CacheStates == {"none", "Requested", "Received", "NACKed", "DoesNotExist"}

\* A name, the wildcard, or nothing.
Interest == Name \cup {All, None}

TypeStates == [version : Nat, nonce : Nat, watchers : [Watcher -> Interest],
               cache : [Name -> CacheStates]]

NewType == [version |-> 0, nonce |-> 0, watchers |-> [w \in Watcher |-> None],
            cache |-> [n \in Name |-> "none"]]

Names == SUBSET (Name \cup {All})

Request == [names : Names, version : Nat, nonce : Nat]

NoRequest == [names |-> {}, version |-> 0, nonce |-> 0]

\* What a response says of each resource: external.
Contents == [Name -> {"absent", "valid", "invalid"}]

\* WorkerCommand and TransportEvent.
Message ==
    [kind : {"watch"}, w : Watcher, type : Type, name : Name \cup {All}]
        \cup [kind : {"unwatch"}, w : Watcher]
        \cup [kind : {"timer"}, type : Type, name : Name, id : Nat \ {0}]
        \cup [kind : {"ready", "failed"}]
        \cup [kind : {"response"}, garbage : {TRUE}]
        \cup [kind : {"response"}, garbage : {FALSE}, type : Type, content : Contents,
              top : BOOLEAN, names : Names, id : Nat \ {0}]

TypeOK ==
    /\ ts \in [Type -> TypeStates]
    /\ timers \in [Keys -> Nat]
    /\ session \in {"none", "active", "retired"}
    /\ life \in {"unspawned", "setup", "streaming", "reported"}
    /\ queue \in Seq(Message)
    /\ sent \in [Type -> Seq(Names)]
    /\ gate \subseteq Watcher
    /\ watch \in [Watcher -> (Type \X (Name \cup {All})) \cup {None}]
    /\ firing \subseteq (Keys \X (Nat \ {0}))
    /\ told \in [Watcher -> CacheStates]
    /\ last \in [Type -> Request]
    /\ dead \subseteq (Keys \X Nat) /\ bad \subseteq Nat
    /\ count \in [watches : 0 .. MaxWatches, streams : 0 .. MaxStreams,
                  responses : 0 .. MaxResponses, base : 0 .. MaxResponses]

Init ==
    /\ ts = [t \in Type |-> NewType]
    /\ timers = [k \in Keys |-> 0]
    /\ session = "none"
    /\ queue = <<>>
    /\ life = "unspawned"
    /\ sent = [t \in Type |-> <<>>]
    /\ gate = {}
    /\ watch = [w \in Watcher |-> None]
    /\ firing = {}
    /\ told = [w \in Watcher |-> "none"]
    /\ last = [t \in Type |-> NoRequest]
    /\ dead = {}
    /\ bad = {}
    /\ count = [watches |-> 0, streams |-> 0, responses |-> 0, base |-> 0]

-----------------------------------------------------------------------------
(* The worker's methods, as functions of a turn: the worker's state and    *)
(* whether the result is still Ok.                                         *)

Turn == [ts |-> ts, timers |-> timers, session |-> session,
         sent |-> sent, gate |-> gate, told |-> told, last |-> last,
         bad |-> bad, ok |-> TRUE]

Watchers(s) == {w \in Watcher : s.watchers[w] # None}

\* Mutant: watchers that are gone are counted in.
SubscriptionOfAll(s) == {s.watchers[w] : w \in Watcher}

\* recalculate_subscriptions: {All} is SubscriptionMode::Wildcard.
Subscription(s) ==
    IF \E w \in Watcher : s.watchers[w] = All THEN {All}
    ELSE {s.watchers[w] : w \in Watchers(s)}

\* Mutant: only additions count as a change.
NamesAdded(old, new) == ~(Subscription(new) \subseteq Subscription(old))

\* subscriptions_changed.
Changed(old, new) == Subscription(new) # Subscription(old)

Covers(names, n) == n \in names \/ All \in names

\* matching_watchers.
Matching(s, n) == {w \in Watcher : s.watchers[w] \in {n, All}}

\* Timers of type t, or all of them, are cancelled.
CancelType(c, t) ==
    [c EXCEPT !.timers = [k \in Keys |-> IF k[1] = t THEN 0 ELSE @[k]]]

CancelAll(c) == [c EXCEPT !.timers = [k \in Keys |-> 0]]

\* Expirations that have been or will be sent to the worker.
Expirations(q) ==
    firing \cup {<<<<q[i].type, q[i].name>>, q[i].id>> :
                    i \in {j \in DOMAIN q : q[j].kind = "timer"}}

\* An id for a new timer of k.  The code counts up; ids are only compared with
\* those of expirations of the same resource, so the least of the others will do.
FreshId(k) ==
    CHOOSE id \in 1 .. Cardinality(Expirations(queue)) + 1 :
        /\ <<k, id>> \notin Expirations(queue)
        /\ \A j \in 1 .. id - 1 : <<k, j>> \in Expirations(queue)

\* Mutant: no timer is started while another of the type is running.
StartFirstTimers(c, T) ==
    LET due == {k \in T \X Name : /\ ResourceInitialTimeout
                                  /\ c.ts[k[1]].cache[k[2]] = "Requested"
                                  /\ \E w \in Watcher : c.ts[k[1]].watchers[w] = k[2]
                                  /\ \A m \in Name : c.timers[<<k[1], m>>] = 0}
    IN  [c EXCEPT !.timers = [k \in Keys |-> IF k \in due THEN FreshId(k) ELSE @[k]]]

\* start_pending_resource_timers, of the types T: none if the timeout is disabled,
\* and running timers are kept.
StartTimers(c, T) ==
    LET due == {k \in T \X Name : /\ ResourceInitialTimeout
                                  /\ c.ts[k[1]].cache[k[2]] = "Requested"
                                  /\ \E w \in Watcher : c.ts[k[1]].watchers[w] = k[2]
                                  /\ c.timers[k] = 0}
    IN  [c EXCEPT !.timers = [k \in Keys |-> IF k \in due THEN FreshId(k) ELSE @[k]]]

\* The request a TypeState makes.
RequestOf(s) == [names |-> Subscription(s), version |-> s.version, nonce |-> s.nonce]

\* Repeating a subscription leaves the server where it was.
Queued(subs, names) ==
    IF subs # <<>> /\ subs[Len(subs)] = names THEN subs ELSE Append(subs, names)

\* A request of each of the types T is queued for the stream, unless its write
\* loop is gone.
Write(c, T) ==
    IF life # "streaming" THEN [c EXCEPT !.ok = FALSE]
    ELSE [c EXCEPT
             !.sent = [t \in Type |-> IF t \in T THEN Queued(@[t], Subscription(c.ts[t]))
                                     ELSE @[t]],
             !.last = [t \in Type |-> IF t \in T THEN RequestOf(c.ts[t]) ELSE @[t]]]

\* Mutant: the request starts no timers.
SendRequestOnly(c, T) ==
    LET asking == {t \in T : Watchers(c.ts[t]) # {}}
    IN  IF asking = {} THEN c ELSE Write(c, asking)

\* send_request for each of the types T: nothing for a type that is gone.
SendRequest(c, T) ==
    LET asking == {t \in T : Watchers(c.ts[t]) # {}}
        d == Write(c, asking)
    IN  IF asking = {} THEN c
        ELSE IF d.ok THEN StartTimers(d, asking) ELSE d

\* Mutant: only good news is replayed.
ReceivedEvent(state) == IF state = "Received" THEN state ELSE "none"

\* CachedResource::to_event: what a cached state says to a watcher.
CachedEvent(state) == IF state = "Requested" THEN "none" ELSE state

\* add_watcher, and what handle_command does after it.
AddWatcher(c, w, t, n) ==
    LET s == c.ts[t]
        d == [c EXCEPT !.ts[t].watchers[w] = n,
                       !.ts[t].cache = [m \in Name |-> IF m = n /\ @[m] = "none"
                                                       THEN "Requested" ELSE @[m]],
                       !.told[w] = IF n = All THEN "none" ELSE CachedEvent(s.cache[n])]
    IN  IF c.session # "active" THEN d
        ELSE IF Changed(s, d.ts[t]) THEN SendRequest(d, {t})
        ELSE StartTimers(d, {t})

\* remove_watcher: the last one takes the TypeState and its timers with it.
RemoveWatcher(c, w) ==
    LET owners == {t \in Type : c.ts[t].watchers[w] # None}
    IN  IF owners = {} THEN c
        ELSE LET t == CHOOSE x \in owners : TRUE
                 s == [c.ts[t] EXCEPT !.watchers[w] = None]
                 gone == Watchers(s) = {}
                 d == [c EXCEPT !.ts[t] = IF gone THEN NewType ELSE s, !.told[w] = "none"]
                 e == IF gone THEN CancelType(d, t) ELSE d
             IN  IF c.session = "active" /\ Changed(c.ts[t], s)
                 THEN SendRequest(e, {t}) ELSE e

\* Mutant: any expiration of a resource's timer counts.
TimeoutOfAny(c, t, n, id) ==
    IF c.timers[<<t, n>>] = 0 THEN c
    ELSE LET d == [c EXCEPT !.timers[<<t, n>>] = 0]
             s == c.ts[t]
         IN  IF Watchers(s) = {} \/ s.cache[n] \notin {"none", "Requested"} THEN d
             ELSE [d EXCEPT !.ts[t].cache[n] = "DoesNotExist",
                            !.told = [w \in Watcher |-> IF s.watchers[w] = n
                                                        THEN "DoesNotExist" ELSE @[w]]]

\* handle_resource_timeout.
Timeout(c, t, n, id) ==
    IF c.timers[<<t, n>>] # id THEN c
    ELSE LET d == [c EXCEPT !.timers[<<t, n>>] = 0]
             s == c.ts[t]
         IN  IF Watchers(s) = {} \/ s.cache[n] \notin {"none", "Requested"} THEN d
             ELSE [d EXCEPT !.ts[t].cache[n] = "DoesNotExist",
                            !.told = [w \in Watcher |-> IF s.watchers[w] = n
                                                        THEN "DoesNotExist" ELSE @[w]]]

\* The cache after a response: dispatch_resources, notify_resource_error, then
\* detect_deleted_resources.
CacheAfter(t, cache, content) ==
    [n \in Name |->
        CASE content[n] = "valid" -> "Received"
          [] content[n] = "invalid" -> "NACKed"
          [] OTHER -> IF t \in AllRequired /\ cache[n] = "Received"
                      THEN "DoesNotExist" ELSE cache[n]]

\* Mutant: a rejected version replaces the accepted one.
VersionOfLast(old, new, nack) == new

\* version_info moves on an ACK only.
VersionAfter(old, new, nack) == IF nack THEN old ELSE new

\* handle_response: cache, events and timers, the nonce, then ACK or NACK.
Response(c, r) ==
    LET t == r.type
        s == c.ts[t]
        cache == CacheAfter(t, s.cache, r.content)
        seen == {n \in Name : r.content[n] # "absent"}
        notified == seen \cup {n \in Name : cache[n] # s.cache[n]}
        nack == r.top \/ \E n \in Name : r.content[n] = "invalid"
        d == [c EXCEPT
                 !.ts[t] = [s EXCEPT !.nonce = r.id, !.cache = cache,
                                     !.version = VersionAfter(@, r.id, nack)],
                 !.timers = [k \in Keys |-> IF k[1] = t /\ k[2] \in seen THEN 0 ELSE @[k]],
                 !.told = [w \in Watcher |-> IF s.watchers[w] \in notified
                                             THEN cache[s.watchers[w]] ELSE @[w]],
                 !.gate = IF life = "streaming"
                          THEN UNION {Matching(s, n) : n \in notified} ELSE {},
                 !.bad = IF nack THEN @ \cup {r.id} ELSE @]
    IN  IF Watchers(s) = {} THEN c
        ELSE Write(d, {t})

\* Every failure retires the stream.
Retire(c) == IF c.ok \/ c.session = "none" THEN c
             ELSE CancelAll([c EXCEPT !.session = "retired"])

\* Mutant: the nonces of the last stream are used on the next.
KeepNonces(c) == [c EXCEPT !.session = "active"]

\* Ready: nonces are forgotten and every type asks again.
ClearNonces(c) ==
    [c EXCEPT !.ts = [t \in Type |-> [c.ts[t] EXCEPT !.nonce = 0]], !.session = "active"]

Ready(c) == SendRequest(ClearNonces(c), Type)

\* Expirations still on their way of timers that are not in the map.
Bury(running) ==
    dead' = {x \in Expirations(Tail(queue)) : x \in dead \/ running[x[1]] # x[2]}

\* The head of the queue has been handled.
Finish(c, spawn) ==
    LET d == Retire(c)
    IN  /\ ts' = d.ts /\ timers' = d.timers
        /\ session' = d.session /\ sent' = d.sent /\ gate' = d.gate /\ told' = d.told
        /\ last' = d.last /\ bad' = d.bad /\ Bury(d.timers)
        /\ queue' = Tail(queue)
        /\ life' = IF spawn /\ life = "unspawned" /\ \E t \in Type : Watchers(d.ts[t]) # {}
                   THEN "setup" ELSE life
        /\ UNCHANGED <<watch, firing, count>>

HeadIs(kind) == queue # <<>> /\ Head(queue).kind = kind

HandleWatch ==
    /\ HeadIs("watch")
    /\ Finish(AddWatcher(Turn, Head(queue).w, Head(queue).type, Head(queue).name), TRUE)

HandleUnwatch == HeadIs("unwatch") /\ Finish(RemoveWatcher(Turn, Head(queue).w), TRUE)

HandleTimer ==
    /\ HeadIs("timer")
    /\ Finish(Timeout(Turn, Head(queue).type, Head(queue).name, Head(queue).id), TRUE)

HandleReady == HeadIs("ready") /\ Finish(Ready(Turn), FALSE)

\* A response of a retired stream is ignored, one that does not decode retires it.
HandleResponse ==
    /\ HeadIs("response")
    /\ Finish(IF session # "active" THEN Turn
              ELSE IF Head(queue).garbage THEN [Turn EXCEPT !.ok = FALSE]
              ELSE Response(Turn, Head(queue)), FALSE)

\* The reply to Failed lets the lifecycle task go on, after its backoff.
HandleFailed ==
    /\ HeadIs("failed")
    /\ LET c == CancelAll([Turn EXCEPT !.session = "none"])
       IN  /\ timers' = c.timers /\ session' = c.session /\ Bury(c.timers)
    /\ life' = "setup"
    /\ queue' = Tail(queue)
    /\ last' = [t \in Type |-> NoRequest]
    /\ UNCHANGED <<ts, sent, gate, told, bad, watch, firing, count>>

Handle == \/ HandleWatch \/ HandleUnwatch \/ HandleTimer
          \/ HandleReady \/ HandleResponse \/ HandleFailed

-----------------------------------------------------------------------------
(* The lifecycle task and the timers.                                      *)

Send(m) == queue' = Append(queue, m)

\* new_stream succeeded.
Connected ==
    /\ life = "setup" /\ count.streams < MaxStreams
    /\ life' = "streaming"
    /\ Send([kind |-> "ready"])
    /\ count' = [count EXCEPT !.streams = @ + 1, !.base = count.responses]
    /\ UNCHANGED <<workerVars, watch, firing>>

\* It did not, or the stream ended: by itself, by a failed read or write, or
\* cancelled by the worker.  Tokens of a dead stream hold nothing up.
Lost ==
    /\ \/ life = "setup"
       \/ life = "streaming" /\ count.streams < MaxStreams
    /\ life' = "reported"
    /\ Send([kind |-> "failed"])
    /\ sent' = [t \in Type |-> <<>>]
    /\ gate' = {}
    /\ UNCHANGED <<ts, timers, session, told, last, dead, bad, watch, firing, count>>

\* The sleep of a running timer ends ...
TimerExpires(k) ==
    /\ timers[k] # 0 /\ <<k, timers[k]>> \notin Expirations(queue)
    /\ firing' = firing \cup {<<k, timers[k]>>}
    /\ UNCHANGED <<workerVars, queue, life, watch, count>>

\* ... and from then on cancelling it is too late.
TimerSends(x) ==
    /\ x \in firing /\ Len(queue) < MaxQueue
    /\ Send([kind |-> "timer", type |-> x[1][1], name |-> x[1][2], id |-> x[2]])
    /\ firing' = firing \ {x}
    /\ UNCHANGED <<workerVars, life, watch, count>>

-----------------------------------------------------------------------------
(* Watchers and the management server.                                     *)

Mentioned(w) == \E i \in DOMAIN queue : queue[i].kind \in {"watch", "unwatch"}
                                        /\ queue[i].w = w

\* XdsClient::watch.
OpenWatch(w, t, n) ==
    /\ watch[w] = None /\ ~Mentioned(w)
    /\ Len(queue) < MaxQueue /\ count.watches < MaxWatches
    /\ watch' = [watch EXCEPT ![w] = <<t, n>>]
    /\ count' = [count EXCEPT !.watches = @ + 1]
    /\ Send([kind |-> "watch", w |-> w, type |-> t, name |-> n])
    /\ UNCHANGED <<workerVars, life, firing>>

\* Dropping a ResourceWatcher drops its events, and the tokens in them.
DropWatch(w) ==
    /\ watch[w] # None /\ Len(queue) < MaxQueue
    /\ watch' = [watch EXCEPT ![w] = None]
    /\ gate' = gate \ {w}
    /\ Send([kind |-> "unwatch", w |-> w])
    /\ UNCHANGED <<ts, timers, session, sent, told, last, dead, bad, life,
                   firing, count>>

\* A watcher is done with its events.
DropDone(w) ==
    /\ w \in gate
    /\ gate' = gate \ {w}
    /\ UNCHANGED <<ts, timers, session, sent, told, last, dead, bad, queue,
                   life, watch, firing, count>>

\* The server answers the i-th of the subscriptions on the stream, and forgets
\* the ones before it; the read loop takes a response when the last is processed.
ServerResponds(t, i, content, top) ==
    /\ life = "streaming" /\ count.responses < MaxResponses /\ Len(queue) < MaxQueue
    /\ gate = {} /\ ~\E j \in DOMAIN queue : queue[j].kind = "response"
    /\ i \in DOMAIN sent[t]
    /\ \A n \in Name : content[n] # "absent" => Covers(sent[t][i], n)
    /\ top => \A n \in Name : content[n] # "invalid"   \* one reason to NACK is enough
    /\ sent' = [sent EXCEPT ![t] = SubSeq(@, i, Len(@))]
    /\ count' = [count EXCEPT !.responses = @ + 1]
    /\ Send([kind |-> "response", type |-> t, content |-> content, top |-> top,
             garbage |-> FALSE, names |-> sent[t][i], id |-> count.responses + 1])
    /\ UNCHANGED <<ts, timers, session, gate, told, last, dead, bad, life,
                   watch, firing>>

\* It sends something that is not a DiscoveryResponse.
ServerSendsGarbage ==
    /\ life = "streaming" /\ count.streams < MaxStreams /\ Len(queue) < MaxQueue
    /\ gate = {} /\ ~\E j \in DOMAIN queue : queue[j].kind = "response"
    /\ Send([kind |-> "response", garbage |-> TRUE])
    /\ UNCHANGED <<workerVars, life, watch, firing, count>>

Next ==
    \/ Handle
    \/ Connected \/ Lost \/ ServerSendsGarbage
    \/ \E k \in Keys : TimerExpires(k)
    \/ \E x \in firing : TimerSends(x)
    \/ \E w \in Watcher : DropWatch(w) \/ DropDone(w)
    \/ \E w \in Watcher, t \in Type, n \in Name \cup {All} : OpenWatch(w, t, n)
    \/ \E t \in Type, content \in Contents, top \in BOOLEAN :
          \E i \in DOMAIN sent[t] : ServerResponds(t, i, content, top)

SafetySpec == Init /\ [][Next]_vars

\* The worker drains its queue, timers run out, a stream the worker cancelled ends,
\* and a server that can be reached again and again is reached.  The server owes
\* no response, and watchers may keep their tokens.
Fairness ==
    /\ WF_vars(Handle)
    /\ SF_vars(Connected)
    /\ WF_vars(session = "retired" /\ Lost)
    /\ \A k \in Keys : WF_vars(TimerExpires(k))
    /\ WF_vars(\E x \in firing : TimerSends(x))

Spec == SafetySpec /\ Fairness

-----------------------------------------------------------------------------
(* Properties.                                                             *)

\* The stream knows what the watchers want: on a stream in use, the last request
\* for a type with watchers names exactly their current subscription, whatever
\* came and went before the stream was up, while it was, or between streams.
SubscriptionSent ==
    session = "active" =>
        \A t \in Type : Watchers(ts[t]) # {} => last[t].names = Subscription(ts[t])

\* No request carries a nonce of an earlier stream.
NonceFresh ==
    \A t \in Type : last[t].nonce # 0 => last[t].nonce > count.base

\* "NACK must keep the old version so the server knows which version the client is
\* still running": no request ever claims a version that was rejected.
VersionAccepted == \A t \in Type : last[t].version \notin bad

\* gRFC A57: unless resource_initial_timeout is None ("Set to `None` to disable the
\* timeout"), every resource that a watcher waits for on a stream in use has a timer
\* that will end the wait.
TimersCover ==
    ResourceInitialTimeout /\ session = "active" =>
        \A t \in Type, w \in Watcher, n \in Name :
            ts[t].watchers[w] = n /\ ts[t].cache[n] = "Requested" => timers[<<t, n>>] # 0

\* A watcher has been told exactly what is cached for its resource, whether it
\* came before or after the response, the error, the deletion or the timeout.
ToldWhatIsCached ==
    \A t \in Type, w \in Watcher, n \in Name :
        ts[t].watchers[w] = n =>
            told[w] = (IF ts[t].cache[n] = "Requested" THEN "none" ELSE ts[t].cache[n])

\* A resource is declared missing by a timeout only when the expiration is that of
\* a timer nobody cancelled: one that survived a reconnect, or the removal of the
\* type's last watcher, in a queue or on another thread, says nothing.
NoEarlyTimeout ==
    [][\A t \in Type, n \in Name :
          /\ HandleTimer
          /\ ts'[t].cache[n] # ts[t].cache[n]
          => <<<<t, n>>, Head(queue).id>> \notin dead]_vars

\* "Resource does not exist (server indicated deletion or absence)": a watcher is
\* told so by a response only if the request answered had asked for the resource.
ServerIndicatedAbsence ==
    [][\A w \in Watcher, t \in Type, n \in Name :
          /\ HandleResponse
          /\ ts[t].watchers[w] = n
          /\ told[w] = "Received" /\ told'[w] = "DoesNotExist"
          => Covers(Head(queue).names, n)]_vars

\* Unless resource_initial_timeout is None, every named watch hears of its resource,
\* from the cache, the server or a timeout, or is given up.  Without the timeout a
\* server that stays silent leaves a watch waiting.
Answered ==
    ResourceInitialTimeout =>
        \A w \in Watcher :
            (watch[w] # None /\ watch[w][2] # All) ~> (told[w] # "none" \/ watch[w] = None)
=============================================================================
