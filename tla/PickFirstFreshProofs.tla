------------------------ MODULE PickFirstFreshProofs ------------------------
(***************************************************************************)
(* Theorems about a PickFirst that has not been handed a subchannel in use *)
(* (reused is FALSE): it never panics, publishes READY exactly while it    *)
(* has a selection, and does not get stuck.                                *)
(*                                                                         *)
(* The argument follows the state of each address from the policy's cache  *)
(* through the updates queued for the policy, the sharing layer's entry    *)
(* and the internal updates to the subchannel itself: a path of documented *)
(* transitions, except that the policy notes CONNECTING as soon as it has  *)
(* told an idle subchannel to connect.                                     *)
(***************************************************************************)
EXTENDS PickFirstProofs

\* The documented transitions, and what the policy may be told next: an address it
\* takes for CONNECTING may still have to report that it is.
MovesFrom(s) ==
    IF s = "IDLE" THEN {"CONNECTING"}
    ELSE IF s = "CONNECTING" THEN {"READY", "TRANSIENT_FAILURE"}
    ELSE {"IDLE"}

After(s) == IF s = "CONNECTING" THEN MovesFrom(s) \cup {s} ELSE MovesFrom(s)

\* The first item of K in q, if there is one, carries a state of S.
FirstIn(q, K, S) ==
    \A i \in DOMAIN q :
        q[i] \in K /\ (\A j \in DOMAIN q : q[j] \in K => i <= j) => q[i].state \in S

\* Each item of K in q carries a state that follows the one before.
Linked(q, K) ==
    \A i, j \in DOMAIN q :
        /\ q[i] \in K /\ q[j] \in K /\ i < j
        /\ \A k \in DOMAIN q : q[k] \in K => k <= i \/ j <= k
        => q[j].state \in MovesFrom(q[i].state)

Listed(p) == AddrOf(Exts(p.list))

\* connect() will find the subchannel of a idle.
Starts(co, su, a) == a \in Range(co) /\ su[a] = "IDLE"

\* Something about a is on its way to the policy, or about to be.
Waits(co, q, su, a) == Has(q, ExtOf(a)) \/ Has(q, IntOf(a)) \/ Starts(co, su, a)

\* The cached state of a leads to the first update queued for it, or is that of the
\* entry; a failure has left its error.
Learns(p, co, q, en, su, a) ==
    /\ p.cache[a] \in States
    /\ FirstIn(q, ExtOf(a), After(p.cache[a]))
    /\ ~Has(q, ExtOf(a)) =>
          \/ p.cache[a] = en[a]
          \/ /\ p.cache[a] = "CONNECTING" /\ en[a] = "IDLE"
             /\ Has(q, IntOf(a)) \/ Starts(co, su, a)
    /\ p.cache[a] = "TRANSIENT_FAILURE" => p.err

\* Nothing happens to a until the policy tells it to connect.
Quiet(p, co, q, su, a) ==
    p.cache[a] = "IDLE" /\ su[a] = "IDLE" /\ ~Waits(co, q, su, a)

\* The selected subchannel is the one that is READY; the other addresses are quiet.
Selection(p, co, q, su) ==
    /\ p.sel # {} <=> p.conn = "READY"
    /\ \A a \in Listed(p) : p.cache[a] = "READY" <=> a \in AddrOf(p.sel)
    /\ p.sel # {} =>
          /\ p.timer = "none"
          /\ \A a \in Listed(p) \ AddrOf(p.sel) : Quiet(p, co, q, su, a)

\* A policy that queues calls is at an address that connects, or past the list with
\* one that does; one that fails them is past the list, and each idle subchannel, or
\* some subchannel at least, has something to report.
Progress(p, co, q, su) ==
    /\ p.steady => p.conn = "TRANSIENT_FAILURE"
    /\ p.conn = "CONNECTING" =>
          IF p.frontier <= Len(p.list)
          THEN p.cache[p.list[p.frontier].addr] = "CONNECTING"
          ELSE AnyConnecting(p)
    /\ p.conn = "TRANSIENT_FAILURE" /\ p.list # <<>> =>
          /\ p.frontier > Len(p.list)
          /\ IF p.steady
             THEN \A a \in Listed(p) : su[a] = "IDLE" => Waits(co, q, su, a)
             ELSE \E a \in Listed(p) :
                     \/ p.cache[a] \in {"TRANSIENT_FAILURE", "CONNECTING"}
                     \/ Waits(co, q, su, a)

Known(p, co, q, en, su) == \A a \in Listed(p) : Learns(p, co, q, en, su, a)

Fresh(p, co, q, en, su) ==
    /\ Known(p, co, q, en, su)
    /\ Selection(p, co, q, su)
    /\ Progress(p, co, q, su)

\* An address has one SharedSubchannel at a time.
OneEach == \A e, f \in Held : e.addr = f.addr => e = f

\* Internal updates follow the documented transitions from the entry on.
ReportsMove ==
    \A a \in Addr :
        Linked(queue, IntOf(a)) /\ FirstIn(queue, IntOf(a), MovesFrom(entry[a]))

FInv ==
    /\ ReportsMove
    /\ ~reused =>
          /\ ~panicked /\ OneEach
          /\ \A a \in Addr : Linked(queue, ExtOf(a))
          /\ Fresh(pf, <<>>, queue, entry, sub)

-----------------------------------------------------------------------------
(* The queue, seen through the items of one set K.                         *)

\* q holds no item of K: nothing is said of its first item or of its links.
LEMMA NoneOfThem ==
    ASSUME NEW q, NEW K, ~Has(q, K)
    PROVE  Linked(q, K) /\ (\A S : FirstIn(q, K, S)) /\ (\A s : LastIs(q, K, s))
BY DEF Has, Linked, FirstIn, LastIs

\* What holds of a queue r in two parts, q and t.
Split(q, t, r, K) ==
    /\ \A S : FirstIn(q, K, S) /\ (~Has(q, K) => FirstIn(t, K, S)) => FirstIn(r, K, S)
    /\ \A S : FirstIn(r, K, S) => FirstIn(q, K, S) /\ (~Has(q, K) => FirstIn(t, K, S))
    /\ \A s : /\ LastIs(q, K, s) /\ Linked(q, K) /\ Linked(t, K)
              /\ Has(q, K) => FirstIn(t, K, MovesFrom(s))
              => Linked(r, K)
    /\ Linked(r, K) => Linked(t, K)

\* r is q, of length n, followed by t.
At(n, q, t, r) ==
    /\ n = Len(q)
    /\ \A i \in DOMAIN q : i \in DOMAIN r /\ r[i] = q[i] /\ i <= n /\ i \in Nat
    /\ \A j \in DOMAIN t : n + j \in DOMAIN r /\ r[n + j] = t[j] /\ j \in Nat \ {0}
    /\ \A i \in DOMAIN r : i \in Nat /\
          (i \in DOMAIN q \/ \E j \in DOMAIN t : i = n + j /\ r[i] = t[j])

\* The positions of a queue in two parts.
LEMMA Positions ==
    ASSUME NEW W, NEW q \in Seq(W), NEW t \in Seq(W), NEW r, r = q \o t
    PROVE  \E n \in Nat : At(n, q, t, r)
  <1>1. PICK n, m : n = Len(q) /\ m = Len(t) /\ n \in Nat /\ m \in Nat
                    /\ DOMAIN q = 1 .. n /\ DOMAIN t = 1 .. m
    BY LenProperties
  <1>2. /\ r \in Seq(W) /\ Len(r) = n + m
        /\ \A i \in 1 .. n + m : r[i] = IF i <= n THEN q[i] ELSE t[i - n]
    BY <1>1, ConcatProperties
  <1>3. DOMAIN r = 1 .. n + m
    BY <1>2, LenProperties
  <1>4. \A i \in DOMAIN q : i \in DOMAIN r /\ r[i] = q[i] /\ i <= n /\ i \in Nat
    BY <1>1, <1>2, <1>3
  <1>5. \A j \in DOMAIN t : n + j \in DOMAIN r /\ r[n + j] = t[j] /\ j \in Nat \ {0}
    BY <1>1, <1>2, <1>3
  <1>6. ASSUME NEW i \in DOMAIN r
        PROVE  i \in Nat /\ (i \in DOMAIN q \/ \E j \in DOMAIN t : i = n + j /\ r[i] = t[j])
    <2>1. i \in Nat /\ 1 <= i /\ i <= n + m
      BY <1>1, <1>3
    <2>2. CASE i <= n
      BY <1>1, <2>1, <2>2
    <2>3. CASE n < i
      <3>1. i - n \in DOMAIN t /\ i = n + (i - n)
        BY <1>1, <2>1, <2>3
      <3> QED BY <1>5, <2>1, <3>1
    <2> QED BY <1>1, <2>1, <2>2, <2>3
  <1> QED BY <1>1, <1>4, <1>5, <1>6 DEF At

\* The first item, and the links, of a queue in two parts.
LEMMA SplitSound ==
    ASSUME NEW W, NEW q \in Seq(W), NEW t \in Seq(W), NEW r, r = q \o t, NEW K
    PROVE  Split(q, t, r, K)
  <1>0. PICK n \in Nat : At(n, q, t, r)
    BY Positions
  <1>1. /\ n = Len(q)
        /\ \A i \in DOMAIN q : i \in DOMAIN r /\ r[i] = q[i] /\ i <= n /\ i \in Nat
        /\ \A j \in DOMAIN t : n + j \in DOMAIN r /\ r[n + j] = t[j] /\ j \in Nat \ {0}
        /\ \A i \in DOMAIN r : i \in Nat /\
                    (i \in DOMAIN q \/ \E j \in DOMAIN t : i = n + j /\ r[i] = t[j])
    BY <1>0 DEF At
  <1>2. ASSUME NEW S, FirstIn(q, K, S), ~Has(q, K) => FirstIn(t, K, S)
        PROVE  FirstIn(r, K, S)
    <2> SUFFICES ASSUME NEW i \in DOMAIN r, r[i] \in K, \A j \in DOMAIN r : r[j] \in K => i <= j
                 PROVE  r[i].state \in S
      BY DEF FirstIn
    <2>1. CASE i \in DOMAIN q
      BY <1>1, <1>2, <2>1 DEF FirstIn
    <2>2. CASE i \notin DOMAIN q
      <3>1. PICK j \in DOMAIN t : i = n + j /\ r[i] = t[j]
        BY <1>1, <2>2
      <3>2. ~Has(q, K)
        BY <1>1, <3>1 DEF Has
      <3>3. ASSUME NEW k \in DOMAIN t, t[k] \in K PROVE j <= k
        <4>1. n + j <= n + k /\ j \in Nat /\ k \in Nat
          BY <1>1, <3>1, <3>3
        <4> QED BY <4>1
      <3> QED BY <1>2, <3>1, <3>2, <3>3 DEF FirstIn
    <2> QED BY <2>1, <2>2
  <1>3. ASSUME NEW S, FirstIn(r, K, S) PROVE FirstIn(q, K, S)
    BY <1>1, <1>3 DEF FirstIn
  <1>4. ASSUME NEW S, FirstIn(r, K, S), ~Has(q, K) PROVE FirstIn(t, K, S)
    <2> SUFFICES ASSUME NEW j \in DOMAIN t, t[j] \in K, \A k \in DOMAIN t : t[k] \in K => j <= k
                 PROVE  t[j].state \in S
      BY DEF FirstIn
    <2>1. n + j \in DOMAIN r /\ r[n + j] = t[j]
      BY <1>1
    <2>2. ASSUME NEW i \in DOMAIN r, r[i] \in K PROVE n + j <= i
      <3>1. PICK k \in DOMAIN t : i = n + k /\ r[i] = t[k]
        BY <1>1, <1>4, <2>2 DEF Has
      <3> QED BY <1>1, <2>2, <3>1
    <2> QED BY <1>4, <2>1, <2>2 DEF FirstIn
  <1>5. ASSUME NEW s, LastIs(q, K, s), Linked(q, K), Linked(t, K),
               Has(q, K) => FirstIn(t, K, MovesFrom(s))
        PROVE  Linked(r, K)
    <2> SUFFICES ASSUME NEW i \in DOMAIN r, NEW j \in DOMAIN r, r[i] \in K, r[j] \in K, i < j,
                        \A k \in DOMAIN r : r[k] \in K => k <= i \/ j <= k
                 PROVE  r[j].state \in MovesFrom(r[i].state)
      BY DEF Linked
    <2>1. CASE j \in DOMAIN q
      <3>1. i \in DOMAIN q
        BY <1>1, <2>1
      <3> QED BY <1>1, <1>5, <2>1, <3>1 DEF Linked
    <2>2. CASE j \notin DOMAIN q /\ i \in DOMAIN q
      <3>1. PICK y \in DOMAIN t : j = n + y /\ r[j] = t[y]
        BY <1>1, <2>2
      <3>2. q[i] \in K /\ r[i] = q[i] /\ Has(q, K)
        BY <1>1, <2>2 DEF Has
      <3>3. \A k \in DOMAIN q : q[k] \in K => k <= i
        BY <1>1, <3>1
      <3>4. ASSUME NEW k \in DOMAIN t, t[k] \in K PROVE y <= k
        <4>1. n + k \in DOMAIN r /\ r[n + k] \in K /\ k \in Nat \ {0} /\ y \in Nat /\ i <= n /\ i \in Nat
          BY <1>1, <2>2, <3>1, <3>4
        <4>2. n + k <= i \/ n + y <= n + k
          BY <3>1, <4>1
        <4> QED BY <4>1, <4>2
      <3>5. q[i].state = s
        BY <1>5, <2>2, <3>2, <3>3 DEF LastIs
      <3> QED BY <1>5, <3>1, <3>2, <3>4, <3>5 DEF FirstIn
    <2>3. CASE j \notin DOMAIN q /\ i \notin DOMAIN q
      <3>1. PICK x \in DOMAIN t : i = n + x /\ r[i] = t[x]
        BY <1>1, <2>3
      <3>2. PICK y \in DOMAIN t : j = n + y /\ r[j] = t[y]
        BY <1>1, <2>3
      <3>3. x < y
        BY <1>1, <3>1, <3>2
      <3>4. ASSUME NEW k \in DOMAIN t, t[k] \in K PROVE k <= x \/ y <= k
        <4>1. n + k \in DOMAIN r /\ r[n + k] \in K /\ k \in Nat /\ x \in Nat /\ y \in Nat
          BY <1>1, <3>1, <3>2, <3>4
        <4>2. n + k <= n + x \/ n + y <= n + k
          BY <3>1, <3>2, <4>1
        <4> QED BY <4>1, <4>2
      <3> QED BY <1>5, <3>1, <3>2, <3>3, <3>4 DEF Linked
    <2> QED BY <2>1, <2>2, <2>3
  <1>6. ASSUME Linked(r, K) PROVE Linked(t, K)
    <2> SUFFICES ASSUME NEW x \in DOMAIN t, NEW y \in DOMAIN t, t[x] \in K, t[y] \in K, x < y,
                        \A k \in DOMAIN t : t[k] \in K => k <= x \/ y <= k
                 PROVE  t[y].state \in MovesFrom(t[x].state)
      BY DEF Linked
    <2>1. /\ n + x \in DOMAIN r /\ r[n + x] = t[x] /\ n + y \in DOMAIN r /\ r[n + y] = t[y]
          /\ n + x < n + y
      BY <1>1
    <2>2. ASSUME NEW k \in DOMAIN r, r[k] \in K PROVE k <= n + x \/ n + y <= k
      <3>1. CASE k \in DOMAIN q
        BY <1>1, <3>1
      <3>2. CASE k \notin DOMAIN q
        <4>1. PICK z \in DOMAIN t : k = n + z /\ r[k] = t[z]
          BY <1>1, <3>2
        <4>2. z \in Nat /\ x \in Nat /\ y \in Nat /\ (z <= x \/ y <= z)
          BY <1>1, <2>2, <4>1
        <4> QED BY <4>1, <4>2
      <3> QED BY <3>1, <3>2
    <2> QED BY <1>6, <2>1, <2>2 DEF Linked
  <1> QED BY <1>2, <1>3, <1>4, <1>5, <1>6 DEF Split

\* A queue of one item.
LEMMA OneLinked ==
    ASSUME NEW W, NEW w \in W, NEW K
    PROVE  /\ <<w>> \in Seq(W) /\ Linked(<<w>>, K)
           /\ \A S : FirstIn(<<w>>, K, S) <=> (w \in K => w.state \in S)
  <1>1. DOMAIN <<w>> = {1} /\ <<w>>[1] = w /\ <<w>> \in Seq(W)
    OBVIOUS
  <1>2. Linked(<<w>>, K)
    BY <1>1 DEF Linked
  <1> QED BY <1>1, <1>2 DEF FirstIn

\* rest follows the head of q.
Follows(q, rest, K) ==
    /\ Linked(q, K) =>
          /\ Linked(rest, K)
          /\ Head(q) \in K => FirstIn(rest, K, MovesFrom(Head(q).state))
    /\ \A S : FirstIn(q, K, S) =>
          /\ Head(q) \in K => Head(q).state \in S
          /\ Head(q) \notin K => FirstIn(rest, K, S)

\* What a queue says of the items behind its head.
LEMMA TailLinks ==
    ASSUME NEW W, NEW q \in Seq(W), q # <<>>, NEW rest, rest = Tail(q), NEW K
    PROVE  Follows(q, rest, K)
  <1>1. rest \in Seq(W) /\ Head(q) \in W /\ q = <<Head(q)>> \o rest
    BY HeadTailProperties
  <1>2. PICK w \in W : w = Head(q)
    BY <1>1
  <1>8. PICK one : one = <<w>>
    OBVIOUS
  <1>3. one \in Seq(W) /\ one = <<w>> /\ Len(one) = 1 /\ DOMAIN one = {1} /\ one[1] = w
    BY <1>8
  <1>4. q = one \o rest
    BY <1>1, <1>2, <1>3
  <1>5. Split(one, rest, q, K)
    BY <1>1, <1>3, <1>4, SplitSound
  <1>6. /\ Has(one, K) <=> w \in K
        /\ \A S : FirstIn(one, K, S) <=> (w \in K => w.state \in S)
    BY <1>3, OneLinked DEF Has
  <1>7. ASSUME Linked(q, K), w \in K PROVE FirstIn(rest, K, MovesFrom(w.state))
    <2>1. PICK n \in Nat : At(n, one, rest, q)
      BY <1>1, <1>3, <1>4, Positions
    <2>2. /\ n = 1 /\ 1 \in DOMAIN q /\ q[1] = w
          /\ \A j \in DOMAIN rest : 1 + j \in DOMAIN q /\ q[1 + j] = rest[j] /\ j \in Nat \ {0}
          /\ \A i \in DOMAIN q : i \in Nat /\
                (i = 1 \/ \E j \in DOMAIN rest : i = 1 + j /\ q[i] = rest[j])
      BY <1>3, <2>1 DEF At
    <2> SUFFICES ASSUME NEW j \in DOMAIN rest, rest[j] \in K,
                        \A k \in DOMAIN rest : rest[k] \in K => j <= k
                 PROVE  rest[j].state \in MovesFrom(w.state)
      BY DEF FirstIn
    <2>3. PICK y : y = 1 + j /\ y \in DOMAIN q /\ q[y] = rest[j] /\ 1 < y
      BY <2>2
    <2>4. ASSUME NEW k \in DOMAIN q, q[k] \in K PROVE k <= 1 \/ y <= k
      <3>1. CASE k = 1
        BY <3>1
      <3>2. CASE k # 1
        <4>1. PICK z \in DOMAIN rest : k = 1 + z /\ q[k] = rest[z]
          BY <2>2, <3>2
        <4>2. j <= z /\ z \in Nat /\ j \in Nat
          BY <2>2, <2>4, <4>1
        <4> QED BY <2>3, <4>1, <4>2
      <3> QED BY <3>1, <3>2
    <2> QED BY <1>7, <2>2, <2>3, <2>4 DEF Linked
  <1> QED BY <1>2, <1>5, <1>6, <1>7 DEF Split, Follows

\* Items of other sets change nothing.
LEMMA JoinLinks ==
    ASSUME NEW W, NEW q \in Seq(W), NEW t \in Seq(W), NEW r, r = q \o t, NEW K, ~Has(t, K)
    PROVE  /\ Linked(q, K) => Linked(r, K)
           /\ \A S : FirstIn(q, K, S) => FirstIn(r, K, S)
  <1>1. Split(q, t, r, K)
    BY SplitSound
  <1>2. \A S : FirstIn(t, K, S)
    BY NoneOfThem
  <1>3. ASSUME Linked(q, K) PROVE Linked(r, K)
    <2>1. PICK n \in Nat : At(n, q, t, r)
      BY Positions
    <2>2. /\ \A i \in DOMAIN r : r[i] \in K => i \in DOMAIN q
          /\ \A i \in DOMAIN q : i \in DOMAIN r /\ r[i] = q[i]
      BY <2>1 DEF At, Has
    <2> QED BY <1>3, <2>2 DEF Linked
  <1> QED BY <1>1, <1>2, <1>3 DEF Split

\* r is q with w appended.
Led(q, w, r, K) ==
    /\ \A s : /\ Linked(q, K) /\ LastIs(q, K, s)
              /\ w \in K /\ Has(q, K) => w.state \in MovesFrom(s)
              => Linked(r, K)
    /\ w \notin K /\ Linked(q, K) => Linked(r, K)
    /\ \A S : FirstIn(q, K, S) /\ (w \in K /\ ~Has(q, K) => w.state \in S) => FirstIn(r, K, S)

\* What is waiting once an item was added.
LEMMA AppendLinks ==
    ASSUME NEW W, NEW q \in Seq(W), NEW w \in W, NEW r, r = Append(q, w), NEW K
    PROVE  Led(q, w, r, K)
  <1>6. PICK one : one = <<w>>
    OBVIOUS
  <1>1. one \in Seq(W) /\ one = <<w>> /\ DOMAIN one = {1} /\ one[1] = w
    BY <1>6
  <1>2. r = q \o one
    BY <1>1
  <1>3. Split(q, one, r, K)
    BY <1>1, <1>2, SplitSound
  <1>4. /\ Has(one, K) <=> w \in K
        /\ Linked(one, K)
        /\ \A S : FirstIn(one, K, S) <=> (w \in K => w.state \in S)
    BY <1>1, OneLinked DEF Has
  <1>5. ASSUME w \notin K, Linked(q, K) PROVE Linked(r, K)
    BY <1>1, <1>2, <1>4, <1>5, JoinLinks
  <1> QED BY <1>3, <1>4, <1>5 DEF Split, Led

\* Leaving out items of other sets changes nothing.
LEMMA ItemsAtLinks ==
    ASSUME NEW W, NEW q \in Seq(W), NEW keep \in SUBSET DOMAIN q,
           NEW r, r = ItemsAt(q, keep), NEW K,
           \A i \in DOMAIN q : q[i] \in K => i \in keep
    PROVE  /\ Linked(q, K) => Linked(r, K)
           /\ \A S : FirstIn(q, K, S) => FirstIn(r, K, S)
  <1>1. DOMAIN q = 1 .. Len(q) /\ Len(q) \in Nat
    BY LenProperties
  <1>2. keep \in SUBSET Nat /\ IsFiniteSet(keep)
    <2>1. IsFiniteSet(1 .. Len(q))
      BY <1>1, FS_Interval
    <2> QED BY <1>1, <2>1, FS_Subset
  <1>3. PICK n : n = Cardinality(keep) /\ n \in Nat
    BY <1>2, ItemsAtSound
  <1>4. PICK g : Enumerates(g, keep, n) /\ r = [i \in 1 .. n |-> q[g[i]]]
    BY <1>2, <1>3, ItemsAtSound
  <1>5. /\ g \in [1 .. n -> keep]
        /\ \A i, j \in 1 .. n : i < j => g[i] < g[j]
        /\ \A k \in keep : \E i \in 1 .. n : g[i] = k
    BY <1>4 DEF Enumerates
  <1>6. DOMAIN r = 1 .. n /\ \A i \in 1 .. n : r[i] = q[g[i]] /\ g[i] \in Nat /\ g[i] \in DOMAIN q
    BY <1>1, <1>4, <1>5
  <1>7. ASSUME NEW k \in DOMAIN q, q[k] \in K
        PROVE  \E i \in 1 .. n : g[i] = k /\ r[i] = q[k]
    BY <1>5, <1>6, <1>7
  <1>8. ASSUME NEW i \in 1 .. n, NEW j \in 1 .. n, i <= j PROVE g[i] <= g[j]
    <2>1. i = j \/ i < j
      BY <1>3, <1>8
    <2> QED BY <1>5, <1>6, <2>1
  <1>9. ASSUME Linked(q, K) PROVE Linked(r, K)
    <2> SUFFICES ASSUME NEW i \in 1 .. n, NEW j \in 1 .. n, r[i] \in K, r[j] \in K, i < j,
                        \A k \in 1 .. n : r[k] \in K => k <= i \/ j <= k
                 PROVE  r[j].state \in MovesFrom(r[i].state)
      BY <1>6 DEF Linked
    <2>1. /\ g[i] \in DOMAIN q /\ q[g[i]] \in K /\ r[i] = q[g[i]]
          /\ g[j] \in DOMAIN q /\ q[g[j]] \in K /\ r[j] = q[g[j]] /\ g[i] < g[j]
      BY <1>5, <1>6
    <2>2. ASSUME NEW k \in DOMAIN q, q[k] \in K PROVE k <= g[i] \/ g[j] <= k
      <3>1. PICK x \in 1 .. n : g[x] = k /\ r[x] = q[k]
        BY <1>7, <2>2
      <3>2. x <= i \/ j <= x
        BY <2>2, <3>1
      <3> QED BY <1>8, <3>1, <3>2
    <2> QED BY <1>9, <2>1, <2>2 DEF Linked
  <1>10. ASSUME NEW S, FirstIn(q, K, S) PROVE FirstIn(r, K, S)
    <2> SUFFICES ASSUME NEW i \in 1 .. n, r[i] \in K,
                        \A k \in 1 .. n : r[k] \in K => i <= k
                 PROVE  r[i].state \in S
      BY <1>6 DEF FirstIn
    <2>1. g[i] \in DOMAIN q /\ q[g[i]] \in K /\ r[i] = q[g[i]]
      BY <1>6
    <2>2. ASSUME NEW k \in DOMAIN q, q[k] \in K PROVE g[i] <= k
      <3>1. PICK x \in 1 .. n : g[x] = k /\ r[x] = q[k]
        BY <1>7, <2>2
      <3> QED BY <1>8, <2>2, <3>1
    <2> QED BY <1>10, <2>1, <2>2 DEF FirstIn
  <1> QED BY <1>9, <1>10

\* connect() of several subchannels reports each one once.
LEMMA ReportsLinks ==
    ASSUME NEW connects \in Seq(Addr), IsInjective(connects), NEW subs,
           NEW t, t = Reports(connects, subs), NEW a
    PROVE  Linked(t, IntOf(a)) /\ FirstIn(t, IntOf(a), {"CONNECTING"})
  <1> DEFINE f == [i \in DOMAIN connects |->
                      [kind |-> "internal", addr |-> connects[i], state |-> "CONNECTING"]]
             keep == {i \in DOMAIN connects : subs[connects[i]] = "IDLE"}
             K == IntOf(a)
  <1>0. CASE ~Has(t, K)
    BY <1>0, NoneOfThem
  <1>1. CASE Has(t, K)
    <2>0. a \in Range(connects) /\ subs[a] = "IDLE"
      BY <1>1, ReportsSound
    <2>1. /\ DOMAIN connects = 1 .. Len(connects) /\ Len(connects) \in Nat
          /\ \A i \in DOMAIN connects : connects[i] \in Addr
      BY RangeSound
    <2>2. \A i \in DOMAIN f : /\ f[i] \in WorkItem /\ f[i].addr = connects[i]
                              /\ f[i].state = "CONNECTING"
      BY <2>1 DEF WorkItem, States
    <2>3. f \in Seq(WorkItem)
      <3>1. f \in [1 .. Len(connects) -> WorkItem]
        BY <2>1, <2>2
      <3> HIDE DEF f
      <3> QED BY <2>1, <3>1, SeqDef
    <2>4. keep \in SUBSET DOMAIN f /\ DOMAIN f = DOMAIN connects
      OBVIOUS
    <2>5. t = ItemsAt(f, keep)
      BY Zenon DEF Reports
    <2>6. \A i \in DOMAIN connects : subs[connects[i]] = "IDLE" => i \in keep
      OBVIOUS
    <2> HIDE DEF f, keep
    <2>7. \A i \in DOMAIN f : f[i] \in K => connects[i] = a
      BY <2>2 DEF IntOf
    <2>8. \A i \in DOMAIN f : f[i] \in K => i \in keep
      BY <2>0, <2>4, <2>6, <2>7
    <2>9. \A i, j \in DOMAIN f : f[i] \in K /\ f[j] \in K => i = j
      BY <2>4, <2>7 DEF IsInjective
    <2>10. Linked(f, K) /\ FirstIn(f, K, {"CONNECTING"})
      <3>1. \A i \in DOMAIN f : i \in Nat
        BY <2>1, <2>4
      <3>2. FirstIn(f, K, {"CONNECTING"})
        BY <2>2 DEF FirstIn
      <3>3. \A i, j \in DOMAIN f : f[i] \in K /\ f[j] \in K => ~(i < j)
        BY <2>9, <3>1
      <3> QED BY <3>2, <3>3 DEF Linked
    <2>11. Linked(t, K) /\ FirstIn(t, K, {"CONNECTING"})
      <3> HIDE DEF K
      <3> QED BY <2>3, <2>4, <2>5, <2>8, <2>10, ItemsAtLinks
    <2> QED BY <2>11
  <1> QED BY <1>0, <1>1

-----------------------------------------------------------------------------
(* The policy's methods.                                                   *)

\* What is not in the queue the entry knows.
Backs(p, q, en, su) ==
    \A a \in Listed(p) : en[a] \in States /\ (~Has(q, IntOf(a)) => en[a] = su[a])

\* No address is taken for READY.
Cold(p) == \A a \in Listed(p) : p.cache[a] # "READY"

\* Nobody is told to connect.
LEMMA NoStarts ==
    ASSUME NEW su, NEW a
    PROVE  ~Starts(<<>>, su, a)
  <1>1. Range(<<>>) = {}
    BY DEF Range
  <1> QED BY <1>1 DEF Starts

\* The first item is of a larger set too.
LEMMA FirstGrows ==
    ASSUME NEW q, NEW K, NEW S, NEW T, S \subseteq T, FirstIn(q, K, S)
    PROVE  FirstIn(q, K, T)
BY DEF FirstIn

\* Connecting further addresses and recording an error contradicts nothing.
LEMMA KnownGrows ==
    ASSUME NEW p, NEW n, NEW co, NEW q, NEW en, NEW su, Known(p, <<>>, q, en, su),
           n.list = p.list, n.cache = p.cache, p.err => n.err
    PROVE  Known(n, co, q, en, su)
  <1> SUFFICES ASSUME NEW a \in Listed(n) PROVE Learns(n, co, q, en, su, a)
    BY DEF Known
  <1>1. Learns(p, <<>>, q, en, su, a)
    BY DEF Known, Listed
  <1> QED BY <1>1, NoStarts DEF Learns

\* trigger_subchannel_connection, of an address that is idle or connects already.
LEMMA TriggerKnown ==
    ASSUME NEW p \in Policy, NEW n, NEW co, NEW q, NEW en, NEW su, NEW a \in Addr,
           Known(p, <<>>, q, en, su), Backs(p, q, en, su), a \in Listed(p),
           p.cache[a] # "TRANSIENT_FAILURE", p.cache[a] # "READY",
           n.list = p.list, n.err = p.err, n.cache = [p.cache EXCEPT ![a] = "CONNECTING"],
           co = Append(<<>>, a)
    PROVE  Known(n, co, q, en, su)
  <1> SUFFICES ASSUME NEW b \in Listed(n) PROVE Learns(n, co, q, en, su, b)
    BY DEF Known
  <1>1. Learns(p, <<>>, q, en, su, b) /\ b \in Listed(p)
    BY DEF Known, Listed
  <1>2. p.cache \in [Addr -> States \cup {"NONE"}]
    BY DEF Policy
  <1>3. CASE b # a
    <2>1. n.cache[b] = p.cache[b]
      BY <1>2, <1>3
    <2> QED BY <1>1, <2>1, NoStarts DEF Learns
  <1>4. CASE b = a
    <2>1. n.cache[b] = "CONNECTING"
      BY <1>2, <1>4
    <2>2. p.cache[a] = "IDLE" \/ p.cache[a] = "CONNECTING"
      BY <1>1, <1>4 DEF Learns, States
    <2>3. a \in Range(co)
      BY OneConnect
    <2>4. FirstIn(q, ExtOf(b), After("CONNECTING"))
      <3>1. After(p.cache[a]) \subseteq After("CONNECTING")
        BY <2>2 DEF After, MovesFrom
      <3> QED BY <1>1, <1>4, <3>1, FirstGrows DEF Learns
    <2>5. ASSUME ~Has(q, ExtOf(b))
          PROVE  \/ "CONNECTING" = en[b]
                 \/ en[b] = "IDLE" /\ (Has(q, IntOf(b)) \/ Starts(co, su, b))
      <3>1. en[a] = "IDLE" \/ en[a] = "CONNECTING"
        BY <1>1, <1>4, <2>2, <2>5 DEF Learns
      <3>2. ~Has(q, IntOf(a)) => en[a] = su[a]
        BY DEF Backs
      <3> QED BY <1>4, <2>3, <3>1, <3>2 DEF Starts
    <2>6. "CONNECTING" \in States
      BY DEF States
    <2> QED BY <2>1, <2>4, <2>5, <2>6 DEF Learns
  <1> QED BY <1>3, <1>4

\* advance_frontier and trigger_subchannel_connection.
LEMMA TriedKnown ==
    ASSUME NEW c \in Calls, NEW start \in Nat \ {0}, NEW d, NEW q, NEW en, NEW su,
           c.connects = <<>>, Tried(c, start, d),
           Known(c.p, <<>>, q, en, su), Backs(c.p, q, en, su), Cold(c.p)
    PROVE  /\ Known(d.p, d.connects, q, en, su) /\ Cold(d.p)
           /\ d.p.frontier <= Len(d.p.list) =>
                 d.p.cache[d.p.list[d.p.frontier].addr] = "CONNECTING"
           /\ d.p.frontier > Len(d.p.list) => d.p.cache = c.p.cache /\ d.connects = <<>>
  <1>1. /\ c.p \in Policy /\ d.p.list = c.p.list /\ d.p.err = c.p.err
        /\ c.p.cache \in [Addr -> States \cup {"NONE"}] /\ Len(c.p.list) \in Nat
        /\ c.p.list \in Seq(Ext) /\ d.p.frontier \in Nat
    BY ListSound DEF Calls, Policy, Tried
  <1>2. CASE d.p.frontier > Len(c.p.list)
    <2>1. d.p.cache = c.p.cache /\ d.connects = <<>>
      BY <1>2 DEF Tried
    <2>2. Known(d.p, d.connects, q, en, su)
      BY <1>1, <2>1, KnownGrows
    <2>3. Cold(d.p)
      BY <1>1, <2>1 DEF Cold, Listed
    <2> QED BY <1>1, <1>2, <2>1, <2>2, <2>3
  <1>3. CASE d.p.frontier <= Len(c.p.list)
    <2>1. PICK a \in Addr :
             /\ d.p.frontier \in DOMAIN c.p.list
             /\ c.p.list[d.p.frontier].addr = a
             /\ c.p.cache[a] # "TRANSIENT_FAILURE"
             /\ d.p.cache = [c.p.cache EXCEPT ![a] = "CONNECTING"]
             /\ d.connects = Append(c.connects, a)
      BY <1>3 DEF Tried
    <2>2. a \in Listed(c.p)
      <3>1. c.p.list[d.p.frontier] \in Exts(c.p.list)
        BY <1>1, <2>1, ListSound
      <3> QED BY <2>1, <3>1 DEF Listed, AddrOf
    <2>3. c.p.cache[a] # "READY"
      BY <2>2 DEF Cold
    <2>4. Known(d.p, d.connects, q, en, su)
      <3>1. PICK n, co : n = d.p /\ co = d.connects
        OBVIOUS
      <3>2. n.list = c.p.list /\ n.err = c.p.err /\ n.cache = [c.p.cache EXCEPT ![a] = "CONNECTING"]
            /\ co = Append(<<>>, a)
        BY <1>1, <2>1, <3>1
      <3>3. Known(n, co, q, en, su)
        BY <1>1, <2>1, <2>2, <2>3, <3>2, TriggerKnown
      <3> QED BY <3>1, <3>3
    <2>5. Cold(d.p)
      BY <1>1, <2>1 DEF Cold, Listed
    <2>6. d.p.cache[a] = "CONNECTING"
      BY <1>1, <2>1
    <2> QED BY <1>1, <1>3, <2>1, <2>4, <2>5, <2>6
  <1> QED BY <1>1, <1>2, <1>3

\* Without a selection there is little to say of it.
LEMMA NoSelection ==
    ASSUME NEW p, NEW co, NEW q, NEW su, p.sel = {}, p.conn # "READY", Cold(p)
    PROVE  Selection(p, co, q, su)
  <1>1. AddrOf(p.sel) = {}
    BY DEF AddrOf
  <1> QED BY <1>1 DEF Selection, Cold

\* start_connection_pass: if all addresses are failing, one has left its error.
LEMMA StartedFresh ==
    ASSUME NEW c \in Calls, NEW d, NEW q, NEW en, NEW su, Started(c, d),
           c.connects = <<>>, c.panic = FALSE, c.p.steady = FALSE, c.p.list # <<>>,
           Known(c.p, <<>>, q, en, su), Backs(c.p, q, en, su), Cold(c.p)
    PROVE  Fresh(d.p, d.connects, q, en, su) /\ d.panic = FALSE
  <1>1. /\ c.p \in Policy /\ d.p.list = c.p.list /\ d.p.sel = {} /\ d.p.steady = FALSE
        /\ c.p.cache \in [Addr -> States \cup {"NONE"}] /\ Len(c.p.list) \in Nat
        /\ c.p.list \in Seq(Ext) /\ d.p.frontier \in Nat /\ d \in Calls
    BY ListSound DEF Calls, Policy, Started
  <1>2. CASE d.p.frontier <= Len(c.p.list)
    <2>1. /\ d.p.conn = "CONNECTING" /\ d.p.err = c.p.err /\ d.panic = c.panic
          /\ \E a \in Addr :
             /\ d.p.frontier \in DOMAIN c.p.list
             /\ c.p.list[d.p.frontier].addr = a
             /\ c.p.cache[a] # "TRANSIENT_FAILURE"
             /\ d.p.cache = [c.p.cache EXCEPT ![a] = "CONNECTING"]
             /\ d.connects = Append(c.connects, a)
      <3>1. ~(d.p.frontier > Len(c.p.list))
        BY <1>1, <1>2
      <3> QED BY <3>1, Zenon DEF Started
    <2>2. PICK a \in Addr :
             /\ d.p.frontier \in DOMAIN c.p.list
             /\ c.p.list[d.p.frontier].addr = a
             /\ c.p.cache[a] # "TRANSIENT_FAILURE"
             /\ d.p.cache = [c.p.cache EXCEPT ![a] = "CONNECTING"]
             /\ d.connects = Append(c.connects, a)
      BY <2>1
    <2>3. a \in Listed(c.p)
      <3>1. c.p.list[d.p.frontier] \in Exts(c.p.list)
        BY <1>1, <2>2, ListSound
      <3> QED BY <2>2, <3>1 DEF Listed, AddrOf
    <2>4. c.p.cache[a] # "READY"
      BY <2>3 DEF Cold
    <2>5. Known(d.p, d.connects, q, en, su)
      <3>1. PICK n, co : n = d.p /\ co = d.connects
        OBVIOUS
      <3>2. n.list = c.p.list /\ n.err = c.p.err /\ n.cache = [c.p.cache EXCEPT ![a] = "CONNECTING"]
            /\ co = Append(<<>>, a)
        BY <1>1, <2>1, <2>2, <3>1
      <3>3. Known(n, co, q, en, su)
        BY <1>1, <2>2, <2>3, <2>4, <3>2, TriggerKnown
      <3> QED BY <3>1, <3>3
    <2>6. Cold(d.p)
      BY <1>1, <2>2 DEF Cold, Listed
    <2>7. Selection(d.p, d.connects, q, su)
      BY <1>1, <2>1, <2>6, NoSelection
    <2>8. d.p.cache[d.p.list[d.p.frontier].addr] = "CONNECTING"
      BY <1>1, <2>2
    <2>9. Progress(d.p, d.connects, q, su)
      BY <1>1, <1>2, <2>1, <2>8 DEF Progress
    <2> QED BY <2>1, <2>5, <2>7, <2>9 DEF Fresh
  <1>3. CASE d.p.frontier > Len(c.p.list)
    <2>1. /\ d.p.cache = c.p.cache /\ d.connects = <<>>
          /\ \A i \in DOMAIN c.p.list : c.p.cache[c.p.list[i].addr] = "TRANSIENT_FAILURE"
          /\ c.p.err => d.p.conn = "TRANSIENT_FAILURE" /\ d.p.err /\ d.panic = c.panic
      BY <1>1, <1>3 DEF Started
    <2>2. PICK a : a \in Listed(c.p) /\ c.p.cache[a] = "TRANSIENT_FAILURE"
      <3>1. 1 \in DOMAIN c.p.list
        BY <1>1
      <3>2. c.p.list[1] \in Exts(c.p.list)
        BY <1>1, <3>1, ListSound
      <3> QED BY <2>1, <3>1, <3>2 DEF Listed, AddrOf
    <2>3. c.p.err = TRUE
      <3>1. c.p.err
        BY <2>2 DEF Known, Learns
      <3> QED BY <1>1, <3>1 DEF Policy
    <2>4. d.p.conn = "TRANSIENT_FAILURE" /\ d.p.err /\ d.panic = FALSE
      BY <2>1, <2>3
    <2>5. Known(d.p, d.connects, q, en, su)
      BY <1>1, <2>1, <2>4, KnownGrows
    <2>6. Selection(d.p, d.connects, q, su)
      <3>1. Cold(d.p)
        BY <1>1, <2>1 DEF Cold, Listed
      <3> QED BY <1>1, <2>4, <3>1, NoSelection
    <2>7. a \in Listed(d.p) /\ d.p.cache[a] = "TRANSIENT_FAILURE"
      BY <1>1, <2>1, <2>2 DEF Listed
    <2>8. Progress(d.p, d.connects, q, su)
      BY <1>1, <1>3, <2>4, <2>7 DEF Progress
    <2> QED BY <2>4, <2>5, <2>6, <2>8 DEF Fresh
  <1>4. d.p.frontier <= Len(c.p.list) \/ d.p.frontier > Len(c.p.list)
    BY <1>1
  <1> QED BY <1>2, <1>3, <1>4

\* The end of a pass: every idle subchannel is told to connect.
LEMMA SteadiedFresh ==
    ASSUME NEW c \in Calls, NEW d, NEW q, NEW en, NEW su, Steadied(c, d),
           c.p.err = TRUE, c.p.sel = {}, c.p.frontier > Len(c.p.list),
           Known(c.p, <<>>, q, en, su), Backs(c.p, q, en, su), Cold(c.p)
    PROVE  Fresh(d.p, d.connects, q, en, su) /\ d.panic = FALSE
  <1>1. /\ d.p.list = c.p.list /\ d.p.sel = {} /\ d.p.cache = c.p.cache
        /\ d.p.frontier = c.p.frontier
        /\ d.p.conn = "TRANSIENT_FAILURE" /\ d.p.steady = TRUE /\ d.p.err = TRUE
        /\ d.panic = FALSE
        /\ Range(d.connects) = {a \in Listed(c.p) : c.p.cache[a] = "IDLE"}
    BY DEF Steadied, Listed
  <1>2. Known(d.p, d.connects, q, en, su)
    BY <1>1, KnownGrows
  <1>3. Selection(d.p, d.connects, q, su)
    <2>1. Cold(d.p)
      BY <1>1 DEF Cold, Listed
    <2> QED BY <1>1, <2>1, NoSelection
  <1>4. ASSUME NEW a \in Listed(d.p), su[a] = "IDLE"
        PROVE  Waits(d.connects, q, su, a)
    <2>1. a \in Listed(c.p)
      BY <1>1 DEF Listed
    <2>2. CASE Has(q, ExtOf(a)) \/ Has(q, IntOf(a))
      BY <2>2 DEF Waits
    <2>3. CASE ~Has(q, ExtOf(a)) /\ ~Has(q, IntOf(a))
      <3>1. Learns(c.p, <<>>, q, en, su, a)
        BY <2>1 DEF Known
      <3>2. en[a] = "IDLE"
        BY <1>4, <2>1, <2>3 DEF Backs
      <3>3. c.p.cache[a] = "IDLE"
        BY <2>3, <3>1, <3>2, NoStarts DEF Learns
      <3>4. a \in Range(d.connects)
        BY <1>1, <2>1, <3>3
      <3> QED BY <1>4, <3>4 DEF Waits, Starts
    <2> QED BY <2>2, <2>3
  <1>5. Progress(d.p, d.connects, q, su)
    BY <1>1, <1>4 DEF Progress
  <1> QED BY <1>1, <1>2, <1>3, <1>5 DEF Fresh

\* What the policy must have made of an update for a, of state s, before the first pass
\* goes on: the error of a failure, or of the failure before IDLE, is recorded, and
\* only the address of the update may have stopped connecting at the frontier.
InPass(c, a, s) ==
    /\ c.p.sel = {} /\ c.p.steady = FALSE /\ c.p.conn # "READY" /\ Cold(c.p)
    /\ a \in Listed(c.p) /\ c.p.cache[a] = s
    /\ s # "CONNECTING" => c.p.err = TRUE
    /\ c.p.conn = "CONNECTING" /\ c.p.frontier <= Len(c.p.list) =>
          \/ c.p.list[c.p.frontier].addr = a /\ s = "TRANSIENT_FAILURE"
          \/ c.p.cache[c.p.list[c.p.frontier].addr] = "CONNECTING"
    /\ c.p.conn = "TRANSIENT_FAILURE" => c.p.frontier > Len(c.p.list)

\* update_first_pass.
LEMMA FirstPassFresh ==
    ASSUME NEW c \in Calls, NEW a, NEW s, NEW d, NEW q, NEW en, NEW su,
           d = UpdateFirstPass(c, a, s), Distinct(c.p.list),
           c.connects = <<>>, c.panic = FALSE, InPass(c, a, s),
           Known(c.p, <<>>, q, en, su), Backs(c.p, q, en, su)
    PROVE  Fresh(d.p, d.connects, q, en, su) /\ d.panic = FALSE
  <1> DEFINE atFrontier == c.p.frontier <= Len(c.p.list) /\ c.p.list[c.p.frontier].addr = a
  <1>1. PICK t : t = IF atFrontier /\ s = "TRANSIENT_FAILURE"
                     THEN TryNext(c, c.p.frontier + 1) ELSE c
    OBVIOUS
  <1>2. d = IF t.p.frontier > Len(t.p.list) /\ ~AnyConnecting(t.p) THEN EnterSteady(t) ELSE t
    BY <1>1, Zenon DEF UpdateFirstPass
  <1>3. /\ c.p \in Policy /\ c.p.frontier \in Nat \ {0} /\ c.p.list \in Seq(Ext)
        /\ Len(c.p.list) \in Nat
    BY ListSound DEF Calls, Policy
  <1>4. /\ t \in Calls /\ t.p.list = c.p.list /\ t.p.sel = {} /\ t.p.steady = FALSE
        /\ t.p.conn = c.p.conn /\ t.p.err = c.p.err /\ t.panic = FALSE
        /\ t.p.frontier \in Nat /\ Known(t.p, t.connects, q, en, su) /\ Cold(t.p)
        /\ t.p.frontier > Len(t.p.list) => t.connects = <<>>
        /\ t.p.conn = "CONNECTING" /\ t.p.frontier <= Len(t.p.list) =>
              t.p.cache[t.p.list[t.p.frontier].addr] = "CONNECTING"
        /\ t.p.conn = "TRANSIENT_FAILURE" => t.p.frontier > Len(t.p.list)
        /\ s = "CONNECTING" => AnyConnecting(t.p)
    <2>1. CASE atFrontier /\ s = "TRANSIENT_FAILURE"
      <3>0. PICK start \in Nat \ {0} : start = c.p.frontier + 1
        BY <1>3
      <3>1. t = TryNext(c, start)
        BY <1>1, <2>1, <3>0
      <3>2. Tried(c, start, t)
        BY <3>1, TryNextSound
      <3>3. /\ t \in Calls /\ t.p.list = c.p.list /\ t.p.sel = {} /\ t.p.steady = FALSE
            /\ t.p.conn = c.p.conn /\ t.p.err = c.p.err /\ t.panic = FALSE
            /\ t.p.frontier \in Nat
        BY <3>2 DEF Tried, InPass
      <3>4. /\ Known(t.p, t.connects, q, en, su) /\ Cold(t.p)
            /\ t.p.frontier <= Len(t.p.list) =>
                 t.p.cache[t.p.list[t.p.frontier].addr] = "CONNECTING"
            /\ t.p.frontier > Len(t.p.list) => t.connects = <<>>
        BY <3>2, TriedKnown DEF InPass
      <3>5. c.p.conn # "TRANSIENT_FAILURE"
        BY <1>3, <2>1 DEF InPass
      <3> QED BY <2>1, <3>3, <3>4, <3>5
    <2>2. CASE ~(atFrontier /\ s = "TRANSIENT_FAILURE")
      <3>1. t = c
        BY <1>1, <2>2
      <3>2. s = "CONNECTING" => AnyConnecting(c.p)
        BY DEF InPass, Listed, AddrOf, AnyConnecting
      <3> QED BY <1>3, <2>2, <3>1, <3>2 DEF InPass
    <2> QED BY <2>1, <2>2
  <1>5. CASE t.p.frontier > Len(t.p.list) /\ ~AnyConnecting(t.p)
    <2>1. d = EnterSteady(t) /\ t.connects = <<>> /\ t.p.err = TRUE
      BY <1>2, <1>4, <1>5 DEF InPass
    <2>2. Steadied(t, d)
      BY <1>4, <2>1, EnterSteadySound
    <2>3. Backs(t.p, q, en, su)
      BY <1>4 DEF Backs, Listed
    <2>4. Known(t.p, <<>>, q, en, su)
      BY <1>4, <2>1
    <2> QED BY <1>4, <1>5, <2>1, <2>2, <2>3, <2>4, SteadiedFresh
  <1>6. CASE ~(t.p.frontier > Len(t.p.list) /\ ~AnyConnecting(t.p))
    <2>1. d = t
      BY <1>2, <1>6
    <2>2. Selection(t.p, t.connects, q, su)
      BY <1>4, NoSelection DEF InPass
    <2>3. t.p.frontier > Len(t.p.list) => AnyConnecting(t.p)
      BY <1>6
    <2>4. AnyConnecting(t.p) => \E b \in Listed(t.p) : t.p.cache[b] = "CONNECTING"
      BY DEF AnyConnecting, Listed, AddrOf
    <2>5. t.p.frontier <= Len(t.p.list) \/ t.p.frontier > Len(t.p.list)
      BY <1>3, <1>4
    <2>6. Progress(t.p, t.connects, q, su)
      <3>1. t.p.conn = "CONNECTING" =>
               IF t.p.frontier <= Len(t.p.list)
               THEN t.p.cache[t.p.list[t.p.frontier].addr] = "CONNECTING"
               ELSE AnyConnecting(t.p)
        BY <1>4, <2>3, <2>5
      <3>2. t.p.conn = "TRANSIENT_FAILURE" =>
               /\ t.p.frontier > Len(t.p.list)
               /\ \E b \in Listed(t.p) : t.p.cache[b] = "CONNECTING"
        BY <1>4, <2>3, <2>4
      <3> QED BY <1>4, <3>1, <3>2 DEF Progress
    <2> QED BY <1>4, <2>1, <2>2, <2>6 DEF Fresh
  <1> QED BY <1>5, <1>6

\* The queues Q and q say the same of the addresses of p's list.
Alike(p, Q, q) ==
    \A b \in Listed(p) :
        /\ Has(q, ExtOf(b)) <=> Has(Q, ExtOf(b))
        /\ Has(q, IntOf(b)) <=> Has(Q, IntOf(b))
        /\ \A S : FirstIn(Q, ExtOf(b), S) => FirstIn(q, ExtOf(b), S)

\* Work that concerns none of the listed addresses changes nothing.
LEMMA FreshAlike ==
    ASSUME NEW p, NEW Q, NEW q, NEW en, NEW su, NEW en2, NEW su2,
           Fresh(p, <<>>, Q, en, su), Alike(p, Q, q),
           \A b \in Listed(p) : en2[b] = en[b] /\ su2[b] = su[b]
    PROVE  Fresh(p, <<>>, q, en2, su2)
  <1>1. ASSUME NEW b \in Listed(p)
        PROVE  Waits(<<>>, q, su2, b) <=> Waits(<<>>, Q, su, b)
    BY NoStarts DEF Waits, Alike
  <1>2. Known(p, <<>>, q, en2, su2)
    <2> SUFFICES ASSUME NEW b \in Listed(p) PROVE Learns(p, <<>>, q, en2, su2, b)
      BY DEF Known
    <2>1. Learns(p, <<>>, Q, en, su, b)
      BY DEF Fresh, Known
    <2> QED BY <2>1, NoStarts DEF Learns, Alike
  <1>3. Selection(p, <<>>, q, su2)
    <2>1. Selection(p, <<>>, Q, su)
      BY DEF Fresh
    <2>2. ASSUME NEW b \in Listed(p), Quiet(p, <<>>, Q, su, b)
          PROVE  Quiet(p, <<>>, q, su2, b)
      BY <1>1, <2>2 DEF Quiet
    <2> QED BY <2>1, <2>2 DEF Selection
  <1>4. Progress(p, <<>>, q, su2)
    <2>1. Progress(p, <<>>, Q, su)
      BY DEF Fresh
    <2> QED BY <1>1, <2>1 DEF Progress
  <1> QED BY <1>2, <1>3, <1>4 DEF Fresh

\* q is Q without its head, an update that a is in state s.
Took(Q, q, en, a, s) ==
    /\ Has(Q, ExtOf(a))
    /\ \A b : Has(q, IntOf(b)) <=> Has(Q, IntOf(b))
    /\ \A b : b # a =>
          /\ Has(q, ExtOf(b)) <=> Has(Q, ExtOf(b))
          /\ \A S : FirstIn(Q, ExtOf(b), S) => FirstIn(q, ExtOf(b), S)
    /\ \A S : FirstIn(Q, ExtOf(a), S) => s \in S
    /\ FirstIn(q, ExtOf(a), MovesFrom(s))
    /\ ~Has(q, ExtOf(a)) => en[a] = s

\* An update that is taken and noted leaves the cached states in order.
LEMMA LearnedKnown ==
    ASSUME NEW c \in Calls, NEW k, NEW a \in Addr, NEW s \in States,
           NEW Q, NEW q, NEW en, NEW su, Took(Q, q, en, a, s), Learned(c, a, s, k),
           c.p.err => k.p.err, s = "TRANSIENT_FAILURE" => k.p.err,
           Known(c.p, <<>>, Q, en, su)
    PROVE  Known(k.p, <<>>, q, en, su)
  <1> SUFFICES ASSUME NEW b \in Listed(k.p) PROVE Learns(k.p, <<>>, q, en, su, b)
    BY DEF Known
  <1>1. /\ c.p.cache \in [Addr -> States \cup {"NONE"}] /\ b \in Listed(c.p)
        /\ k.p.cache = [c.p.cache EXCEPT ![a] = s]
    BY DEF Calls, Policy, Learned, Listed
  <1>2. Learns(c.p, <<>>, Q, en, su, b)
    BY <1>1 DEF Known
  <1>3. CASE b = a
    <2>1. k.p.cache[b] = s
      BY <1>1, <1>3
    <2>2. MovesFrom(s) \subseteq After(s)
      BY DEF After
    <2>3. FirstIn(q, ExtOf(b), After(s))
      BY <1>3, <2>2, FirstGrows DEF Took
    <2> QED BY <1>3, <2>1, <2>3 DEF Learns, Took
  <1>4. CASE b # a
    <2>1. k.p.cache[b] = c.p.cache[b]
      BY <1>1, <1>4
    <2> QED BY <1>2, <1>4, <2>1, NoStarts DEF Learns, Took
  <1> QED BY <1>3, <1>4

\* d is n after SteadyState::subchannel_nonready.
Nudged(n, a, s, d) ==
    /\ d \in Calls /\ d.p.conn = n.p.conn /\ d.p.list = n.p.list /\ d.p.cache = n.p.cache
    /\ d.p.sel = n.p.sel /\ d.p.frontier = n.p.frontier /\ d.p.err = n.p.err
    /\ d.p.timer = n.p.timer /\ d.p.steady = n.p.steady /\ d.panic = n.panic
    /\ d.connects = IF s = "IDLE" THEN Append(n.connects, a) ELSE n.connects

\* SteadyState::subchannel_nonready.
LEMMA SubchannelNonreadySound ==
    ASSUME NEW n \in Calls, NEW a \in Addr, NEW s \in States, NEW d,
           d = SubchannelNonready(n, a, s)
    PROVE  Nudged(n, a, s, d)
  <1>1. n.p \in Policy /\ n.p.fails \in Nat /\ n.connects \in Seq(Addr)
    BY DEF Calls, Policy
  <1>2. CASE s = "IDLE"
    <2>1. d = [n EXCEPT !.connects = Append(@, a)]
      BY <1>2, Zenon DEF SubchannelNonready
    <2>2. PICK co \in Seq(Addr) : co = Append(n.connects, a)
      <3>1. Append(n.connects, a) \in Seq(Addr)
        BY <1>1, AppendProperties
      <3> QED BY <3>1
    <2>3. d = [n EXCEPT !.connects = co]
      BY <2>1, <2>2
    <2>4. d \in Calls /\ d.p = n.p /\ d.panic = n.panic /\ d.connects = co
      BY <2>3 DEF Calls
    <2> QED BY <1>2, <2>2, <2>4 DEF Nudged
  <1>3. CASE s # "IDLE"
    <2>1. \/ d = n
          \/ d = [n EXCEPT !.p.fails = 0, !.resolve = TRUE]
          \/ d = [n EXCEPT !.p.fails = @ + 1]
      <3>1. CASE s = "TRANSIENT_FAILURE"
        BY <3>1, Zenon DEF SubchannelNonready
      <3>2. CASE s # "TRANSIENT_FAILURE"
        BY <1>3, <3>2, Zenon DEF SubchannelNonready
      <3> QED BY <3>1, <3>2
    <2>2. ASSUME NEW f \in Nat, NEW v \in BOOLEAN, d = [n EXCEPT !.p.fails = f, !.resolve = v]
          PROVE  Nudged(n, a, s, d)
      <3>1. PICK np \in Policy : np = [n.p EXCEPT !.fails = f]
        BY <1>1 DEF Policy
      <3>2. d = [n EXCEPT !.p = np, !.resolve = v]
        BY <1>1, <2>2, <3>1 DEF Calls, Policy
      <3>3. d \in Calls /\ d.p = np /\ d.panic = n.panic /\ d.connects = n.connects
        BY <3>2 DEF Calls
      <3>4. /\ np.conn = n.p.conn /\ np.list = n.p.list /\ np.cache = n.p.cache
            /\ np.sel = n.p.sel /\ np.frontier = n.p.frontier /\ np.err = n.p.err
            /\ np.timer = n.p.timer /\ np.steady = n.p.steady
        BY <1>1, <3>1 DEF Policy
      <3> QED BY <1>3, <3>3, <3>4 DEF Nudged
    <2>3. CASE d = n
      BY <1>3, <2>3 DEF Nudged
    <2>4. CASE d = [n EXCEPT !.p.fails = 0, !.resolve = TRUE]
      BY <2>2, <2>4
    <2>5. CASE d = [n EXCEPT !.p.fails = @ + 1]
      <3>1. PICK f \in Nat : f = n.p.fails + 1
        BY <1>1
      <3>2. PICK v \in BOOLEAN : v = n.resolve
        BY DEF Calls
      <3>3. d = [n EXCEPT !.p.fails = f, !.resolve = v]
        BY <2>5, <3>1, <3>2 DEF Calls
      <3> QED BY <2>2, <3>3
    <2> QED BY <2>1, <2>3, <2>4, <2>5
  <1> QED BY <1>2, <1>3

\* The addresses of the selection: none, or one.
LEMMA OneSelected ==
    ASSUME NEW p \in Policy, NEW a \in AddrOf(p.sel)
    PROVE  p.sel # {} /\ \A b \in AddrOf(p.sel) : b = a
  <1>1. p.sel \in MaybeExt
    BY DEF Policy
  <1>2. CASE p.sel = {}
    BY <1>2 DEF AddrOf
  <1>3. CASE p.sel # {}
    <2>1. PICK e \in Ext : p.sel = {e}
      BY <1>1, <1>3 DEF MaybeExt
    <2>2. \A b \in AddrOf(p.sel) : b = e.addr
      BY <2>1 DEF AddrOf
    <2> QED BY <1>3, <2>2
  <1> QED BY <1>2, <1>3

\* The update for a says s: what p must have cached, and whether a is its selection.
Expected(p, a, s) ==
    /\ s = "IDLE" => p.cache[a] = "READY" \/ (p.cache[a] = "TRANSIENT_FAILURE" /\ p.err)
    /\ p.cache[a] = "READY" => s = "IDLE"
    /\ p.cache[a] = "CONNECTING" => s \in {"READY", "TRANSIENT_FAILURE", "CONNECTING"}
    /\ a \notin AddrOf(p.sel) => p.sel = {} /\ p.conn # "READY" /\ Cold(p)
    /\ a \in AddrOf(p.sel) => p.cache[a] = "READY" /\ p.conn = "READY" /\ p.steady = FALSE

\* What the next update for a listed address can say.
LEMMA NextUpdate ==
    ASSUME NEW p \in Policy, NEW Q, NEW q, NEW en, NEW su, NEW a, NEW s,
           Fresh(p, <<>>, Q, en, su), Took(Q, q, en, a, s), a \in Listed(p)
    PROVE  Expected(p, a, s)
  <1>1. Learns(p, <<>>, Q, en, su, a) /\ Selection(p, <<>>, Q, su) /\ Progress(p, <<>>, Q, su)
    BY DEF Fresh, Known
  <1>2. s \in After(p.cache[a]) /\ p.cache[a] \in States
    BY <1>1 DEF Learns, Took
  <1>3. ASSUME a \notin AddrOf(p.sel) PROVE p.sel = {} /\ p.conn # "READY" /\ Cold(p)
    <2>1. p.sel = {}
      <3> SUFFICES ASSUME p.sel # {} PROVE FALSE
        OBVIOUS
      <3>1. Quiet(p, <<>>, Q, su, a)
        BY <1>1, <1>3 DEF Selection
      <3> QED BY <3>1 DEF Quiet, Waits, Took
    <2>2. AddrOf(p.sel) = {}
      BY <2>1 DEF AddrOf
    <2> QED BY <1>1, <2>1, <2>2 DEF Selection, Cold
  <1>4. ASSUME a \in AddrOf(p.sel)
        PROVE  p.cache[a] = "READY" /\ p.conn = "READY" /\ p.steady = FALSE
    <2>1. p.sel # {}
      BY <1>4, OneSelected
    <2>2. p.cache[a] = "READY" /\ p.conn = "READY"
      BY <1>1, <1>4, <2>1 DEF Selection
    <2>3. p.steady \in BOOLEAN
      BY DEF Policy
    <2> QED BY <1>1, <2>2, <2>3 DEF Progress
  <1>5. s = "IDLE" => p.cache[a] = "READY" \/ (p.cache[a] = "TRANSIENT_FAILURE" /\ p.err)
    BY <1>1, <1>2 DEF After, MovesFrom, States, Learns
  <1>6. /\ p.cache[a] = "READY" => s = "IDLE"
        /\ p.cache[a] = "CONNECTING" => s \in {"READY", "TRANSIENT_FAILURE", "CONNECTING"}
    BY <1>2 DEF After, MovesFrom, States
  <1> QED BY <1>3, <1>4, <1>5, <1>6 DEF Expected

\* In steady state an update moves nothing but the subchannel it is about.
LEMMA NudgedFresh ==
    ASSUME NEW c \in Calls, NEW n, NEW d, NEW a \in Addr, NEW s \in States,
           NEW Q, NEW q, NEW en, NEW su, Fresh(c.p, <<>>, Q, en, su), Took(Q, q, en, a, s),
           Backs(c.p, q, en, su), a \in Listed(c.p), c.p.steady = TRUE, c.p.sel = {}, s # "READY",
           c.p.conn # "READY", Cold(c.p), c.connects = <<>>, c.panic = FALSE,
           Learned(c, a, s, n), Known(n.p, <<>>, q, en, su), Nudged(n, a, s, d)
    PROVE  Fresh(d.p, d.connects, q, en, su) /\ d.panic = FALSE
  <1>1. /\ d.p.list = c.p.list /\ d.p.cache = [c.p.cache EXCEPT ![a] = s]
        /\ d.p.cache = n.p.cache /\ d.p.list = n.p.list /\ d.p.err = n.p.err
        /\ d.p.sel = {} /\ d.p.conn = c.p.conn /\ d.p.frontier = c.p.frontier
        /\ d.p.steady = TRUE /\ d.panic = FALSE
        /\ d.connects = IF s = "IDLE" THEN Append(<<>>, a) ELSE <<>>
        /\ c.p.cache \in [Addr -> States \cup {"NONE"}]
    BY DEF Learned, Nudged, Calls, Policy
  <1>2. Known(d.p, d.connects, q, en, su)
    BY <1>1, KnownGrows
  <1>3. Selection(d.p, d.connects, q, su)
    <2>1. Cold(d.p)
      BY <1>1 DEF Cold, Listed
    <2> QED BY <1>1, <2>1, NoSelection
  <1>4. Progress(c.p, <<>>, Q, su)
    BY DEF Fresh
  <1>5. c.p.conn = "TRANSIENT_FAILURE" /\ c.p.list # <<>>
    <2>1. c.p.conn = "TRANSIENT_FAILURE"
      BY <1>4 DEF Progress
    <2>2. Exts(<<>>) = {}
      BY DEF Exts, Range
    <2> QED BY <2>1, <2>2 DEF Listed, AddrOf
  <1>6. ASSUME NEW b \in Listed(d.p), su[b] = "IDLE" PROVE Waits(d.connects, q, su, b)
    <2>0. b \in Listed(c.p)
      BY <1>1 DEF Listed
    <2>1. Waits(<<>>, Q, su, b)
      BY <1>4, <1>5, <1>6, <2>0 DEF Progress
    <2>2. CASE b # a
      BY <2>1, <2>2, NoStarts DEF Waits, Took
    <2>3. CASE b = a /\ s = "IDLE"
      <3>1. a \in Range(d.connects)
        BY <1>1, <2>3, OneConnect
      <3> QED BY <1>6, <2>3, <3>1 DEF Waits, Starts
    <2>4. CASE b = a /\ s # "IDLE"
      <3>1. ~Has(q, ExtOf(a)) => en[a] = s
        BY DEF Took
      <3>2. ~Has(q, IntOf(a)) => en[a] = su[a]
        BY DEF Backs
      <3> QED BY <1>6, <2>4, <3>1, <3>2 DEF Waits
    <2> QED BY <2>2, <2>3, <2>4
  <1>7. Progress(d.p, d.connects, q, su)
    BY <1>1, <1>4, <1>5, <1>6 DEF Progress
  <1> QED BY <1>1, <1>2, <1>3, <1>7 DEF Fresh

\* subchannel_activate leaves one address, which is READY.
LEMMA ActivatedFresh ==
    ASSUME NEW k \in Calls, NEW e \in Ext, NEW d, NEW a, a = e.addr, Activated(k, e, d),
           NEW q, NEW en, NEW su, Known(k.p, <<>>, q, en, su), k.connects = <<>>,
           k.panic = FALSE, a \in Listed(k.p), k.p.cache[a] = "READY"
    PROVE  Fresh(d.p, d.connects, q, en, su) /\ d.panic = FALSE
  <1>1. k.p \in Policy /\ d.connects = <<>> /\ d.panic = FALSE
    BY DEF Calls, Activated
  <1>2. /\ d.p.sel = {e} /\ d.p.list = <<e>> /\ d.p.steady = FALSE /\ d.p.timer = "none"
        /\ d.p.conn = "READY" /\ d.p.cache = k.p.cache /\ d.p.err = k.p.err
    BY <1>1 DEF Activated, Policy
  <1>3. Exts(<<e>>) = {e}
    BY OneListed
  <1>4. Listed(d.p) = {a} /\ AddrOf(d.p.sel) = {a}
    BY <1>2, <1>3 DEF Listed, AddrOf
  <1>5. Learns(k.p, <<>>, q, en, su, a)
    BY DEF Known
  <1>6. Known(d.p, d.connects, q, en, su)
    BY <1>1, <1>2, <1>4, <1>5 DEF Known, Learns
  <1>7. Selection(d.p, d.connects, q, su)
    BY <1>2, <1>4 DEF Selection
  <1>8. Progress(d.p, d.connects, q, su)
    BY <1>2 DEF Progress
  <1> QED BY <1>1, <1>6, <1>7, <1>8 DEF Fresh

\* subchannel_update.
LEMMA UpdateFresh ==
    ASSUME NEW c \in Calls, NEW e \in Ext, NEW s \in States, NEW d,
           d = SubchannelUpdate(c, e, s), NEW a \in Addr, a = e.addr,
           NEW Q, NEW q, NEW en, NEW su, Fresh(c.p, <<>>, Q, en, su), Took(Q, q, en, a, s),
           Backs(c.p, q, en, su), Distinct(c.p.list), c.connects = <<>>, c.panic = FALSE
    PROVE  Fresh(d.p, d.connects, q, en, su) /\ d.panic = FALSE
  <1>1. PICK k, n : UpdateCase(c, e, s, d, k, n)
    BY SubchannelUpdateCases
  <1>2. /\ Learned(c, a, s, k) /\ k.p.err = c.p.err
        /\ Learned(c, a, s, n) /\ n.p.err = (c.p.err \/ s = "TRANSIENT_FAILURE")
        /\ \/ a \notin Listed(c.p) /\ d = c
           \/ /\ a \in Listed(c.p)
              /\ \/ a \in AddrOf(c.p.sel) /\ s = "READY" /\ d = k
                 \/ a \in AddrOf(c.p.sel) /\ s # "READY" /\ Dropped(k, d)
                 \/ a \notin AddrOf(c.p.sel) /\ s = "READY" /\ d = Activate(k, e)
                 \/ /\ a \notin AddrOf(c.p.sel) /\ s # "READY" /\ c.p.steady
                    /\ d = SubchannelNonready(n, a, s)
                 \/ /\ a \notin AddrOf(c.p.sel) /\ s # "READY" /\ ~c.p.steady
                    /\ d = UpdateFirstPass(n, a, s)
    BY <1>1 DEF UpdateCase, Selected, Listed
  <1>3. /\ c.p \in Policy /\ c.p.cache \in [Addr -> States \cup {"NONE"}]
        /\ c.p.err \in BOOLEAN /\ c.p.steady \in BOOLEAN /\ c.p.list \in Seq(Ext)
        /\ c.p.frontier \in Nat /\ Len(c.p.list) \in Nat
    BY ListSound DEF Calls, Policy
  <1>4. /\ Known(c.p, <<>>, Q, en, su) /\ Selection(c.p, <<>>, Q, su)
        /\ Progress(c.p, <<>>, Q, su)
    BY DEF Fresh
  <1>5. ASSUME a \notin Listed(c.p), d = c
        PROVE  Fresh(d.p, d.connects, q, en, su) /\ d.panic = FALSE
    <2>1. Alike(c.p, Q, q)
      BY <1>5 DEF Alike, Took
    <2>2. Fresh(c.p, <<>>, q, en, su)
      BY <2>1, FreshAlike
    <2> QED BY <1>5, <2>2
  <1> SUFFICES ASSUME a \in Listed(c.p)
               PROVE  Fresh(d.p, d.connects, q, en, su) /\ d.panic = FALSE
    BY <1>2, <1>5
  <1>6. /\ s = "IDLE" => c.p.cache[a] = "READY" \/ (c.p.cache[a] = "TRANSIENT_FAILURE" /\ c.p.err)
        /\ c.p.cache[a] = "READY" => s = "IDLE"
        /\ c.p.cache[a] = "CONNECTING" => s \in {"READY", "TRANSIENT_FAILURE", "CONNECTING"}
        /\ a \notin AddrOf(c.p.sel) => c.p.sel = {} /\ c.p.conn # "READY" /\ Cold(c.p)
        /\ a \in AddrOf(c.p.sel) => c.p.cache[a] = "READY" /\ c.p.conn = "READY" /\ c.p.steady = FALSE
    <2>1. PICK p \in Policy : p = c.p
      BY <1>3
    <2>2. Expected(p, a, s)
      BY <2>1, NextUpdate
    <2> QED BY <2>1, <2>2 DEF Expected
  <1>7. ASSUME s # "TRANSIENT_FAILURE" PROVE Known(k.p, <<>>, q, en, su)
    BY <1>2, <1>4, <1>7, LearnedKnown
  <1>8. Known(n.p, <<>>, q, en, su)
    BY <1>2, <1>3, <1>4, LearnedKnown
  <1>9. ASSUME a \in AddrOf(c.p.sel), s # "READY", Dropped(k, d)
        PROVE  Fresh(d.p, d.connects, q, en, su) /\ d.panic = FALSE
    <2>1. s = "IDLE" /\ c.p.steady = FALSE
      BY <1>6, <1>9
    <2>2. /\ d.p.sel = {} /\ d.p.conn = "IDLE" /\ d.p.list = c.p.list
          /\ d.p.cache = [c.p.cache EXCEPT ![a] = s] /\ d.p.cache = k.p.cache
          /\ d.p.list = k.p.list /\ d.p.err = k.p.err /\ d.p.steady = FALSE
          /\ d.connects = <<>> /\ d.panic = FALSE
      BY <1>2, <1>9, <2>1 DEF Dropped, Learned
    <2>3. Known(d.p, d.connects, q, en, su)
      BY <1>7, <2>1, <2>2, KnownGrows
    <2>4. Cold(d.p)
      <3> SUFFICES ASSUME NEW b \in Listed(d.p) PROVE d.p.cache[b] # "READY"
        BY DEF Cold
      <3>1. b \in Listed(c.p)
        BY <2>2 DEF Listed
      <3>2. CASE b = a
        BY <1>3, <2>1, <2>2, <3>2
      <3>3. CASE b # a
        <4>1. b \notin AddrOf(c.p.sel)
          BY <1>3, <1>9, <3>3, OneSelected
        <4>2. d.p.cache[b] = c.p.cache[b]
          BY <1>3, <2>2, <3>3
        <4> QED BY <1>4, <3>1, <4>1, <4>2 DEF Selection
      <3> QED BY <3>2, <3>3
    <2>5. Selection(d.p, d.connects, q, su)
      BY <2>2, <2>4, NoSelection
    <2>6. Progress(d.p, d.connects, q, su)
      BY <2>2 DEF Progress
    <2> QED BY <2>2, <2>3, <2>5, <2>6 DEF Fresh
  <1>10. ASSUME a \notin AddrOf(c.p.sel), s = "READY", d = Activate(k, e)
         PROVE  Fresh(d.p, d.connects, q, en, su) /\ d.panic = FALSE
    <2>1. /\ k \in Calls /\ k.p.list = c.p.list /\ k.p.sel = c.p.sel
          /\ k.p.cache = [c.p.cache EXCEPT ![a] = s] /\ k.connects = <<>> /\ k.panic = FALSE
      BY <1>2 DEF Learned
    <2>2. ~Selected(k.p, e)
      BY <1>10, <2>1 DEF Selected
    <2>3. Activated(k, e, d)
      BY <1>10, <2>1, <2>2, ActivateSound
    <2>4. a \in Listed(k.p) /\ k.p.cache[a] = "READY"
      BY <1>3, <1>10, <2>1 DEF Listed
    <2> QED BY <1>7, <1>10, <2>1, <2>3, <2>4, ActivatedFresh
  <1>11. ASSUME a \notin AddrOf(c.p.sel), s # "READY", c.p.steady, d = SubchannelNonready(n, a, s)
         PROVE  Fresh(d.p, d.connects, q, en, su) /\ d.panic = FALSE
    <2>1. n \in Calls
      BY <1>2 DEF Learned
    <2>2. Nudged(n, a, s, d)
      BY <1>11, <2>1, SubchannelNonreadySound
    <2>3. c.p.steady = TRUE
      BY <1>3, <1>11
    <2> QED BY <1>2, <1>6, <1>8, <1>11, <2>2, <2>3, NudgedFresh
  <1>12. ASSUME a \notin AddrOf(c.p.sel), s # "READY", ~c.p.steady, d = UpdateFirstPass(n, a, s)
         PROVE  Fresh(d.p, d.connects, q, en, su) /\ d.panic = FALSE
    <2>1. /\ n \in Calls /\ n.p.list = c.p.list /\ n.p.sel = {} /\ n.p.conn = c.p.conn
          /\ n.p.frontier = c.p.frontier /\ n.p.steady = FALSE
          /\ n.p.cache = [c.p.cache EXCEPT ![a] = s] /\ n.connects = <<>> /\ n.panic = FALSE
      BY <1>2, <1>3, <1>6, <1>12 DEF Learned
    <2>2. Cold(n.p)
      BY <1>3, <1>6, <1>12, <2>1 DEF Cold, Listed
    <2>3. a \in Listed(n.p) /\ n.p.cache[a] = s
      BY <1>3, <2>1 DEF Listed
    <2>4. s # "CONNECTING" => n.p.err = TRUE
      <3>1. s \in {"IDLE", "CONNECTING", "TRANSIENT_FAILURE"}
        BY <1>12 DEF States
      <3>2. s = "IDLE" => c.p.err
        BY <1>6, <1>12 DEF Cold
      <3> QED BY <1>2, <1>3, <3>1, <3>2
    <2>5. ASSUME c.p.conn = "CONNECTING", c.p.frontier <= Len(c.p.list)
          PROVE  \/ n.p.list[n.p.frontier].addr = a /\ s = "TRANSIENT_FAILURE"
                 \/ n.p.cache[n.p.list[n.p.frontier].addr] = "CONNECTING"
      <3>1. c.p.cache[c.p.list[c.p.frontier].addr] = "CONNECTING"
        BY <1>4, <2>5 DEF Progress
      <3>2. CASE c.p.list[c.p.frontier].addr = a
        <4>1. s = "TRANSIENT_FAILURE" \/ s = "CONNECTING"
          BY <1>6, <1>12, <3>1, <3>2
        <4> QED BY <2>1, <2>3, <3>2, <4>1
      <3>3. CASE c.p.list[c.p.frontier].addr # a
        BY <1>3, <2>1, <3>1, <3>3
      <3> QED BY <3>2, <3>3
    <2>6. c.p.conn = "TRANSIENT_FAILURE" => c.p.frontier > Len(c.p.list)
      <3>1. Exts(<<>>) = {}
        BY DEF Exts, Range
      <3>2. c.p.list # <<>>
        BY <3>1 DEF Listed, AddrOf
      <3> QED BY <1>4, <3>2 DEF Progress
    <2>7. InPass(n, a, s)
      BY <1>6, <1>12, <2>1, <2>2, <2>3, <2>4, <2>5, <2>6 DEF InPass
    <2>8. Backs(n.p, q, en, su) /\ Distinct(n.p.list)
      BY <2>1 DEF Backs, Listed
    <2> QED BY <1>8, <1>12, <2>1, <2>7, <2>8, FirstPassFresh
  <1> QED BY <1>2, <1>6, <1>9, <1>10, <1>11, <1>12

\* A policy that shows something else than READY has selected nothing.
LEMMA Unselected ==
    ASSUME NEW p, NEW q, NEW en, NEW su, Fresh(p, <<>>, q, en, su),
           p.conn # "READY" \/ p.timer # "none"
    PROVE  p.sel = {} /\ p.conn # "READY" /\ Cold(p)
  <1>1. Selection(p, <<>>, q, su)
    BY DEF Fresh
  <1>2. p.sel = {} /\ p.conn # "READY"
    BY <1>1 DEF Selection
  <1>3. AddrOf(p.sel) = {}
    BY <1>2 DEF AddrOf
  <1> QED BY <1>1, <1>2, <1>3 DEF Selection, Cold

\* work(None): the pass begins, or goes on to the next address.
LEMMA WorkNoneFresh ==
    ASSUME NEW c \in Calls, NEW d, d = WorkNone(c), NEW q, NEW en, NEW su,
           Fresh(c.p, <<>>, q, en, su), Backs(c.p, q, en, su),
           c.connects = <<>>, c.panic = FALSE
    PROVE  Fresh(d.p, d.connects, q, en, su) /\ d.panic = FALSE
  <1>1. /\ c.p \in Policy /\ c.p.steady \in BOOLEAN /\ c.p.list \in Seq(Ext)
        /\ c.p.frontier \in Nat \ {0} /\ Len(c.p.list) \in Nat
        /\ DOMAIN c.p.list = 1 .. Len(c.p.list)
    BY ListSound DEF Calls, Policy
  <1>2. /\ Known(c.p, <<>>, q, en, su) /\ Selection(c.p, <<>>, q, su)
        /\ Progress(c.p, <<>>, q, su)
    BY DEF Fresh
  <1>3. \/ d = c
        \/ c.p.conn = "IDLE" /\ c.p.list # <<>> /\ d = StartConnectionPass(c)
        \/ c.p.timer = "expired" /\ d = TryNext(c, c.p.frontier + 1)
    BY Zenon DEF WorkNone, ExitIdle
  <1>4. CASE c.p.conn = "IDLE" /\ c.p.list # <<>> /\ d = StartConnectionPass(c)
    <2>1. Started(c, d)
      BY <1>4, StartConnectionPassSound
    <2>2. Cold(c.p)
      BY <1>4, Unselected
    <2>3. c.p.steady = FALSE
      BY <1>1, <1>2, <1>4 DEF Progress
    <2> QED BY <1>2, <1>4, <2>1, <2>2, <2>3, StartedFresh
  <1>5. CASE c.p.timer = "expired" /\ d = TryNext(c, c.p.frontier + 1)
    <2>1. c.p.sel = {} /\ c.p.conn # "READY" /\ Cold(c.p)
      BY <1>5, Unselected
    <2>2. PICK start \in Nat \ {0} : start = c.p.frontier + 1
      BY <1>1
    <2>3. Tried(c, start, d)
      BY <1>5, <2>2, TryNextSound
    <2>4. /\ d.p.list = c.p.list /\ d.p.conn = c.p.conn /\ d.p.sel = {}
          /\ d.p.steady = c.p.steady /\ d.p.frontier \in Nat /\ start <= d.p.frontier
          /\ d.panic = FALSE
      BY <2>1, <2>3 DEF Tried
    <2>5. /\ Known(d.p, d.connects, q, en, su) /\ Cold(d.p)
          /\ d.p.frontier <= Len(d.p.list) =>
                d.p.cache[d.p.list[d.p.frontier].addr] = "CONNECTING"
          /\ d.p.frontier > Len(d.p.list) => d.p.cache = c.p.cache /\ d.connects = <<>>
      BY <1>2, <2>1, <2>3, TriedKnown
    <2>6. Selection(d.p, d.connects, q, su)
      BY <2>1, <2>4, <2>5, NoSelection
    <2>7. ASSUME d.p.conn = "CONNECTING", ~(d.p.frontier <= Len(d.p.list)) PROVE AnyConnecting(d.p)
      <3>1. d.p.cache = c.p.cache
        BY <1>1, <2>4, <2>5, <2>7
      <3>2. CASE c.p.frontier <= Len(c.p.list)
        <4>1. c.p.list[c.p.frontier] \in Exts(c.p.list)
          BY <1>1, <3>2, ListSound
        <4>2. c.p.cache[c.p.list[c.p.frontier].addr] = "CONNECTING"
          BY <1>2, <2>4, <2>7, <3>2 DEF Progress
        <4> QED BY <2>4, <3>1, <4>1, <4>2 DEF AnyConnecting
      <3>3. CASE ~(c.p.frontier <= Len(c.p.list))
        <4>1. AnyConnecting(c.p)
          BY <1>2, <2>4, <2>7, <3>3 DEF Progress
        <4> QED BY <2>4, <3>1, <4>1 DEF AnyConnecting
      <3> QED BY <3>2, <3>3
    <2>8. ASSUME d.p.conn = "TRANSIENT_FAILURE", d.p.list # <<>>
          PROVE  d.p.frontier > Len(d.p.list) /\ d.p.cache = c.p.cache /\ d.connects = <<>>
      <3>1. c.p.frontier > Len(c.p.list)
        BY <1>2, <2>4, <2>8 DEF Progress
      <3>2. d.p.frontier > Len(d.p.list)
        BY <1>1, <2>2, <2>4, <3>1
      <3> QED BY <2>5, <3>2
    <2>9. Progress(d.p, d.connects, q, su)
      <3>1. d.p.steady => d.p.conn = "TRANSIENT_FAILURE"
        BY <1>2, <2>4 DEF Progress
      <3>2. d.p.conn = "CONNECTING" =>
              IF d.p.frontier <= Len(d.p.list)
              THEN d.p.cache[d.p.list[d.p.frontier].addr] = "CONNECTING"
              ELSE AnyConnecting(d.p)
        BY <2>5, <2>7
      <3>3. ASSUME d.p.conn = "TRANSIENT_FAILURE", d.p.list # <<>>
            PROVE  IF d.p.steady
                   THEN \A a \in Listed(d.p) : su[a] = "IDLE" => Waits(d.connects, q, su, a)
                   ELSE \E a \in Listed(d.p) :
                           \/ d.p.cache[a] \in {"TRANSIENT_FAILURE", "CONNECTING"}
                           \/ Waits(d.connects, q, su, a)
        BY <1>2, <2>4, <2>8, <3>3 DEF Progress, Listed
      <3> QED BY <2>8, <3>1, <3>2, <3>3 DEF Progress
    <2> QED BY <2>4, <2>5, <2>6, <2>9 DEF Fresh
  <1> QED BY <1>3, <1>4, <1>5

\* set_transient_failure with an error at hand, of a policy that has no list or fails already.
LEMMA FailedFresh ==
    ASSUME NEW c \in Calls, NEW d, Failed(c, TRUE, d), NEW q, NEW en, NEW su,
           c.connects = <<>>, c.panic = FALSE, c.p.sel = {}, c.p.steady = FALSE,
           Known(c.p, <<>>, q, en, su), Cold(c.p),
           c.p.list # <<>> => /\ c.p.conn = "TRANSIENT_FAILURE"
                              /\ Progress(c.p, <<>>, q, su)
    PROVE  Fresh(d.p, d.connects, q, en, su) /\ d.panic = FALSE
  <1>1. c.p \in Policy
    BY DEF Calls
  <1>2. /\ d.panic = FALSE /\ d.connects = <<>>
        /\ d.p = [c.p EXCEPT !.err = TRUE, !.conn = "TRANSIENT_FAILURE"]
    BY DEF Failed
  <1>3. /\ d.p.list = c.p.list /\ d.p.cache = c.p.cache /\ d.p.err = TRUE /\ d.p.sel = {}
        /\ d.p.conn = "TRANSIENT_FAILURE" /\ d.p.steady = FALSE /\ d.p.frontier = c.p.frontier
    BY <1>1, <1>2 DEF Policy
  <1>4. Known(d.p, d.connects, q, en, su)
    BY <1>3, KnownGrows
  <1>5. Selection(d.p, d.connects, q, su)
    <2>1. Cold(d.p)
      BY <1>3 DEF Cold, Listed
    <2> QED BY <1>3, <2>1, NoSelection
  <1>6. Progress(d.p, d.connects, q, su)
    BY <1>2, <1>3 DEF Progress, Listed
  <1> QED BY <1>2, <1>4, <1>5, <1>6 DEF Fresh

\* p once the timer and the steady state are gone.
Reset(p, r) ==
    /\ r.list = p.list /\ r.cache = p.cache /\ r.sel = p.sel /\ r.conn = p.conn
    /\ r.frontier = p.frontier /\ r.err = p.err /\ r.timer = "none" /\ r.steady = FALSE

\* resolver_update begins by leaving steady state: an address that is not idle fails,
\* connects or has something to report.
LEMMA ResetFresh ==
    ASSUME NEW p \in Policy, NEW r, Reset(p, r), NEW q, NEW en, NEW su,
           Fresh(p, <<>>, q, en, su), Backs(p, q, en, su)
    PROVE  Fresh(r, <<>>, q, en, su)
  <1>0. /\ Known(p, <<>>, q, en, su) /\ Selection(p, <<>>, q, su)
        /\ Progress(p, <<>>, q, su)
    BY DEF Fresh
  <1>1. Known(r, <<>>, q, en, su)
    BY <1>0, KnownGrows DEF Reset
  <1>2. Selection(r, <<>>, q, su)
    BY <1>0 DEF Selection, Quiet, Listed, Reset
  <1>3. ASSUME r.conn = "TRANSIENT_FAILURE", r.list # <<>>
        PROVE  \E a \in Listed(r) :
                  \/ r.cache[a] \in {"TRANSIENT_FAILURE", "CONNECTING"}
                  \/ Waits(<<>>, q, su, a)
    <2>1. CASE ~p.steady
      BY <1>0, <1>3, <2>1 DEF Progress, Listed, Reset
    <2>2. CASE p.steady
      <3>1. PICK a : a \in Listed(p)
        <4>1. p.list \in Seq(Ext) /\ p.list # <<>>
          BY <1>3 DEF Policy, Reset
        <4>2. 1 \in DOMAIN p.list
          BY <4>1, ListSound
        <4>3. p.list[1] \in Exts(p.list)
          BY <4>1, <4>2, ListSound
        <4> QED BY <4>3 DEF Listed, AddrOf
      <3>2. su[a] = "IDLE" => Waits(<<>>, q, su, a)
        BY <1>0, <1>3, <2>2, <3>1 DEF Progress, Reset
      <3>3. ASSUME ~Waits(<<>>, q, su, a)
            PROVE  p.cache[a] = su[a] /\ p.cache[a] \in States
        BY <1>0, <3>1, <3>3 DEF Known, Learns, Waits, Backs
      <3>4. p.cache[a] # "READY"
        <4>1. Cold(p)
          BY <1>3, Unselected DEF Reset
        <4> QED BY <3>1, <4>1 DEF Cold
      <3>5. \/ p.cache[a] \in {"TRANSIENT_FAILURE", "CONNECTING"}
            \/ Waits(<<>>, q, su, a)
        BY <3>2, <3>3, <3>4 DEF States
      <3> QED BY <3>1, <3>5 DEF Reset, Listed
    <2> QED BY <2>1, <2>2
  <1>4. Progress(r, <<>>, q, su)
    BY <1>0, <1>3 DEF Progress, Reset, AnyConnecting
  <1> QED BY <1>1, <1>2, <1>4 DEF Fresh

\* resolver_update with an error.
LEMMA ResolverErrorFresh ==
    ASSUME NEW c \in Calls, NEW d, NEW q, NEW en, NEW su, c.p.steady = FALSE,
           d = IF c.p.list = <<>> \/ c.p.conn = "TRANSIENT_FAILURE"
               THEN SetTransientFailure(c, TRUE) ELSE c,
           Fresh(c.p, <<>>, q, en, su), c.p.sel \subseteq Exts(c.p.list),
           c.connects = <<>>, c.panic = FALSE
    PROVE  Fresh(d.p, d.connects, q, en, su) /\ d.panic = FALSE
  <1>1. CASE c.p.list = <<>> \/ c.p.conn = "TRANSIENT_FAILURE"
    <2>1. Failed(c, TRUE, d)
      BY <1>1, SetTransientFailureSound
    <2>2. c.p.sel = {} /\ Cold(c.p)
      <3>1. CASE c.p.list = <<>>
        <4>1. Exts(c.p.list) = {}
          BY <3>1 DEF Exts, Range
        <4> QED BY <4>1 DEF Cold, Listed, AddrOf
      <3>2. CASE c.p.conn = "TRANSIENT_FAILURE"
        BY <3>2, Unselected
      <3> QED BY <1>1, <3>1, <3>2
    <2> QED BY <1>1, <2>1, <2>2, FailedFresh DEF Fresh
  <1>2. CASE ~(c.p.list = <<>> \/ c.p.conn = "TRANSIENT_FAILURE")
    BY <1>2
  <1> QED BY <1>1, <1>2

\* resolver_update with an empty list.
LEMMA EmptyListFresh ==
    ASSUME NEW c \in Calls, NEW d, d = SetTransientFailure(c, TRUE), NEW q, NEW en, NEW su,
           c.p.list = <<>>, c.p.sel = {}, c.p.steady = FALSE, c.connects = <<>>, c.panic = FALSE
    PROVE  Fresh(d.p, d.connects, q, en, su) /\ d.panic = FALSE
  <1>1. Failed(c, TRUE, d)
    BY SetTransientFailureSound
  <1>2. Exts(c.p.list) = {}
    BY DEF Exts, Range
  <1>3. Known(c.p, <<>>, q, en, su) /\ Cold(c.p)
    BY <1>2 DEF Known, Cold, Listed, AddrOf
  <1> QED BY <1>1, <1>3, FailedFresh

\* The sharing layer has nothing of the addresses A: it makes a new subchannel for each.
Unknown(A, q, en, su) ==
    \A a \in A : /\ entry[a] = "NONE" /\ en[a] = "IDLE" /\ su[a] = "IDLE"
                 /\ ~Has(q, ExtOf(a)) /\ ~Has(q, IntOf(a))

\* rebuild_subchannels: new subchannels are idle; a READY one is the selected one.
LEMMA RebuildFresh ==
    ASSUME NEW c \in Calls, NEW addrs \in Seq(Addr), NEW ids, NEW d, d = Rebuild(c, addrs, ids),
           addrs # <<>>, NEW q, NEW en, NEW su, Fresh(c.p, <<>>, q, en, su), Backs(c.p, q, en, su),
           \A a \in Range(addrs) \ Listed(c.p) : [addr |-> a, id |-> ids[a]] \in Ext,
           entry \in [Addr -> States \cup {"NONE"}],
           Unknown(Range(addrs) \ Listed(c.p), q, en, su),
           c.p.steady = FALSE, c.p.sel \subseteq Exts(c.p.list),
           c.connects = <<>>, c.panic = FALSE
    PROVE  Fresh(d.p, d.connects, q, en, su) /\ d.panic = FALSE
  <1>1. PICK b : Rebuilt(c, addrs, ids, b) /\ RebuildCase(addrs, b, d)
    BY RebuildSound DEF Listed
  <1>2. /\ b \in Calls /\ b.p.conn = c.p.conn /\ b.p.sel = c.p.sel /\ b.p.err = c.p.err
        /\ b.p.timer = c.p.timer /\ b.p.steady = FALSE /\ b.connects = <<>> /\ b.panic = FALSE
        /\ DOMAIN b.p.list = DOMAIN addrs
    BY <1>1 DEF Rebuilt
  <1>3. /\ \A i \in DOMAIN addrs : addrs[i] \in Range(addrs) /\ addrs[i] \in Addr
        /\ \A a \in Range(addrs) : \E i \in DOMAIN addrs : addrs[i] = a
        /\ DOMAIN addrs = 1 .. Len(addrs) /\ Len(addrs) \in Nat
    BY RangeSound
  <1>4. \A i \in DOMAIN addrs : b.p.list[i].addr = addrs[i]
    BY <1>1 DEF Rebuilt
  <1>5. Listed(b.p) = Range(addrs)
    <2>1. b.p.list \in Seq(Ext)
      BY <1>2 DEF Calls, Policy
    <2>2. /\ \A i \in DOMAIN b.p.list : b.p.list[i] \in Exts(b.p.list)
          /\ \A e \in Exts(b.p.list) : \E i \in DOMAIN b.p.list : b.p.list[i] = e
      BY <2>1, ListSound
    <2>3. ASSUME NEW a \in Listed(b.p) PROVE a \in Range(addrs)
      <3>1. PICK e \in Exts(b.p.list) : e.addr = a
        BY DEF Listed, AddrOf
      <3>2. PICK i \in DOMAIN addrs : b.p.list[i] = e
        BY <1>2, <2>2
      <3> QED BY <1>3, <1>4, <3>1, <3>2
    <2>4. ASSUME NEW a \in Range(addrs) PROVE a \in Listed(b.p)
      <3>1. PICK i \in DOMAIN addrs : addrs[i] = a
        BY <1>3
      <3>2. PICK e \in Exts(b.p.list) : e = b.p.list[i]
        BY <1>2, <2>2
      <3>3. e.addr = a
        BY <1>4, <3>1, <3>2
      <3> QED BY <3>3 DEF Listed, AddrOf
    <2> QED BY <2>3, <2>4
  <1>6. ASSUME NEW a \in Range(addrs)
        PROVE  /\ a \in Listed(c.p) => b.p.cache[a] = c.p.cache[a]
               /\ a \notin Listed(c.p) => b.p.cache[a] = "IDLE"
    <2>1. PICK i \in DOMAIN addrs : addrs[i] = a
      BY <1>3
    <2>2. /\ a \in Listed(c.p) => b.p.cache[a] = c.p.cache[a]
          /\ a \notin Listed(c.p) =>
                b.p.cache[a] = IF entry[a] = "NONE" THEN "IDLE" ELSE entry[a]
      BY <1>1, <2>1 DEF Rebuilt, Listed
    <2> QED BY <2>2 DEF Unknown
  <1>7. /\ Known(c.p, <<>>, q, en, su) /\ Selection(c.p, <<>>, q, su)
        /\ Progress(c.p, <<>>, q, su)
    BY DEF Fresh
  <1>8. Known(b.p, <<>>, q, en, su)
    <2> SUFFICES ASSUME NEW a \in Range(addrs) PROVE Learns(b.p, <<>>, q, en, su, a)
      BY <1>5 DEF Known
    <2>1. CASE a \in Listed(c.p)
      <3>1. Learns(c.p, <<>>, q, en, su, a) /\ b.p.cache[a] = c.p.cache[a]
        BY <1>6, <1>7, <2>1 DEF Known
      <3> QED BY <1>2, <3>1 DEF Learns
    <2>2. CASE a \notin Listed(c.p)
      <3>1. b.p.cache[a] = "IDLE" /\ en[a] = "IDLE" /\ ~Has(q, ExtOf(a))
        BY <1>6, <2>2 DEF Unknown
      <3>2. FirstIn(q, ExtOf(a), After("IDLE"))
        BY <3>1, NoneOfThem
      <3>3. "IDLE" \in States
        BY DEF States
      <3> QED BY <3>1, <3>2, <3>3 DEF Learns
    <2> QED BY <2>1, <2>2
  <1>9. Backs(b.p, q, en, su)
    <2> SUFFICES ASSUME NEW a \in Range(addrs)
                 PROVE  en[a] \in States /\ (~Has(q, IntOf(a)) => en[a] = su[a])
      BY <1>5 DEF Backs
    <2>1. CASE a \in Listed(c.p)
      BY <2>1 DEF Backs
    <2>2. CASE a \notin Listed(c.p)
      BY <2>2 DEF Unknown, States
    <2> QED BY <2>1, <2>2
  <1>10. CASE /\ \A i \in DOMAIN addrs : b.p.cache[addrs[i]] # "READY"
              /\ d = StartConnectionPass(b)
    <2>1. Started(b, d)
      BY <1>2, <1>10, StartConnectionPassSound
    <2>2. Cold(b.p)
      BY <1>3, <1>5, <1>10 DEF Cold
    <2>3. b.p.list # <<>>
      BY <1>2, <1>3
    <2> QED BY <1>2, <1>8, <1>9, <2>1, <2>2, <2>3, StartedFresh
  <1>11. CASE \E i \in DOMAIN addrs : b.p.cache[addrs[i]] = "READY" /\ d = Activate(b, b.p.list[i])
    <2>1. PICK i \in DOMAIN addrs : b.p.cache[addrs[i]] = "READY" /\ d = Activate(b, b.p.list[i])
      BY <1>11
    <2>2. addrs[i] \in Listed(c.p) /\ c.p.cache[addrs[i]] = "READY"
      <3>1. addrs[i] \in Range(addrs)
        BY <1>3
      <3> QED BY <1>6, <2>1, <3>1
    <2>3. addrs[i] \in AddrOf(c.p.sel)
      BY <1>7, <2>2 DEF Selection
    <2>4. d = b
      <3>1. Selected(b.p, b.p.list[i])
        BY <1>2, <1>4, <2>3 DEF Selected
      <3> QED BY <2>1, <3>1, Zenon DEF Activate
    <2>5. c.p.sel # {} /\ c.p.conn = "READY" /\ c.p.timer = "none"
      <3>1. c.p.sel # {}
        BY <2>3 DEF AddrOf
      <3> QED BY <1>7, <3>1 DEF Selection
    <2>6. AddrOf(c.p.sel) \subseteq Listed(c.p)
      BY DEF AddrOf, Listed
    <2>7. ASSUME NEW a \in Range(addrs), a \notin AddrOf(c.p.sel)
          PROVE  Quiet(b.p, <<>>, q, su, a)
      <3>1. CASE a \in Listed(c.p)
        <4>1. Quiet(c.p, <<>>, q, su, a)
          BY <1>7, <2>5, <2>7, <3>1 DEF Selection
        <4> QED BY <1>6, <3>1, <4>1 DEF Quiet
      <3>2. CASE a \notin Listed(c.p)
        BY <1>6, <3>2, NoStarts DEF Quiet, Waits, Unknown
      <3> QED BY <3>1, <3>2
    <2>8. ASSUME NEW a \in Range(addrs)
          PROVE  b.p.cache[a] = "READY" <=> a \in AddrOf(c.p.sel)
      <3>1. CASE a \in Listed(c.p)
        BY <1>6, <1>7, <3>1 DEF Selection
      <3>2. CASE a \notin Listed(c.p)
        BY <1>6, <2>6, <3>2
      <3> QED BY <3>1, <3>2
    <2>9. Selection(b.p, <<>>, q, su)
      BY <1>2, <1>5, <2>5, <2>7, <2>8 DEF Selection
    <2>10. Progress(b.p, <<>>, q, su)
      BY <1>2, <2>5 DEF Progress
    <2> QED BY <1>2, <1>8, <2>4, <2>9, <2>10 DEF Fresh
  <1> QED BY <1>1, <1>10, <1>11 DEF RebuildCase

-----------------------------------------------------------------------------
(* The end of a call.                                                      *)

\* What a queue in three parts, q, the releases and the reports, says of an address.
Tied(q, rep, r, a) ==
    /\ Linked(q, ExtOf(a)) => Linked(r, ExtOf(a))
    /\ \A S : FirstIn(q, ExtOf(a), S) => FirstIn(r, ExtOf(a), S)
    /\ /\ Linked(q, IntOf(a))
       /\ Has(q, IntOf(a)) /\ Has(rep, IntOf(a)) => LastIs(q, IntOf(a), "IDLE")
       => Linked(r, IntOf(a))
    /\ \A S : /\ FirstIn(q, IntOf(a), S)
              /\ ~Has(q, IntOf(a)) /\ Has(rep, IntOf(a)) => "CONNECTING" \in S
              => FirstIn(r, IntOf(a), S)

\* Releases and reports behind a queue.
LEMMA FinishLinks ==
    ASSUME NEW q \in Seq(WorkItem), NEW rel \in Seq(WorkItem),
           \A i \in DOMAIN rel : rel[i].kind = "released",
           NEW connects \in Seq(Addr), IsInjective(connects), NEW subs,
           NEW rep, rep = Reports(connects, subs), NEW r, r = q \o rel \o rep, NEW a
    PROVE  Tied(q, rep, r, a)
  <1>1. PICK m : m = q \o rel
    OBVIOUS
  <1>2. rep \in Seq(WorkItem) /\ \A i \in DOMAIN rep : rep[i].kind = "internal"
    BY ReportsSound
  <1>3. m \in Seq(WorkItem) /\ (\A K : Joined(q, rel, m, K)) /\ r = m \o rep
    BY <1>1, JoinSound
  <1>4. ~Has(rel, ExtOf(a)) /\ ~Has(rel, IntOf(a))
    <2>1. PICK kind : kind = "released" /\ \A i \in DOMAIN rel : rel[i].kind = kind
      OBVIOUS
    <2> QED BY <2>1, OfOneKind
  <1>5. ~Has(rep, ExtOf(a))
    BY <1>2, OfOneKind
  <1>6. /\ Linked(q, ExtOf(a)) => Linked(r, ExtOf(a))
        /\ \A S : FirstIn(q, ExtOf(a), S) => FirstIn(r, ExtOf(a), S)
    <2>1. /\ Linked(q, ExtOf(a)) => Linked(m, ExtOf(a))
          /\ \A S : FirstIn(q, ExtOf(a), S) => FirstIn(m, ExtOf(a), S)
      BY <1>1, <1>4, JoinLinks
    <2>2. /\ Linked(m, ExtOf(a)) => Linked(r, ExtOf(a))
          /\ \A S : FirstIn(m, ExtOf(a), S) => FirstIn(r, ExtOf(a), S)
      BY <1>2, <1>3, <1>5, JoinLinks
    <2> QED BY <2>1, <2>2
  <1>7. PICK K : K = IntOf(a)
    OBVIOUS
  <1>8. /\ Linked(q, K) => Linked(m, K)
        /\ \A S : FirstIn(q, K, S) => FirstIn(m, K, S)
        /\ Has(m, K) <=> Has(q, K)
        /\ \A s : LastIs(q, K, s) => LastIs(m, K, s)
    <2>1. ~Has(rel, K)
      BY <1>4, <1>7
    <2>2. \A s : LastIs(rel, K, s)
      BY <2>1, NoneOfThem
    <2>3. Joined(q, rel, m, K)
      BY <1>3
    <2> QED BY <1>1, <2>1, <2>2, <2>3, JoinLinks DEF Joined
  <1>9. Linked(rep, K) /\ FirstIn(rep, K, {"CONNECTING"})
    BY <1>7, ReportsLinks
  <1>10. Split(m, rep, r, K)
    BY <1>2, <1>3, SplitSound
  <1>11. ASSUME Linked(q, K), Has(q, K) /\ Has(rep, K) => LastIs(q, K, "IDLE")
         PROVE  Linked(r, K)
    <2>1. CASE ~Has(rep, K)
      BY <1>2, <1>3, <1>8, <1>11, <2>1, JoinLinks
    <2>2. CASE Has(rep, K)
      <3>1. MovesFrom("IDLE") = {"CONNECTING"}
        BY DEF MovesFrom
      <3>2. LastIs(m, K, "IDLE")
        <4>1. CASE Has(q, K)
          BY <1>8, <1>11, <2>2, <4>1
        <4>2. CASE ~Has(q, K)
          BY <1>8, <4>2, NoneOfThem
        <4> QED BY <4>1, <4>2
      <3>3. Linked(m, K)
        BY <1>8, <1>11
      <3> QED BY <1>9, <1>10, <3>1, <3>2, <3>3 DEF Split
    <2> QED BY <2>1, <2>2
  <1>12. ASSUME NEW S, FirstIn(q, K, S), ~Has(q, K) /\ Has(rep, K) => "CONNECTING" \in S
         PROVE  FirstIn(r, K, S)
    <2>1. FirstIn(m, K, S)
      BY <1>8, <1>12
    <2>2. ASSUME ~Has(m, K) PROVE FirstIn(rep, K, S)
      <3>1. CASE ~Has(rep, K)
        BY <3>1, NoneOfThem
      <3>2. CASE Has(rep, K)
        <4>1. {"CONNECTING"} \subseteq S
          BY <1>8, <1>12, <2>2, <3>2
        <4> QED BY <1>9, <4>1, FirstGrows
      <3> QED BY <3>1, <3>2
    <2> QED BY <1>10, <2>1, <2>2 DEF Split
  <1> QED BY <1>6, <1>7, <1>11, <1>12 DEF Tied

\* The step that ends a call reports what it connected in order.
LEMMA FinishReports ==
    ASSUME TypeOK, Sharing, ReportsMove, queue # <<>>,
           Head(queue).kind \in {"ext", "work", "resolver"},
           NEW rest, rest = Tail(queue), NEW rel, NEW rep, NEW c, NEW new \in SUBSET Ext,
           NEW R, Base(c, Held \cup new, R), Finished(c, new, rest, rel, rep)
    PROVE  ReportsMove' /\ \A a : Tied(rest, rep, queue', a)
  <1>1. /\ queue \in Seq(WorkItem) /\ entry \in [Addr -> States \cup {"NONE"}]
        /\ sub \in [Addr -> States]
    BY DEF TypeOK
  <1>2. rest \in Seq(WorkItem) /\ Head(queue) \in WorkItem /\ \A K : Beheaded(queue, rest, K)
    BY <1>1, TailSound
  <1>3. \A a : Head(queue) \notin IntOf(a)
    BY DEF IntOf
  <1>4. /\ rel \in Seq(WorkItem) /\ (\A i \in DOMAIN rel : rel[i].kind = "released")
        /\ rep = Reports(c.connects, SubsWith(new)) /\ queue' = rest \o rel \o rep
        /\ entry' = EntriesWith(new)
        /\ \A a : Has(rep, IntOf(a)) <=> a \in Range(c.connects) /\ SubsWith(new)[a] = "IDLE"
    BY DEF Finished
  <1>5. /\ c.connects \in Seq(Addr) /\ IsInjective(c.connects)
        /\ Range(c.connects) \subseteq AddrOf(Exts(c.p.list)) /\ Exts(c.p.list) \subseteq Held \cup new
    BY DEF Base, Calls
  <1>6. ASSUME NEW a PROVE Tied(rest, rep, queue', a)
    <2>1. PICK connects, subs : connects = c.connects /\ subs = SubsWith(new)
      OBVIOUS
    <2> QED BY <1>2, <1>4, <1>5, <2>1, FinishLinks
  <1>7. ASSUME NEW a \in Addr
        PROVE  Linked(queue', IntOf(a)) /\ FirstIn(queue', IntOf(a), MovesFrom(entry'[a]))
    <2>1. Linked(queue, IntOf(a)) /\ FirstIn(queue, IntOf(a), MovesFrom(entry[a]))
      BY DEF ReportsMove
    <2>2. Follows(queue, rest, IntOf(a))
      BY <1>1, TailLinks
    <2>3. Linked(rest, IntOf(a)) /\ FirstIn(rest, IntOf(a), MovesFrom(entry[a]))
      BY <1>3, <2>1, <2>2 DEF Follows
    <2>4. Has(rest, IntOf(a)) <=> Has(queue, IntOf(a))
      BY <1>2, <1>3 DEF Beheaded
    <2>5. "CONNECTING" \in MovesFrom("IDLE")
      BY DEF MovesFrom
    <2>6. Tied(rest, rep, queue', a)
      BY <1>6
    <2>7. CASE entry[a] = "NONE"
      <3>1. ~Has(rest, IntOf(a))
        BY <2>4, <2>7 DEF Sharing, Backed
      <3>2. \A S : FirstIn(rest, IntOf(a), S)
        BY <3>1, NoneOfThem
      <3>3. Has(rep, IntOf(a)) => entry'[a] = "IDLE"
        <4>1. ASSUME Has(rep, IntOf(a)) PROVE a \in AddrOf(new)
          <5>1. PICK e \in Held \cup new : e.addr = a
            BY <1>4, <1>5, <4>1 DEF AddrOf
          <5> QED BY <2>7, <5>1 DEF Sharing, Backed, AddrOf
        <4> QED BY <1>4, <2>7, <4>1 DEF EntriesWith
      <3> QED BY <2>3, <2>5, <2>6, <3>1, <3>2, <3>3 DEF Tied
    <2>8. CASE entry[a] # "NONE"
      <3>1. entry'[a] = entry[a] /\ SubsWith(new)[a] = sub[a]
        BY <1>4, <2>8 DEF EntriesWith, SubsWith
      <3>2. /\ ~Has(queue, IntOf(a)) => entry[a] = sub[a]
            /\ LastIs(queue, IntOf(a), sub[a])
        BY <2>8 DEF Sharing, Reported
      <3>3. LastIs(rest, IntOf(a), sub[a])
        BY <1>2, <3>2 DEF Beheaded
      <3>4. Has(rep, IntOf(a)) => sub[a] = "IDLE"
        BY <1>4, <3>1
      <3> QED BY <2>3, <2>4, <2>5, <2>6, <3>1, <3>2, <3>3, <3>4 DEF Tied
    <2> QED BY <2>7, <2>8
  <1> QED BY <1>6, <1>7 DEF ReportsMove

\* The policy after connect(): an idle subchannel that was told to connect reports it.
LEMMA ConnectedFresh ==
    ASSUME NEW p, NEW co, NEW q, NEW q2, NEW en, NEW su, NEW su2, Fresh(p, co, q, en, su),
           \A a \in Listed(p) :
               /\ su2[a] = IF Starts(co, su, a) THEN "CONNECTING" ELSE su[a]
               /\ Has(q2, ExtOf(a)) <=> Has(q, ExtOf(a))
               /\ \A S : FirstIn(q, ExtOf(a), S) => FirstIn(q2, ExtOf(a), S)
               /\ Has(q2, IntOf(a)) <=> Has(q, IntOf(a)) \/ Starts(co, su, a)
    PROVE  Fresh(p, <<>>, q2, en, su2)
  <1>1. ASSUME NEW a \in Listed(p)
        PROVE  /\ Waits(<<>>, q2, su2, a) <=> Waits(co, q, su, a)
               /\ su2[a] = "IDLE" => su[a] = "IDLE"
               /\ ~Starts(co, su, a) => su2[a] = su[a]
    BY NoStarts DEF Waits
  <1>2. Known(p, <<>>, q2, en, su2)
    <2> SUFFICES ASSUME NEW a \in Listed(p) PROVE Learns(p, <<>>, q2, en, su2, a)
      BY DEF Known
    <2>1. Learns(p, co, q, en, su, a)
      BY DEF Fresh, Known
    <2> QED BY <2>1 DEF Learns
  <1>3. Selection(p, <<>>, q2, su2)
    <2>1. Selection(p, co, q, su)
      BY DEF Fresh
    <2>2. ASSUME NEW a \in Listed(p), Quiet(p, co, q, su, a) PROVE Quiet(p, <<>>, q2, su2, a)
      BY <1>1, <2>2 DEF Quiet, Waits
    <2> QED BY <2>1, <2>2 DEF Selection
  <1>4. Progress(p, <<>>, q2, su2)
    <2>1. Progress(p, co, q, su)
      BY DEF Fresh
    <2> QED BY <1>1, <2>1 DEF Progress
  <1> QED BY <1>2, <1>3, <1>4 DEF Fresh

\* The step that ends a call keeps FInv, if the call left the policy in order.
LEMMA FinishFresh ==
    ASSUME IInv, FInv, queue # <<>>, Head(queue).kind \in {"ext", "work", "resolver"},
           NEW rest, rest = Tail(queue), NEW c, NEW new \in SUBSET Ext, IsFiniteSet(new),
           \A e, f \in new : e.addr = f.addr => e = f,
           NEW R, Base(c, Held \cup new, R), Finish(c, new),
           ~reused /\ (\A a \in AddrOf(new) : entry[a] = "NONE") =>
               /\ Fresh(c.p, c.connects, rest, EntriesWith(new), SubsWith(new))
               /\ c.panic = FALSE
    PROVE  FInv'
  <1>1. TypeOK /\ Sharing /\ ReportsMove /\ c \in Calls
    BY DEF IInv, FInv, Base
  <1>2. PICK rel, rep : Finished(c, new, rest, rel, rep)
    BY <1>1, FinishSound
  <1>3. Held' \subseteq Held \cup new
    BY <1>1, <1>2, FinishShares
  <1>4. ReportsMove' /\ \A a : Tied(rest, rep, queue', a)
    BY <1>1, <1>2, FinishReports
  <1>5. reused' = (reused \/ \E a \in AddrOf(new) : entry[a] # "NONE")
    BY Zenon DEF Finish
  <1>6. ASSUME ~reused'
        PROVE  /\ ~panicked' /\ OneEach' /\ (\A a \in Addr : Linked(queue', ExtOf(a)))
               /\ Fresh(pf', <<>>, queue', entry', sub')
    <2>1. ~reused /\ \A a \in AddrOf(new) : entry[a] = "NONE"
      BY <1>5, <1>6
    <2>2. /\ Fresh(c.p, c.connects, rest, EntriesWith(new), SubsWith(new))
          /\ c.panic = FALSE
      BY <2>1
    <2>3. OneEach /\ \A a \in Addr : Linked(queue, ExtOf(a))
      BY <2>1 DEF FInv
    <2>4. /\ pf' = c.p /\ panicked' = c.panic /\ entry' = EntriesWith(new)
          /\ sub' = ConnectedBy(c.connects, SubsWith(new)) /\ Extended(rest, rel, rep, queue')
          /\ \A a : Has(rep, IntOf(a)) <=> a \in Range(c.connects) /\ SubsWith(new)[a] = "IDLE"
      BY <1>2 DEF Finished
    <2>5. OneEach'
      <3>1. \A e \in Held : entry[e.addr] # "NONE"
        BY <1>1 DEF Sharing, Backed
      <3>2. \A e \in new : entry[e.addr] = "NONE"
        BY <2>1 DEF AddrOf
      <3>3. \A e, f \in Held \cup new : e.addr = f.addr => e = f
        BY <2>3, <3>1, <3>2 DEF OneEach
      <3> QED BY <1>3, <3>3 DEF OneEach
    <2>6. ASSUME NEW a \in Addr PROVE Linked(queue', ExtOf(a))
      <3>1. queue \in Seq(WorkItem)
        BY <1>1 DEF TypeOK
      <3>2. Follows(queue, rest, ExtOf(a))
        BY <3>1, TailLinks
      <3> QED BY <1>4, <2>3, <3>2 DEF Follows, Tied
    <2>7. Fresh(pf', <<>>, queue', entry', sub')
      <3>1. ASSUME NEW a \in Listed(c.p)
            PROVE  /\ sub'[a] = IF Starts(c.connects, SubsWith(new), a) THEN "CONNECTING"
                                ELSE SubsWith(new)[a]
                   /\ Has(queue', ExtOf(a)) <=> Has(rest, ExtOf(a))
                   /\ \A S : FirstIn(rest, ExtOf(a), S) => FirstIn(queue', ExtOf(a), S)
                   /\ Has(queue', IntOf(a)) <=>
                         Has(rest, IntOf(a)) \/ Starts(c.connects, SubsWith(new), a)
        <4>1. a \in Addr
          <5>1. c.p.list \in Seq(Ext)
            BY <1>1 DEF Calls, Policy
          <5>2. Exts(c.p.list) \in SUBSET Ext
            BY <5>1, ListSound
          <5> QED BY <5>2 DEF Listed, AddrOf, Ext
        <4>2. sub'[a] = IF Starts(c.connects, SubsWith(new), a) THEN "CONNECTING"
                        ELSE SubsWith(new)[a]
          BY <2>4, <4>1 DEF ConnectedBy, Starts
        <4>3. /\ Has(queue', ExtOf(a)) <=> Has(rest, ExtOf(a))
              /\ Has(queue', IntOf(a)) <=>
                    Has(rest, IntOf(a)) \/ Starts(c.connects, SubsWith(new), a)
          BY <2>4 DEF Extended, Starts
        <4> QED BY <1>4, <4>2, <4>3 DEF Tied
      <3>2. PICK p, co, en, su : p = c.p /\ co = c.connects /\ en = EntriesWith(new)
                                 /\ su = SubsWith(new)
        OBVIOUS
      <3>3. Fresh(p, <<>>, queue', en, sub')
        BY <2>2, <3>1, <3>2, ConnectedFresh
      <3> QED BY <2>4, <3>2, <3>3
    <2> QED BY <2>2, <2>4, <2>5, <2>6, <2>7
  <1> QED BY <1>4, <1>6 DEF FInv

\* The same, when no SharedSubchannel was made.
LEMMA FinishOldFresh ==
    ASSUME IInv, FInv, queue # <<>>, Head(queue).kind \in {"ext", "work", "resolver"},
           NEW rest, rest = Tail(queue), NEW c, NEW R, Base(c, Held, R), Finish(c, {}),
           ~reused => Fresh(c.p, c.connects, rest, entry, sub) /\ c.panic = FALSE
    PROVE  FInv'
  <1>1. TypeOK
    BY DEF IInv
  <1>2. PICK new \in SUBSET Ext : new = {}
    OBVIOUS
  <1>3. /\ EntriesWith(new) = entry /\ SubsWith(new) = sub /\ IsFiniteSet(new)
        /\ Base(c, Held \cup new, R) /\ Finish(c, new)
    BY <1>1, <1>2, NothingNew
  <1>4. ~reused => /\ Fresh(c.p, c.connects, rest, EntriesWith(new), SubsWith(new))
                   /\ c.panic = FALSE
    BY <1>3
  <1>5. \A e, f \in new : e.addr = f.addr => e = f
    BY <1>2
  <1> QED BY <1>3, <1>4, <1>5, FinishFresh

-----------------------------------------------------------------------------
(* The actions.                                                            *)

\* What is not on its way to the entry of a listed address the entry knows.
LEMMA BacksSound ==
    ASSUME IInv, NEW q, \A a : Has(q, IntOf(a)) <=> Has(queue, IntOf(a))
    PROVE  Backs(pf, q, entry, sub)
  <1> SUFFICES ASSUME NEW a \in Listed(pf)
               PROVE  entry[a] \in States /\ (~Has(q, IntOf(a)) => entry[a] = sub[a])
    BY DEF Backs
  <1>1. TypeOK /\ Sharing /\ entry \in [Addr -> States \cup {"NONE"}]
    BY DEF IInv, TypeOK
  <1>2. PICK e \in Exts(pf.list) : e.addr = a
    BY DEF Listed, AddrOf
  <1>3. e \in Held
    BY <1>2 DEF Held, HeldBy
  <1>4. a \in Addr /\ entry[a] # "NONE"
    BY <1>1, <1>2, <1>3, HeldSound DEF Sharing, Backed
  <1> QED BY <1>1, <1>4 DEF Sharing, Reported

\* The head of the queue is no update: the rest says the same.
LEMMA RestAlike ==
    ASSUME IInv, queue # <<>>, Head(queue).kind \in {"work", "resolver", "released"},
           NEW rest, rest = Tail(queue)
    PROVE  /\ Alike(pf, queue, rest) /\ (\A a : Has(rest, IntOf(a)) <=> Has(queue, IntOf(a)))
           /\ Backs(pf, rest, entry, sub)
           /\ Fresh(pf, <<>>, queue, entry, sub) => Fresh(pf, <<>>, rest, entry, sub)
  <1>1. queue \in Seq(WorkItem)
    BY DEF IInv, TypeOK
  <1>2. (\A K : Beheaded(queue, rest, K)) /\ (\A K : Follows(queue, rest, K))
    BY <1>1, TailSound, TailLinks
  <1>3. \A a : Head(queue) \notin ExtOf(a) /\ Head(queue) \notin IntOf(a)
    BY DEF ExtOf, IntOf
  <1>4. \A a : Has(rest, IntOf(a)) <=> Has(queue, IntOf(a))
    BY <1>2, <1>3 DEF Beheaded
  <1>5. Alike(pf, queue, rest)
    BY <1>2, <1>3, <1>4 DEF Alike, Beheaded, Follows
  <1>6. Backs(pf, rest, entry, sub)
    BY <1>4, BacksSound
  <1> QED BY <1>4, <1>5, <1>6, FreshAlike

\* work with a subchannel update.
LEMMA HandleUpdateFresh ==
    ASSUME IInv, FInv, HandleUpdate
    PROVE  FInv'
  <1>1. PICK rest, w : rest = Tail(queue) /\ w = Head(queue)
    OBVIOUS
  <1>2. PICK c : c = Call(pf)
    OBVIOUS
  <1>3. PICK d : d = SubchannelUpdate(c, w.ext, w.state)
    OBVIOUS
  <1>4. PICK R, X : R = MaybeReady(rest, entry) /\ X = (asked \/ Has(rest, Result))
    OBVIOUS
  <1>5. /\ Good(d, Held, R, X) /\ Finish(d, {}) /\ queue # <<>> /\ w.kind = "ext"
        /\ queue \in Seq(WorkItem) /\ pf \in Policy /\ ~panicked
    BY <1>1, <1>2, <1>3, <1>4, HandleUpdateGood DEF IInv, TypeOK, HandleUpdate, HeadIs
  <1>6. Base(d, Held, R)
    BY <1>5 DEF Good
  <1>7. ASSUME ~reused PROVE Fresh(d.p, d.connects, rest, entry, sub) /\ d.panic = FALSE
    <2>1. PICK Y : Y = (asked \/ Has(queue, Result))
      OBVIOUS
    <2>2. c \in Calls /\ c.p = pf /\ c.panic = FALSE /\ c.connects = <<>>
      BY <1>2, <1>5, <2>1, CallGood
    <2>3. Fresh(pf, <<>>, queue, entry, sub) /\ \A b \in Addr : Linked(queue, ExtOf(b))
      BY <1>7 DEF FInv
    <2>4. /\ w \in WorkItem /\ (\A K : Beheaded(queue, rest, K)) /\ (\A K : Follows(queue, rest, K))
      BY <1>1, <1>5, TailSound, TailLinks
    <2>5. PICK e \in Ext, s \in States, a \in Addr :
             e = w.ext /\ s = w.state /\ a = e.addr /\ w \in ExtOf(a)
      BY <1>5, <2>4, KindSound DEF Kinds
    <2>6. \A b : w \notin IntOf(b) /\ (w \in ExtOf(b) => b = a)
      BY <1>5, <2>5 DEF IntOf, ExtOf
    <2>7. \A b : Has(rest, IntOf(b)) <=> Has(queue, IntOf(b))
      BY <1>1, <2>4, <2>6 DEF Beheaded
    <2>8. Took(queue, rest, entry, a, s)
      <3>1. Has(queue, ExtOf(a))
        BY <1>1, <2>4, <2>5 DEF Beheaded
      <3>2. ASSUME NEW b, b # a
            PROVE  /\ Has(rest, ExtOf(b)) <=> Has(queue, ExtOf(b))
                   /\ \A S : FirstIn(queue, ExtOf(b), S) => FirstIn(rest, ExtOf(b), S)
        <4>1. w \notin ExtOf(b)
          BY <2>6, <3>2
        <4> QED BY <1>1, <2>4, <4>1 DEF Beheaded, Follows
      <3>3. /\ \A S : FirstIn(queue, ExtOf(a), S) => s \in S
            /\ FirstIn(rest, ExtOf(a), MovesFrom(s))
        BY <1>1, <2>3, <2>4, <2>5 DEF Follows
      <3>4. ~Has(rest, ExtOf(a)) => entry[a] = s
        <4>1. LastIs(queue, ExtOf(a), entry[a])
          BY DEF IInv, Sharing, Delivered
        <4> QED BY <1>1, <2>4, <2>5, <4>1 DEF Beheaded
      <3> QED BY <2>7, <3>1, <3>2, <3>3, <3>4 DEF Took
    <2>9. Backs(pf, rest, entry, sub) /\ Distinct(pf.list)
      BY <2>7, BacksSound DEF IInv, TypeOK
    <2>10. d = SubchannelUpdate(c, e, s)
      BY <1>3, <2>5
    <2>11. Fresh(c.p, <<>>, queue, entry, sub) /\ Backs(c.p, rest, entry, sub) /\ Distinct(c.p.list)
      BY <2>2, <2>3, <2>9
    <2> QED BY <2>2, <2>5, <2>8, <2>10, <2>11, UpdateFresh
  <1> QED BY <1>1, <1>5, <1>6, <1>7, FinishOldFresh

\* work without data.
LEMMA HandleWorkFresh ==
    ASSUME IInv, FInv, HandleWork
    PROVE  FInv'
  <1>1. PICK rest, w : rest = Tail(queue) /\ w = Head(queue)
    OBVIOUS
  <1>2. PICK c : c = Call(pf)
    OBVIOUS
  <1>3. PICK d : d = WorkNone(c)
    OBVIOUS
  <1>4. PICK R, X : R = MaybeReady(rest, entry) /\ X = (asked \/ Has(rest, Result))
    OBVIOUS
  <1>5. /\ Good(d, Held, R, X) /\ Finish(d, {}) /\ queue # <<>> /\ w.kind = "work"
        /\ pf \in Policy /\ ~panicked
    BY <1>1, <1>2, <1>3, <1>4, HandleWorkGood DEF IInv, TypeOK, HandleWork, HeadIs
  <1>6. Base(d, Held, R)
    BY <1>5 DEF Good
  <1>7. ASSUME ~reused PROVE Fresh(d.p, d.connects, rest, entry, sub) /\ d.panic = FALSE
    <2>1. PICK Y : Y = (asked \/ Has(queue, Result))
      OBVIOUS
    <2>2. c \in Calls /\ c.p = pf /\ c.panic = FALSE /\ c.connects = <<>>
      BY <1>2, <1>5, <2>1, CallGood
    <2>3. Fresh(pf, <<>>, rest, entry, sub) /\ Backs(pf, rest, entry, sub)
      BY <1>1, <1>5, <1>7, RestAlike DEF FInv
    <2> QED BY <1>3, <2>2, <2>3, WorkNoneFresh
  <1> QED BY <1>1, <1>5, <1>6, <1>7, FinishOldFresh

\* resolver_update starts with the policy out of steady state.
LEMMA ResetCall ==
    ASSUME IInv, FInv, HeadIs("resolver"), ~reused, NEW rest, rest = Tail(queue),
           NEW c, c = Call([pf EXCEPT !.timer = "none", !.steady = FALSE])
    PROVE  /\ c \in Calls /\ c.p.list = pf.list /\ c.p.conn = pf.conn
           /\ c.p.steady = FALSE /\ c.panic = FALSE /\ c.connects = <<>>
           /\ c.p.sel \subseteq Exts(c.p.list)
           /\ Fresh(c.p, <<>>, rest, entry, sub) /\ Backs(c.p, rest, entry, sub)
  <1>1. /\ ~panicked /\ queue # <<>> /\ Head(queue).kind = "resolver" /\ pf \in Policy
    BY ResolverHead
  <1>2. /\ Shown(c) /\ c \in Calls /\ c.panic = FALSE /\ c.connects = <<>> /\ Reset(pf, c.p)
    BY <1>1, ResetGood DEF Reset
  <1>3. PICK p : p = c.p
    OBVIOUS
  <1>4. Fresh(pf, <<>>, rest, entry, sub) /\ Backs(pf, rest, entry, sub)
    BY <1>1, RestAlike DEF FInv
  <1>5. Fresh(p, <<>>, rest, entry, sub)
    BY <1>1, <1>2, <1>3, <1>4, ResetFresh
  <1>6. Backs(p, rest, entry, sub)
    BY <1>2, <1>3, <1>4 DEF Backs, Reset, Listed
  <1> QED BY <1>2, <1>3, <1>5, <1>6 DEF Shown, Reset

\* resolver_update with an error.
LEMMA HandleResolverErrorFresh ==
    ASSUME IInv, FInv, HandleResolverError
    PROVE  FInv'
  <1>1. PICK rest : rest = Tail(queue)
    OBVIOUS
  <1>2. PICK c : c = Call([pf EXCEPT !.timer = "none", !.steady = FALSE])
    OBVIOUS
  <1>3. PICK d : d = IF pf.list = <<>> \/ pf.conn = "TRANSIENT_FAILURE"
                     THEN SetTransientFailure(c, TRUE) ELSE c
    OBVIOUS
  <1>4. PICK R, X : R = MaybeReady(rest, entry) /\ X = FALSE
    OBVIOUS
  <1>5. Good(d, Held, R, X) /\ Finish(d, {})
    BY <1>1, <1>2, <1>3, <1>4, HandleResolverErrorGood
  <1>6. Base(d, Held, R) /\ queue # <<>> /\ Head(queue).kind = "resolver" /\ HeadIs("resolver")
    BY <1>5 DEF Good, HandleResolverError, HeadIs
  <1>7. ASSUME ~reused PROVE Fresh(d.p, d.connects, rest, entry, sub) /\ d.panic = FALSE
    <2>1. /\ c \in Calls /\ c.p.list = pf.list /\ c.p.conn = pf.conn
          /\ c.p.steady = FALSE /\ c.panic = FALSE /\ c.connects = <<>>
          /\ c.p.sel \subseteq Exts(c.p.list)
          /\ Fresh(c.p, <<>>, rest, entry, sub)
      BY <1>1, <1>2, <1>6, <1>7, ResetCall
    <2>2. d = IF c.p.list = <<>> \/ c.p.conn = "TRANSIENT_FAILURE"
              THEN SetTransientFailure(c, TRUE) ELSE c
      BY <1>3, <2>1
    <2> QED BY <2>1, <2>2, ResolverErrorFresh
  <1> QED BY <1>1, <1>5, <1>6, <1>7, FinishOldFresh

\* Nothing is queued for an address the sharing layer does not know.
LEMMA NothingFor ==
    ASSUME IInv, NEW a \in Addr, entry[a] = "NONE"
    PROVE  ~Has(queue, ExtOf(a)) /\ ~Has(queue, IntOf(a))
  <1>1. Sharing /\ queue \in Seq(WorkItem)
    BY DEF IInv, TypeOK
  <1>2. ~Has(queue, IntOf(a))
    BY <1>1 DEF Sharing, Backed
  <1>3. ASSUME Has(queue, ExtOf(a)) PROVE FALSE
    <2>1. PICK i \in DOMAIN queue : queue[i] \in ExtOf(a)
      BY <1>3 DEF Has
    <2>2. queue[i].kind = "ext" /\ queue[i].ext.addr = a
      BY <2>1 DEF ExtOf
    <2>3. queue[i].ext \in InQueue(queue)
      BY <2>2 DEF InQueue
    <2>4. queue[i].ext \in Held
      BY <2>3 DEF Held, HeldBy
    <2> QED BY <1>1, <2>2, <2>4 DEF Sharing, Backed
  <1> QED BY <1>2, <1>3

\* resolver_update with addresses: the subchannels it creates are new.
LEMMA HandleAddressesFresh ==
    ASSUME IInv, FInv, NEW raw \in AddrLists, HandleAddresses(raw)
    PROVE  FInv'
  <1>1. PICK rest, addrs, X : rest = Tail(queue) /\ addrs = CompileAddress(raw) /\ X = FALSE
    OBVIOUS
  <1>2. PICK c : c = Call([pf EXCEPT !.timer = "none", !.steady = FALSE])
    OBVIOUS
  <1>3. PICK d, ids, new : Answered(c, addrs, rest, X, d, ids, new)
    BY <1>1, <1>2, HandleAddressesGood
  <1>4. HeadIs("resolver") /\ queue # <<>> /\ Head(queue).kind = "resolver"
    BY DEF HandleAddresses, HeadIs
  <1>5. /\ addrs \in Seq(Addr) /\ new \in SUBSET Ext /\ IsFiniteSet(new) /\ Finish(d, new)
        /\ Base(d, Held \cup new, MaybeReady(rest, EntriesWith(new)))
    BY <1>3 DEF Answered, Good
  <1>6. \A e, f \in new : e.addr = f.addr => e = f
    BY <1>3 DEF Answered
  <1>7. ASSUME ~reused, \A a \in AddrOf(new) : entry[a] = "NONE"
        PROVE  /\ Fresh(d.p, d.connects, rest, EntriesWith(new), SubsWith(new))
               /\ d.panic = FALSE
    <2>1. /\ c \in Calls /\ c.p.list = pf.list /\ c.p.conn = pf.conn
          /\ c.p.steady = FALSE /\ c.panic = FALSE /\ c.connects = <<>>
          /\ c.p.sel \subseteq Exts(c.p.list)
          /\ Fresh(c.p, <<>>, rest, entry, sub) /\ Backs(c.p, rest, entry, sub)
      BY <1>1, <1>2, <1>4, <1>7, ResetCall
    <2>2. PICK en, su : en = EntriesWith(new) /\ su = SubsWith(new)
      OBVIOUS
    <2>3. CASE addrs = <<>>
      <3>1. d = SetTransientFailure([c EXCEPT !.p.list = <<>>, !.p.sel = {}], TRUE)
        BY <1>3, <2>3 DEF Answered
      <3>2. c.p \in Policy
        BY <2>1 DEF Calls
      <3>3. PICK np \in Policy : np = [c.p EXCEPT !.list = <<>>, !.sel = {}]
        <4>1. <<>> \in Seq(Ext) /\ {} \in MaybeExt
          BY DEF MaybeExt
        <4> QED BY <3>2, <4>1 DEF Policy
      <3>4. PICK b : b = [c EXCEPT !.p = np]
        OBVIOUS
      <3>5. [c EXCEPT !.p.list = <<>>, !.p.sel = {}] = b
        BY <2>1, <3>2, <3>3, <3>4 DEF Calls, Policy
      <3>6. b \in Calls /\ b.p = np /\ b.connects = <<>> /\ b.panic = FALSE
        BY <2>1, <3>4 DEF Calls
      <3>7. np.list = <<>> /\ np.sel = {} /\ np.steady = FALSE
        BY <2>1, <3>2, <3>3 DEF Policy
      <3>8. d = SetTransientFailure(b, TRUE)
        BY <3>1, <3>5
      <3>9. Fresh(d.p, d.connects, rest, en, su) /\ d.panic = FALSE
        BY <3>6, <3>7, <3>8, EmptyListFresh
      <3> QED BY <2>2, <3>9
    <2>4. CASE addrs # <<>>
      <3>1. /\ d = Rebuild(c, addrs, ids)
            /\ \A a \in Range(addrs) \ Listed(pf) : [addr |-> a, id |-> ids[a]] \in new
            /\ \A e \in new : e.addr \in Range(addrs) \ Listed(pf)
        BY <1>3, <2>4 DEF Answered, Listed
      <3>2. /\ entry \in [Addr -> States \cup {"NONE"}] /\ Sharing /\ TypeOK
            /\ sub \in [Addr -> States]
        BY DEF IInv, TypeOK
      <3>3. Listed(c.p) = Listed(pf)
        BY <2>1 DEF Listed
      <3>4. ASSUME NEW b \in Listed(c.p) PROVE en[b] = entry[b] /\ su[b] = sub[b]
        <4>1. b \in Addr
          <5>1. PICK e \in Exts(pf.list) : e.addr = b
            BY <3>3, <3>4 DEF Listed, AddrOf
          <5>2. e \in Held
            BY <5>1 DEF Held, HeldBy
          <5> QED BY <3>2, <5>1, <5>2, HeldSound
        <4>2. b \notin AddrOf(new)
          BY <3>1, <3>3, <3>4 DEF AddrOf
        <4> QED BY <2>2, <4>1, <4>2 DEF EntriesWith, SubsWith
      <3>5. Alike(c.p, rest, rest)
        BY DEF Alike
      <3>6. PICK p : p = c.p
        OBVIOUS
      <3>7. Fresh(p, <<>>, rest, en, su)
        BY <2>1, <3>4, <3>5, <3>6, FreshAlike
      <3>8. Backs(p, rest, en, su)
        BY <2>1, <3>4, <3>6 DEF Backs
      <3>9. ASSUME NEW a \in Range(addrs) \ Listed(c.p)
            PROVE  /\ entry[a] = "NONE" /\ en[a] = "IDLE" /\ su[a] = "IDLE"
                   /\ ~Has(rest, ExtOf(a)) /\ ~Has(rest, IntOf(a))
        <4>1. a \in Addr
          BY <1>5, <3>9, RangeSound
        <4>2. [addr |-> a, id |-> ids[a]] \in new
          BY <3>1, <3>3, <3>9
        <4>3. a \in AddrOf(new)
          BY <4>2 DEF AddrOf
        <4>4. entry[a] = "NONE"
          BY <1>7, <4>3
        <4>5. en[a] = "IDLE" /\ su[a] = "IDLE"
          BY <2>2, <4>1, <4>3, <4>4 DEF EntriesWith, SubsWith
        <4>6. ~Has(queue, ExtOf(a)) /\ ~Has(queue, IntOf(a))
          BY <4>1, <4>4, NothingFor
        <4>7. queue \in Seq(WorkItem)
          BY <3>2 DEF TypeOK
        <4>8. \A K : Beheaded(queue, rest, K)
          BY <1>1, <1>4, <4>7, TailSound
        <4> QED BY <4>4, <4>5, <4>6, <4>8 DEF Beheaded
      <3>10. Unknown(Range(addrs) \ Listed(c.p), rest, en, su)
        BY <3>9 DEF Unknown
      <3>11. \A a \in Range(addrs) \ Listed(c.p) : [addr |-> a, id |-> ids[a]] \in Ext
        BY <1>5, <3>1, <3>3
      <3>12. Fresh(d.p, d.connects, rest, en, su) /\ d.panic = FALSE
        BY <1>5, <2>1, <2>4, <3>1, <3>2, <3>6, <3>7, <3>8, <3>10, <3>11, RebuildFresh
      <3> QED BY <2>2, <3>12
    <2> QED BY <2>3, <2>4
  <1>8. PICK R : R = MaybeReady(rest, EntriesWith(new))
    OBVIOUS
  <1>9. Base(d, Held \cup new, R)
    BY <1>5, <1>8
  <1> QED BY <1>1, <1>4, <1>5, <1>6, <1>7, <1>9, FinishFresh

\* Steps that leave the policy and its SharedSubchannels alone.
LEMMA RestingFresh ==
    ASSUME FInv, reused' = reused, panicked' = panicked, Held' \subseteq Held, ReportsMove',
           ~reused => /\ Fresh(pf', <<>>, queue', entry', sub')
                      /\ \A a \in Addr : Linked(queue, ExtOf(a)) => Linked(queue', ExtOf(a))
    PROVE  FInv'
  <1> SUFFICES ASSUME ~reused
               PROVE  ~panicked' /\ OneEach' /\ \A a \in Addr : Linked(queue', ExtOf(a))
    BY DEF FInv
  <1>1. ~panicked /\ OneEach /\ \A a \in Addr : Linked(queue, ExtOf(a))
    BY DEF FInv
  <1> QED BY <1>1 DEF OneEach

\* No SharedSubchannel comes into use.
LEMMA HeldRests ==
    ASSUME queue' \in Seq(WorkItem), pf'.list = pf.list, pf'.sel = pf.sel,
           picker'.ext = picker.ext, pinned' \subseteq Held,
           \A e : Has(queue', UpdateOf(e)) => e \in Held
    PROVE  Held' \subseteq Held
  <1>1. \A e \in InQueue(queue') : e \in Held
    BY InQueueSound
  <1>2. Exts(pf.list) \cup pf.sel \cup picker.ext \subseteq Held
    BY DEF Held, HeldBy
  <1>3. Held' = Exts(pf'.list) \cup pf'.sel \cup picker'.ext \cup InQueue(queue') \cup pinned'
    BY DEF Held, HeldBy
  <1> QED BY <1>1, <1>2, <1>3

\* What is queued for the SharedSubchannels is held.
LEMMA QueuedHeld ==
    ASSUME queue \in Seq(WorkItem)
    PROVE  pinned \subseteq Held /\ \A e : Has(queue, UpdateOf(e)) => e \in Held
BY InQueueSound DEF Held, HeldBy

\* An item of work, or a resolver result, is queued.
LEMMA WorkQueuedFresh ==
    ASSUME IInv, FInv, NEW w \in WorkItem, w.kind \in {"work", "resolver"},
           queue' = Append(queue, w), UNCHANGED <<entry, sub, pinned, panicked, reused>>,
           pf'.list = pf.list, pf'.sel = pf.sel, picker'.ext = picker.ext,
           ~reused => Fresh(pf', <<>>, queue, entry, sub)
    PROVE  FInv'
  <1>1. queue \in Seq(WorkItem)
    BY DEF IInv, TypeOK
  <1>2. /\ queue' \in Seq(WorkItem) /\ (\A K : Appended(queue, w, queue', K))
        /\ \A K : Led(queue, w, queue', K)
    BY <1>1, AppendSound, AppendLinks
  <1>3. \A b : w \notin ExtOf(b) /\ w \notin UpdateOf(b) /\ w \notin IntOf(b)
    BY DEF ExtOf, UpdateOf, IntOf
  <1>4. \A b : /\ Has(queue', ExtOf(b)) <=> Has(queue, ExtOf(b))
               /\ Has(queue', IntOf(b)) <=> Has(queue, IntOf(b))
               /\ Has(queue', UpdateOf(b)) <=> Has(queue, UpdateOf(b))
    BY <1>2, <1>3 DEF Appended
  <1>5. \A b : /\ Linked(queue, ExtOf(b)) => Linked(queue', ExtOf(b))
               /\ Linked(queue, IntOf(b)) => Linked(queue', IntOf(b))
               /\ \A S : FirstIn(queue, ExtOf(b), S) => FirstIn(queue', ExtOf(b), S)
               /\ \A S : FirstIn(queue, IntOf(b), S) => FirstIn(queue', IntOf(b), S)
    BY <1>2, <1>3 DEF Led
  <1>6. ReportsMove'
    BY <1>5 DEF FInv, ReportsMove
  <1>7. Held' \subseteq Held
    BY <1>1, <1>2, <1>4, QueuedHeld, HeldRests
  <1>8. ASSUME ~reused PROVE Fresh(pf', <<>>, queue', entry', sub')
    <2>1. PICK p : p = pf'
      OBVIOUS
    <2>2. Alike(p, queue, queue')
      BY <1>4, <1>5 DEF Alike
    <2>3. Fresh(p, <<>>, queue', entry, sub)
      BY <1>8, <2>1, <2>2, FreshAlike
    <2> QED BY <2>1, <2>3
  <1> QED BY <1>5, <1>6, <1>7, <1>8, RestingFresh

\* The happy eyeballs timer: it runs only while nothing is selected.
LEMMA TimerFiresFresh ==
    ASSUME IInv, FInv, TimerFires
    PROVE  FInv'
  <1>1. /\ pf \in Policy /\ pf' = [pf EXCEPT !.timer = "expired"] /\ pf.timer = "running"
        /\ UNCHANGED <<picker, entry, sub, pinned, resolved, asked, panicked, reused>>
    BY DEF TimerFires, IInv, TypeOK
  <1>2. PICK w \in WorkItem : w = [kind |-> "work"] /\ w.kind = "work"
    BY WorkItems
  <1>3. queue' = Append(queue, w)
    BY <1>2 DEF TimerFires, Enqueue
  <1>4. PICK p : p = pf'
    OBVIOUS
  <1>5. /\ p.list = pf.list /\ p.sel = pf.sel /\ p.cache = pf.cache /\ p.conn = pf.conn
        /\ p.frontier = pf.frontier /\ p.err = pf.err /\ p.steady = pf.steady
    BY <1>1, <1>4 DEF Policy
  <1>6. ASSUME ~reused PROVE Fresh(p, <<>>, queue, entry, sub)
    <2>1. Fresh(pf, <<>>, queue, entry, sub)
      BY <1>6 DEF FInv
    <2>2. pf.sel = {}
      BY <1>1, <2>1, Unselected
    <2>3. Listed(p) = Listed(pf)
      BY <1>5 DEF Listed
    <2>4. Known(p, <<>>, queue, entry, sub)
      BY <1>5, <2>1, <2>3 DEF Fresh, Known, Learns
    <2>5. Selection(p, <<>>, queue, sub)
      BY <1>5, <2>1, <2>2, <2>3 DEF Fresh, Selection
    <2>6. Progress(p, <<>>, queue, sub)
      BY <1>5, <2>1, <2>3 DEF Fresh, Progress, AnyConnecting
    <2> QED BY <2>4, <2>5, <2>6 DEF Fresh
  <1> QED BY <1>1, <1>2, <1>3, <1>4, <1>5, <1>6, WorkQueuedFresh

\* A pick on an IDLE picker.
LEMMA PickIdleFresh ==
    ASSUME IInv, FInv, PickIdle
    PROVE  FInv'
  <1>1. /\ picker \in Pickers /\ picker' = [picker EXCEPT !.triggered = TRUE]
        /\ UNCHANGED <<pf, entry, sub, pinned, resolved, asked, panicked, reused>>
    BY DEF PickIdle, IInv, TypeOK
  <1>2. PICK w \in WorkItem : w = [kind |-> "work"] /\ w.kind = "work"
    BY WorkItems
  <1>3. queue' = Append(queue, w) /\ picker'.ext = picker.ext
    BY <1>1, <1>2 DEF PickIdle, Enqueue, Pickers
  <1>4. ~reused => Fresh(pf', <<>>, queue, entry, sub)
    BY <1>1 DEF FInv
  <1> QED BY <1>1, <1>2, <1>3, <1>4, WorkQueuedFresh

\* A new resolver result.
LEMMA ResolverHasResultFresh ==
    ASSUME IInv, FInv, ResolverHasResult
    PROVE  FInv'
  <1>1. UNCHANGED <<pf, picker, entry, sub, pinned, panicked, reused>>
    BY DEF ResolverHasResult
  <1>2. PICK w \in WorkItem : w = [kind |-> "resolver"] /\ w.kind = "resolver"
    BY WorkItems
  <1>3. queue' = Append(queue, w)
    BY <1>2 DEF ResolverHasResult, Enqueue
  <1>4. ~reused => Fresh(pf', <<>>, queue, entry, sub)
    BY <1>1 DEF FInv
  <1> QED BY <1>1, <1>2, <1>3, <1>4, WorkQueuedFresh

\* A call takes the READY subchannel.
LEMMA PickReadyFresh ==
    ASSUME IInv, FInv, PickReady
    PROVE  FInv'
  <1>1. /\ pinned = {} /\ pinned' = picker.ext
        /\ UNCHANGED <<pf, picker, entry, sub, queue, resolved, asked, panicked, reused>>
    BY DEF PickReady
  <1>2. Held' = Held
    BY <1>1 DEF Held, HeldBy
  <1> QED BY <1>1, <1>2 DEF FInv, OneEach, ReportsMove

\* A call lets go of its subchannel: the releases it queues are no updates.
LEMMA CallStartedFresh ==
    ASSUME IInv, FInv, CallStarted
    PROVE  FInv'
  <1> DEFINE after == HeldBy(pf, picker, queue, {})
  <1>1. /\ TypeOK /\ queue \in Seq(WorkItem) /\ pinned' = {}
        /\ queue' = queue \o Releases(Held, after)
        /\ UNCHANGED <<pf, picker, entry, sub, resolved, asked, panicked, reused>>
    BY DEF CallStarted, IInv, TypeOK
  <1>2. PICK rel \in Seq(WorkItem) :
            rel = Releases(Held, after) /\ \A i \in DOMAIN rel : rel[i].kind = "released"
    <2> HIDE DEF after
    <2> QED BY <1>1, HeldSound, ReleasesSound
  <1> HIDE DEF after
  <1>3. queue' = queue \o rel
    BY <1>1, <1>2
  <1>4. queue' \in Seq(WorkItem) /\ \A K : Joined(queue, rel, queue', K)
    BY <1>1, <1>3, JoinSound
  <1>5. \A b : ~Has(rel, ExtOf(b)) /\ ~Has(rel, IntOf(b)) /\ ~Has(rel, UpdateOf(b))
    BY <1>2 DEF Has, ExtOf, IntOf, UpdateOf
  <1>6. \A b : /\ Linked(queue, ExtOf(b)) => Linked(queue', ExtOf(b))
               /\ Linked(queue, IntOf(b)) => Linked(queue', IntOf(b))
               /\ \A S : FirstIn(queue, ExtOf(b), S) => FirstIn(queue', ExtOf(b), S)
               /\ \A S : FirstIn(queue, IntOf(b), S) => FirstIn(queue', IntOf(b), S)
    BY <1>1, <1>3, <1>5, JoinLinks
  <1>7. \A b : /\ Has(queue', ExtOf(b)) <=> Has(queue, ExtOf(b))
               /\ Has(queue', IntOf(b)) <=> Has(queue, IntOf(b))
               /\ Has(queue', UpdateOf(b)) <=> Has(queue, UpdateOf(b))
    BY <1>4, <1>5 DEF Joined
  <1>8. ReportsMove'
    BY <1>1, <1>6 DEF FInv, ReportsMove
  <1>9. Held' \subseteq Held
    BY <1>1, <1>4, <1>7, QueuedHeld, HeldRests
  <1>10. ~reused => Fresh(pf', <<>>, queue', entry', sub')
    <2>1. Alike(pf, queue, queue')
      BY <1>6, <1>7 DEF Alike
    <2> QED BY <1>1, <2>1, FreshAlike DEF FInv
  <1> QED BY <1>1, <1>6, <1>8, <1>9, <1>10, RestingFresh

\* What is known is known still, and what was awaited is awaited.
LEMMA FreshMoves ==
    ASSUME NEW p, NEW Q, NEW q, NEW en, NEW su, NEW en2, NEW su2, Fresh(p, <<>>, Q, en, su),
           \A b \in Listed(p) :
               /\ Learns(p, <<>>, q, en2, su2, b)
               /\ Waits(<<>>, Q, su, b) => Waits(<<>>, q, su2, b)
               /\ su2[b] = "IDLE" => su[b] = "IDLE" \/ Waits(<<>>, q, su2, b)
               /\ Quiet(p, <<>>, Q, su, b) => Quiet(p, <<>>, q, su2, b)
    PROVE  Fresh(p, <<>>, q, en2, su2)
  <1>1. Known(p, <<>>, q, en2, su2)
    BY DEF Known
  <1>2. Selection(p, <<>>, q, su2)
    BY DEF Fresh, Selection
  <1>3. Progress(p, <<>>, q, su2)
    BY DEF Fresh, Progress
  <1> QED BY <1>1, <1>2, <1>3 DEF Fresh

\* An internal subchannel moves: it was not idle, and what it reports leads on from
\* what it reported before.
LEMMA SubchannelMovesFresh ==
    ASSUME IInv, FInv, NEW a \in Addr, NEW s \in States, SubchannelMoves(a, s)
    PROVE  FInv'
  <1>1. /\ Sharing /\ queue \in Seq(WorkItem) /\ entry[a] # "NONE" /\ sub' = [sub EXCEPT ![a] = s]
        /\ UNCHANGED <<pf, picker, entry, pinned, resolved, asked, panicked, reused>>
        /\ sub \in [Addr -> States]
    BY DEF SubchannelMoves, IInv, TypeOK
  <1>2. sub[a] # "IDLE" /\ s \in MovesFrom(sub[a])
    BY DEF SubchannelMoves, MovesFrom
  <1>3. PICK w \in WorkItem : /\ w \in IntOf(a) /\ w.state = s /\ w.kind = "internal"
                              /\ queue' = Append(queue, w)
    <2>1. PICK w : w = [kind |-> "internal", addr |-> a, state |-> s]
      OBVIOUS
    <2>2. w \in WorkItem /\ w \in IntOf(a) /\ w.state = s /\ w.kind = "internal"
      BY <2>1 DEF WorkItem, IntOf
    <2>3. queue' = Append(queue, w)
      BY <2>1 DEF SubchannelMoves, Enqueue
    <2> QED BY <2>2, <2>3
  <1>4. /\ queue' \in Seq(WorkItem) /\ (\A K : Appended(queue, w, queue', K))
        /\ \A K : Led(queue, w, queue', K)
    BY <1>1, <1>3, AppendSound, AppendLinks
  <1>5. \A b : w \notin ExtOf(b) /\ w \notin UpdateOf(b) /\ (w \in IntOf(b) => b = a)
    BY <1>3 DEF ExtOf, UpdateOf, IntOf
  <1>6. \A b : /\ Has(queue', ExtOf(b)) <=> Has(queue, ExtOf(b))
               /\ Has(queue', UpdateOf(b)) <=> Has(queue, UpdateOf(b))
               /\ Has(queue, IntOf(b)) => Has(queue', IntOf(b))
               /\ Has(queue', IntOf(a))
               /\ b # a /\ Has(queue', IntOf(b)) => Has(queue, IntOf(b))
    BY <1>3, <1>4, <1>5 DEF Appended
  <1>7. \A b : /\ Linked(queue, ExtOf(b)) => Linked(queue', ExtOf(b))
               /\ \A S : FirstIn(queue, ExtOf(b), S) => FirstIn(queue', ExtOf(b), S)
    BY <1>4, <1>5 DEF Led
  <1>8. ReportsMove'
    <2> SUFFICES ASSUME NEW b \in Addr
                 PROVE  /\ Linked(queue', IntOf(b))
                        /\ FirstIn(queue', IntOf(b), MovesFrom(entry[b]))
      BY <1>1 DEF ReportsMove
    <2>1. Linked(queue, IntOf(b)) /\ FirstIn(queue, IntOf(b), MovesFrom(entry[b]))
      BY DEF FInv, ReportsMove
    <2>2. CASE b # a
      BY <1>4, <1>5, <2>1, <2>2 DEF Led
    <2>3. CASE b = a
      <3>1. /\ LastIs(queue, IntOf(b), sub[b])
            /\ ~Has(queue, IntOf(b)) => entry[b] = sub[b]
        BY <1>1, <2>3 DEF Sharing, Reported
      <3> QED BY <1>2, <1>3, <1>4, <2>1, <2>3, <3>1 DEF Led
    <2> QED BY <2>2, <2>3
  <1>9. Held' \subseteq Held
    BY <1>1, <1>4, <1>6, QueuedHeld, HeldRests
  <1>10. ASSUME ~reused PROVE Fresh(pf, <<>>, queue', entry, sub')
    <2>1. Fresh(pf, <<>>, queue, entry, sub)
      BY <1>10 DEF FInv
    <2>2. ASSUME NEW b \in Listed(pf)
          PROVE  /\ Learns(pf, <<>>, queue', entry, sub', b)
                 /\ Waits(<<>>, queue, sub, b) => Waits(<<>>, queue', sub', b)
                 /\ sub'[b] = "IDLE" => sub[b] = "IDLE" \/ Waits(<<>>, queue', sub', b)
                 /\ Quiet(pf, <<>>, queue, sub, b) => Quiet(pf, <<>>, queue', sub', b)
      <3>1. Learns(pf, <<>>, queue, entry, sub, b)
        BY <2>1 DEF Fresh, Known
      <3>2. Learns(pf, <<>>, queue', entry, sub', b)
        BY <1>6, <1>7, <3>1, NoStarts DEF Learns
      <3>3. Waits(<<>>, queue, sub, b) => Waits(<<>>, queue', sub', b)
        BY <1>6, NoStarts DEF Waits
      <3>4. CASE b = a
        <4>1. Waits(<<>>, queue', sub', b)
          BY <1>6, <3>4 DEF Waits
        <4> QED BY <1>2, <3>2, <3>4, <4>1 DEF Quiet
      <3>5. CASE b # a
        <4>1. sub'[b] = sub[b]
          BY <1>1, <3>5
        <4>2. Waits(<<>>, queue', sub', b) => Waits(<<>>, queue, sub, b)
          BY <1>6, <3>5, NoStarts DEF Waits
        <4> QED BY <3>2, <3>3, <4>1, <4>2 DEF Quiet
      <3> QED BY <3>4, <3>5
    <2>3. PICK su2 : su2 = sub'
      OBVIOUS
    <2> QED BY <2>1, <2>2, <2>3, FreshMoves
  <1> QED BY <1>1, <1>7, <1>8, <1>9, <1>10, RestingFresh

\* release_subchannel: an entry that goes is that of no listed address.
LEMMA ReleaseSubchannelFresh ==
    ASSUME IInv, FInv, ReleaseSubchannel
    PROVE  FInv'
  <1>1. PICK rest, w : rest = Tail(queue) /\ w = Head(queue)
    OBVIOUS
  <1>2. /\ queue # <<>> /\ w.kind = "released" /\ TypeOK /\ queue \in Seq(WorkItem)
        /\ entry \in [Addr -> States \cup {"NONE"}] /\ sub \in [Addr -> States]
        /\ UNCHANGED <<pf, picker, pinned, resolved, asked, panicked, reused>>
    BY <1>1 DEF ReleaseSubchannel, HeadIs, IInv, TypeOK
  <1>3. /\ w \in WorkItem /\ rest \in Seq(WorkItem) /\ (\A K : Beheaded(queue, rest, K))
        /\ \A K : Follows(queue, rest, K)
    BY <1>1, <1>2, TailSound, TailLinks
  <1>4. PICK a \in Addr : a = w.addr
    BY <1>2, <1>3, KindSound DEF Kinds
  <1>5. \A b : w \notin ExtOf(b) /\ w \notin UpdateOf(b) /\ w \notin IntOf(b)
    BY <1>2 DEF ExtOf, UpdateOf, IntOf
  <1>6. \A b : /\ Has(rest, IntOf(b)) <=> Has(queue, IntOf(b))
               /\ Has(rest, ExtOf(b)) <=> Has(queue, ExtOf(b))
               /\ Has(rest, UpdateOf(b)) <=> Has(queue, UpdateOf(b))
               /\ Linked(queue, ExtOf(b)) => Linked(rest, ExtOf(b))
               /\ Linked(queue, IntOf(b)) => Linked(rest, IntOf(b))
               /\ \A S : FirstIn(queue, ExtOf(b), S) => FirstIn(rest, ExtOf(b), S)
               /\ \A S : FirstIn(queue, IntOf(b), S) => FirstIn(rest, IntOf(b), S)
    BY <1>1, <1>3, <1>5 DEF Beheaded, Follows
  <1>7. ~reused => Fresh(pf, <<>>, rest, entry, sub)
    BY <1>1, <1>2, RestAlike DEF FInv
  <1>8. CASE a \in AddrOf(Held)
    <2>1. entry' = entry /\ sub' = sub /\ queue' = rest
      BY <1>1, <1>4, <1>8, Zenon DEF ReleaseSubchannel
    <2>2. ReportsMove'
      BY <1>6, <2>1 DEF FInv, ReportsMove
    <2>3. Held' \subseteq Held
      BY <1>2, <1>3, <1>6, <2>1, QueuedHeld, HeldRests
    <2> QED BY <1>2, <1>6, <1>7, <2>1, <2>2, <2>3, RestingFresh
  <1>9. CASE a \notin AddrOf(Held)
    <2> DEFINE keep == {i \in DOMAIN rest :
                            ~(rest[i].kind \in {"internal", "released"} /\ rest[i].addr = a)}
    <2>1. /\ entry' = [entry EXCEPT ![a] = "NONE"] /\ sub' = [sub EXCEPT ![a] = "IDLE"]
          /\ queue' = ItemsAt(rest, keep)
      BY <1>1, <1>4, <1>9, Zenon DEF ReleaseSubchannel
    <2>2. keep \in SUBSET DOMAIN rest
      OBVIOUS
    <2>3. \A i \in keep : ~(rest[i].kind \in {"internal", "released"} /\ rest[i].addr = a)
      OBVIOUS
    <2>4. \A i \in DOMAIN rest : i \notin keep =>
              rest[i].kind \in {"internal", "released"} /\ rest[i].addr = a
      OBVIOUS
    <2> HIDE DEF keep
    <2>5. /\ queue' \in Seq(WorkItem)
          /\ \A i \in DOMAIN queue' : \E j \in keep : queue'[i] = rest[j]
      BY <1>3, <2>1, <2>2, ItemsAtKeeps
    <2>6. ASSUME NEW K, \A i \in DOMAIN rest : rest[i] \in K => i \in keep
          PROVE  /\ Has(queue', K) <=> Has(rest, K)
                 /\ Linked(rest, K) => Linked(queue', K)
                 /\ \A S : FirstIn(rest, K, S) => FirstIn(queue', K, S)
      BY <1>3, <2>1, <2>2, <2>6, ItemsAtKeeps, ItemsAtLinks
    <2>7. \A i \in DOMAIN rest : Kinds(rest[i])
      <3>1. \A i \in DOMAIN rest : rest[i] \in WorkItem
        BY <1>3, LenProperties
      <3> QED BY <3>1, KindSound
    <2>8. ASSUME NEW b
          PROVE  /\ Has(queue', ExtOf(b)) <=> Has(rest, ExtOf(b))
                 /\ Linked(rest, ExtOf(b)) => Linked(queue', ExtOf(b))
                 /\ \A S : FirstIn(rest, ExtOf(b), S) => FirstIn(queue', ExtOf(b), S)
      <3>1. \A i \in DOMAIN rest : rest[i] \in ExtOf(b) => i \in keep
        BY <2>4, <2>7 DEF Kinds
      <3> QED BY <2>6, <3>1
    <2>9. ASSUME NEW b, b # a
          PROVE  /\ Has(queue', IntOf(b)) <=> Has(rest, IntOf(b))
                 /\ Linked(rest, IntOf(b)) => Linked(queue', IntOf(b))
                 /\ \A S : FirstIn(rest, IntOf(b), S) => FirstIn(queue', IntOf(b), S)
      <3>1. \A i \in DOMAIN rest : rest[i] \in IntOf(b) => i \in keep
        BY <2>4, <2>7, <2>9 DEF Kinds
      <3> QED BY <2>6, <3>1
    <2>10. ASSUME NEW e PROVE Has(queue', UpdateOf(e)) <=> Has(rest, UpdateOf(e))
      <3>1. \A i \in DOMAIN rest : rest[i] \in UpdateOf(e) => i \in keep
        BY <2>4, <2>7 DEF Kinds
      <3> QED BY <2>6, <3>1
    <2>11. ~Has(queue', IntOf(a))
      BY <2>2, <2>3, <2>5, <2>7 DEF Has, Kinds
    <2>12. \A b \in Addr : b # a => entry'[b] = entry[b] /\ sub'[b] = sub[b]
      BY <1>2, <2>1
    <2>13. ReportsMove'
      <3> SUFFICES ASSUME NEW b \in Addr
                   PROVE  /\ Linked(queue', IntOf(b))
                          /\ FirstIn(queue', IntOf(b), MovesFrom(entry'[b]))
        BY DEF ReportsMove
      <3>1. CASE b = a
        BY <2>11, <3>1, NoneOfThem
      <3>2. CASE b # a
        BY <1>6, <2>9, <2>12, <3>2 DEF FInv, ReportsMove
      <3> QED BY <3>1, <3>2
    <2>14. Held' \subseteq Held
      BY <1>2, <1>6, <2>5, <2>10, QueuedHeld, HeldRests
    <2>15. ASSUME NEW b \in Listed(pf) PROVE b \in Addr /\ b # a
      <3>1. PICK e \in Exts(pf.list) : e.addr = b
        BY <2>15 DEF Listed, AddrOf
      <3>2. e \in Held
        BY <3>1 DEF Held, HeldBy
      <3> QED BY <1>2, <1>9, <3>1, <3>2, HeldSound DEF AddrOf
    <2>16. ASSUME ~reused PROVE Fresh(pf, <<>>, queue', entry', sub')
      <3>1. Alike(pf, rest, queue')
        BY <2>8, <2>9, <2>15 DEF Alike
      <3>2. PICK en2, su2 : en2 = entry' /\ su2 = sub'
        OBVIOUS
      <3>3. \A b \in Listed(pf) : en2[b] = entry[b] /\ su2[b] = sub[b]
        BY <2>12, <2>15, <3>2
      <3>4. Fresh(pf, <<>>, queue', en2, su2)
        BY <1>7, <2>16, <3>1, <3>3, FreshAlike
      <3> QED BY <3>2, <3>4
    <2> QED BY <1>2, <1>6, <2>8, <2>13, <2>14, <2>16, RestingFresh
  <1> QED BY <1>8, <1>9

\* At most one item is linked, and its state is that of all its items.
LEMMA SingleLinked ==
    ASSUME NEW t \in Seq(WorkItem), NEW s, NEW K, \A i, j \in DOMAIN t : i = j,
           \A i \in DOMAIN t : t[i].state = s
    PROVE  Linked(t, K) /\ \A S : s \in S => FirstIn(t, K, S)
  <1>1. \A i \in DOMAIN t : i \in Nat
    BY LenProperties
  <1>2. Linked(t, K)
    BY <1>1 DEF Linked
  <1> QED BY <1>2 DEF FirstIn

\* deliver_subchannel_update: the one SharedSubchannel of the address hears of a state
\* that follows the one it heard of last.
LEMMA DeliverInternalFresh ==
    ASSUME IInv, FInv, DeliverInternal
    PROVE  FInv'
  <1>1. PICK rest, w : rest = Tail(queue) /\ w = Head(queue)
    OBVIOUS
  <1>2. /\ queue # <<>> /\ Sharing /\ queue \in Seq(WorkItem)
        /\ entry \in [Addr -> States \cup {"NONE"}]
        /\ UNCHANGED <<pf, picker, sub, pinned, resolved, asked, panicked, reused>>
    BY <1>1 DEF DeliverInternal, HeadIs, IInv, TypeOK
  <1>3. PICK a \in Addr, s \in States, t \in Seq(WorkItem) : Sends(a, s, rest, t)
    BY <1>1, DeliverSound
  <1>4. /\ rest \in Seq(WorkItem) /\ t \in Seq(WorkItem) /\ queue' = rest \o t
        /\ entry' = [entry EXCEPT ![a] = s] /\ w \in IntOf(a) /\ w.state = s /\ w.kind = "internal"
        /\ \A i \in DOMAIN t : /\ t[i] \in WorkItem /\ t[i].kind = "ext" /\ t[i].state = s
                               /\ t[i].ext \in Held /\ t[i].ext.addr = a
    BY <1>1, <1>3 DEF Sends
  <1>5. /\ \A K : Beheaded(queue, rest, K)
        /\ \A K : Follows(queue, rest, K)
        /\ queue' \in Seq(WorkItem) /\ (\A K : Joined(rest, t, queue', K))
    BY <1>1, <1>2, <1>4, TailSound, TailLinks, JoinSound
  <1>6. \A b : w \notin ExtOf(b) /\ w \notin UpdateOf(b) /\ (w \in IntOf(b) => b = a)
    BY <1>4 DEF ExtOf, UpdateOf, IntOf
  <1>7. \A i \in DOMAIN t : Kinds(t[i])
    BY <1>4, KindSound
  <1>8. /\ \A b : ~Has(t, IntOf(b)) /\ (b # a => ~Has(t, ExtOf(b)))
        /\ \A e : Has(t, UpdateOf(e)) => e \in Held
    <2>1. \A b : ~Has(t, IntOf(b))
      BY <1>4, <1>7 DEF Has, Kinds
    <2>2. ASSUME NEW b, b # a PROVE ~Has(t, ExtOf(b))
      <3>1. ASSUME NEW i \in DOMAIN t, t[i] \in ExtOf(b) PROVE FALSE
        <4>1. t[i].ext.addr = a
          BY <1>4, <3>1
        <4>2. t[i].ext.addr = b
          BY <1>7, <3>1 DEF Kinds
        <4> QED BY <2>2, <4>1, <4>2
      <3> QED BY <3>1 DEF Has
    <2>3. \A e : Has(t, UpdateOf(e)) => e \in Held
      BY <1>4, <1>7 DEF Has, Kinds
    <2> QED BY <2>1, <2>2, <2>3
  <1>9. \A b : /\ Linked(rest, IntOf(b)) => Linked(queue', IntOf(b))
               /\ \A S : FirstIn(rest, IntOf(b), S) => FirstIn(queue', IntOf(b), S)
               /\ b # a => /\ Linked(rest, ExtOf(b)) => Linked(queue', ExtOf(b))
                           /\ \A S : FirstIn(rest, ExtOf(b), S) => FirstIn(queue', ExtOf(b), S)
    BY <1>4, <1>8, JoinLinks
  <1>10. \A b : /\ Has(queue', IntOf(b)) <=> Has(rest, IntOf(b))
                /\ Has(queue, IntOf(a))
                /\ b # a => /\ Has(queue', IntOf(b)) <=> Has(queue, IntOf(b))
                            /\ Has(queue', ExtOf(b)) <=> Has(queue, ExtOf(b))
                /\ Has(rest, ExtOf(b)) <=> Has(queue, ExtOf(b))
                /\ Has(queue', ExtOf(a)) <=> Has(rest, ExtOf(a)) \/ Has(t, ExtOf(a))
                /\ Has(queue', UpdateOf(b)) <=> Has(queue, UpdateOf(b)) \/ Has(t, UpdateOf(b))
    BY <1>1, <1>4, <1>5, <1>6, <1>8 DEF Beheaded, Joined
  <1>11. entry'[a] = s /\ s \in MovesFrom(entry[a]) /\ \A b \in Addr : b # a => entry'[b] = entry[b]
    BY <1>1, <1>2, <1>4, <1>5 DEF FInv, ReportsMove, Follows
  <1>12. ReportsMove'
    <2> SUFFICES ASSUME NEW b \in Addr
                 PROVE  /\ Linked(queue', IntOf(b))
                        /\ FirstIn(queue', IntOf(b), MovesFrom(entry'[b]))
      BY DEF ReportsMove
    <2>1. Linked(queue, IntOf(b)) /\ FirstIn(queue, IntOf(b), MovesFrom(entry[b]))
      BY DEF FInv, ReportsMove
    <2>2. Linked(rest, IntOf(b)) /\ FirstIn(rest, IntOf(b), MovesFrom(entry'[b]))
      <3>1. CASE b = a
        BY <1>1, <1>4, <1>5, <1>11, <2>1, <3>1 DEF Follows
      <3>2. CASE b # a
        BY <1>1, <1>5, <1>6, <1>11, <2>1, <3>2 DEF Follows
      <3> QED BY <3>1, <3>2
    <2> QED BY <1>9, <2>2
  <1>13. Held' \subseteq Held
    BY <1>2, <1>5, <1>8, <1>10, QueuedHeld, HeldRests
  <1>14. ASSUME ~reused
         PROVE  /\ Fresh(pf, <<>>, queue', entry', sub)
                /\ \A b \in Addr : Linked(queue, ExtOf(b)) => Linked(queue', ExtOf(b))
    <2>1. Fresh(pf, <<>>, queue, entry, sub) /\ OneEach
      BY <1>14 DEF FInv
    <2>2. ASSUME NEW i \in DOMAIN t, NEW j \in DOMAIN t PROVE i = j
      <3>1. t[i].ext = t[j].ext
        BY <1>4, <2>1 DEF OneEach
      <3>2. \A k, l \in DOMAIN t : t[k].ext = t[l].ext => k = l
        BY <1>3 DEF Sends
      <3> QED BY <3>1, <3>2
    <2>3. Linked(t, ExtOf(a)) /\ \A S : s \in S => FirstIn(t, ExtOf(a), S)
      BY <1>4, <2>2, SingleLinked
    <2>4. Split(rest, t, queue', ExtOf(a))
      BY <1>4, SplitSound
    <2>5. ASSUME NEW b \in Addr, Linked(queue, ExtOf(b)) PROVE Linked(queue', ExtOf(b))
      <3>1. Linked(rest, ExtOf(b))
        BY <1>1, <1>5, <2>5 DEF Follows
      <3>2. CASE b # a
        BY <1>9, <3>1, <3>2
      <3>3. CASE b = a
        <4>1. LastIs(queue, ExtOf(a), entry[a])
          BY <1>2 DEF Sharing, Delivered
        <4>2. LastIs(rest, ExtOf(a), entry[a])
          BY <1>5, <4>1 DEF Beheaded
        <4> QED BY <1>11, <2>3, <2>4, <3>1, <3>3, <4>2 DEF Split
      <3> QED BY <3>2, <3>3
    <2>6. ASSUME NEW b \in Listed(pf)
          PROVE  /\ Learns(pf, <<>>, queue', entry', sub, b)
                 /\ Waits(<<>>, queue, sub, b) => Waits(<<>>, queue', sub, b)
                 /\ Quiet(pf, <<>>, queue, sub, b) => Quiet(pf, <<>>, queue', sub, b)
      <3>1. Learns(pf, <<>>, queue, entry, sub, b)
        BY <2>1 DEF Fresh, Known
      <3>2. PICK e \in Exts(pf.list) : e.addr = b
        BY <2>6 DEF Listed, AddrOf
      <3>3. e \in Held
        BY <3>2 DEF Held, HeldBy
      <3>4. b \in Addr
        BY <3>2, <3>3, HeldSound DEF IInv
      <3>5. CASE b # a
        <4>1. \A S : FirstIn(queue, ExtOf(b), S) => FirstIn(queue', ExtOf(b), S)
          BY <1>1, <1>5, <1>6, <1>9, <3>5 DEF Follows
        <4>2. Learns(pf, <<>>, queue', entry', sub, b)
          BY <1>10, <1>11, <3>1, <3>4, <3>5, <4>1, NoStarts DEF Learns
        <4>3. Waits(<<>>, queue, sub, b) <=> Waits(<<>>, queue', sub, b)
          BY <1>10, <3>5 DEF Waits
        <4> QED BY <4>2, <4>3 DEF Quiet
      <3>6. CASE b = a
        <4>1. Has(t, ExtOf(a))
          <5>1. PICK i \in DOMAIN t : t[i].ext = e
            BY <1>3, <3>2, <3>3, <3>6 DEF Sends
          <5>2. t[i] \in ExtOf(a)
            BY <1>4, <1>7, <5>1 DEF Kinds
          <5> QED BY <5>2 DEF Has
        <4>2. Has(queue', ExtOf(a)) /\ Waits(<<>>, queue', sub, a) /\ Waits(<<>>, queue, sub, a)
          BY <1>10, <4>1 DEF Waits
        <4>3. FirstIn(queue', ExtOf(a), After(pf.cache[a]))
          <5>1. FirstIn(rest, ExtOf(a), After(pf.cache[a]))
            BY <1>1, <1>5, <1>6, <3>1, <3>6 DEF Learns, Follows
          <5>2. ~Has(rest, ExtOf(a)) => s \in After(pf.cache[a])
            BY <1>10, <1>11, <3>1, <3>6 DEF Learns, After, MovesFrom
          <5> QED BY <2>3, <2>4, <5>1, <5>2 DEF Split
        <4>4. Learns(pf, <<>>, queue', entry', sub, a)
          BY <3>1, <3>6, <4>2, <4>3 DEF Learns
        <4> QED BY <3>6, <4>2, <4>4 DEF Quiet
      <3> QED BY <3>5, <3>6
    <2>7. PICK en2 : en2 = entry'
      OBVIOUS
    <2>8. Fresh(pf, <<>>, queue', en2, sub)
      BY <2>1, <2>6, <2>7, FreshMoves
    <2> QED BY <2>5, <2>7, <2>8
  <1> QED BY <1>2, <1>12, <1>13, <1>14, RestingFresh

-----------------------------------------------------------------------------
(* The theorems.                                                           *)

\* The invariant holds initially.
LEMMA InitFresh == Init => FInv
  <1> SUFFICES ASSUME Init PROVE FInv
    OBVIOUS
  <1>1. IInv
    BY InitHolds
  <1>2. /\ queue = <<>> /\ panicked = FALSE /\ pinned = {} /\ entry = [a \in Addr |-> "NONE"]
        /\ pf.list = <<>> /\ pf.sel = {} /\ pf.conn = "IDLE" /\ pf.steady = FALSE
        /\ picker.ext = {}
    BY DEF Init
  <1>3. DOMAIN queue = {}
    BY <1>2
  <1>4. \A K : ~Has(queue, K)
    BY <1>3 DEF Has
  <1>5. \A K : Linked(queue, K) /\ \A S : FirstIn(queue, K, S)
    BY <1>4, NoneOfThem
  <1>6. Exts(pf.list) = {} /\ InQueue(queue) = {}
    <2>1. DOMAIN pf.list = {}
      BY <1>2
    <2> QED BY <1>3, <2>1 DEF Exts, Range, InQueue
  <1>7. Held = {} /\ Listed(pf) = {}
    BY <1>2, <1>6 DEF Held, HeldBy, Listed, AddrOf
  <1>8. ReportsMove
    BY <1>5 DEF ReportsMove
  <1>9. Fresh(pf, <<>>, queue, entry, sub)
    BY <1>2, <1>7 DEF Fresh, Known, Selection, Progress
  <1> QED BY <1>2, <1>5, <1>7, <1>8, <1>9 DEF FInv, OneEach

\* Every step keeps the invariant.
LEMMA StepFresh == IInv /\ FInv /\ [Next]_vars => FInv'
  <1> SUFFICES ASSUME IInv, FInv, [Next]_vars PROVE FInv'
    OBVIOUS
  <1>1. CASE HandleUpdate
    BY <1>1, HandleUpdateFresh
  <1>2. CASE HandleWork
    BY <1>2, HandleWorkFresh
  <1>3. CASE \E l \in AddrLists : HandleAddresses(l)
    BY <1>3, HandleAddressesFresh
  <1>4. CASE HandleResolverError
    BY <1>4, HandleResolverErrorFresh
  <1>5. CASE DeliverInternal
    BY <1>5, DeliverInternalFresh
  <1>6. CASE ReleaseSubchannel
    BY <1>6, ReleaseSubchannelFresh
  <1>7. CASE \E a \in Addr, s \in States : SubchannelMoves(a, s)
    BY <1>7, SubchannelMovesFresh
  <1>8. CASE TimerFires
    BY <1>8, TimerFiresFresh
  <1>9. CASE PickIdle
    BY <1>9, PickIdleFresh
  <1>10. CASE PickReady
    BY <1>10, PickReadyFresh
  <1>11. CASE CallStarted
    BY <1>11, CallStartedFresh
  <1>12. CASE ResolverHasResult
    BY <1>12, ResolverHasResultFresh
  <1>13. CASE UNCHANGED vars
    <2>1. UNCHANGED <<pf, picker, entry, sub, queue, pinned, panicked, reused>>
      BY <1>13 DEF vars
    <2>2. Held' = Held
      BY <2>1 DEF Held, HeldBy
    <2> QED BY <2>1, <2>2 DEF FInv, OneEach, ReportsMove
  <1> QED BY <1>1, <1>2, <1>3, <1>4, <1>5, <1>6, <1>7, <1>8, <1>9, <1>10, <1>11, <1>12, <1>13
          DEF Next, WorkLoop

\* In every reachable state what the policy believes of an address, what is queued for it
\* and what its entry remembers form a path of documented transitions that ends in the
\* state of its subchannel, as long as no subchannel was handed out twice.
THEOREM FreshInvariant == Spec => [](IInv /\ FInv)
  <1>1. Init => IInv /\ FInv
    BY InitHolds, InitFresh
  <1>2. IInv /\ FInv /\ [Next]_vars => (IInv /\ FInv)'
    BY StepHolds, StepFresh
  <1> QED BY <1>1, <1>2, PTL DEF Spec

\* set_transient_failure always has an error to publish (the expect at pick_first.rs:482
\* does not fail) as long as no subchannel was handed out twice.
THEOREM FreshNeverPanics == Spec => []FreshNoPanic
  <1>1. FInv => FreshNoPanic
    BY DEF FInv, FreshNoPanic
  <1> QED BY <1>1, FreshInvariant, PTL

\* The policy reports READY exactly while it has a selected subchannel, as long as no
\* subchannel was handed out twice.
THEOREM FreshShowsSelection == Spec => []FreshSelected
  <1>1. FInv => FreshSelected
    BY DEF FInv, FreshSelected, Fresh, Selection
  <1> QED BY <1>1, FreshInvariant, PTL

\* A drained queue tells the whole truth about the listed addresses.
LEMMA DrainedKnown ==
    ASSUME IInv, FInv, ~reused, queue = <<>>, NEW a \in Listed(pf)
    PROVE  pf.cache[a] = sub[a] /\ ~Waits(<<>>, queue, sub, a)
  <1>1. DOMAIN queue = {}
    OBVIOUS
  <1>2. \A K : ~Has(queue, K)
    BY <1>1 DEF Has
  <1>3. ~Waits(<<>>, queue, sub, a)
    BY <1>2, NoStarts DEF Waits
  <1>4. Backs(pf, queue, entry, sub)
    BY BacksSound
  <1>5. Learns(pf, <<>>, queue, entry, sub, a)
    BY DEF FInv, Fresh, Known
  <1> QED BY <1>2, <1>3, <1>4, <1>5, NoStarts DEF Backs, Learns

\* When all updates have been handled a policy that queues calls has an attempt under way,
\* and one that fails them an attempt or a backoff, as long as no subchannel was handed
\* out twice: no lost or reordered update leaves it waiting for nothing.
THEOREM FreshIsNotStuck == Spec => []FreshNotStuck
  <1>1. ASSUME IInv, FInv PROVE FreshNotStuck
    <2> SUFFICES ASSUME ~reused, queue = <<>>, pf.list # <<>>
                 PROVE  /\ pf.conn = "CONNECTING" =>
                              \E e \in Exts(pf.list) : sub[e.addr] = "CONNECTING"
                        /\ pf.conn = "TRANSIENT_FAILURE" =>
                              \E e \in Exts(pf.list) :
                                  sub[e.addr] \in {"CONNECTING", "TRANSIENT_FAILURE"}
      BY DEF FreshNotStuck
    <2>1. \A a \in Listed(pf) : pf.cache[a] = sub[a] /\ ~Waits(<<>>, queue, sub, a)
      BY <1>1, DrainedKnown
    <2>2. \A e \in Exts(pf.list) : e.addr \in Listed(pf)
      BY DEF Listed, AddrOf
    <2>3. \A a \in Listed(pf) : \E e \in Exts(pf.list) : e.addr = a
      BY DEF Listed, AddrOf
    <2>4. pf \in Policy /\ pf.list \in Seq(Ext) /\ pf.frontier \in Nat \ {0}
      BY <1>1 DEF IInv, TypeOK, Policy
    <2>5. /\ Exts(pf.list) \in SUBSET Ext /\ DOMAIN pf.list = 1 .. Len(pf.list)
          /\ Len(pf.list) \in Nat /\ \A i \in DOMAIN pf.list : pf.list[i] \in Exts(pf.list)
      BY <2>4, ListSound
    <2>6. Fresh(pf, <<>>, queue, entry, sub)
      BY <1>1 DEF FInv
    <2>7. ASSUME pf.conn = "CONNECTING"
          PROVE  \E e \in Exts(pf.list) : sub[e.addr] = "CONNECTING"
      <3>1. CASE pf.frontier <= Len(pf.list)
        <4>1. pf.list[pf.frontier] \in Exts(pf.list)
          BY <2>4, <2>5, <3>1
        <4>2. pf.cache[pf.list[pf.frontier].addr] = "CONNECTING"
          BY <2>6, <2>7, <3>1 DEF Fresh, Progress
        <4> QED BY <2>1, <2>2, <4>1, <4>2
      <3>2. CASE ~(pf.frontier <= Len(pf.list))
        <4>1. AnyConnecting(pf)
          BY <2>6, <2>7, <3>2 DEF Fresh, Progress
        <4> QED BY <2>1, <2>2, <4>1 DEF AnyConnecting
      <3> QED BY <3>1, <3>2
    <2>8. ASSUME pf.conn = "TRANSIENT_FAILURE"
          PROVE  \E e \in Exts(pf.list) : sub[e.addr] \in {"CONNECTING", "TRANSIENT_FAILURE"}
      <3>1. CASE pf.steady
        <4>1. 1 \in DOMAIN pf.list
          BY <2>4, <2>5
        <4>2. PICK e \in Exts(pf.list) : e = pf.list[1]
          BY <2>5, <4>1
        <4>3. sub[e.addr] # "IDLE"
          BY <2>1, <2>2, <2>6, <2>8, <3>1, <4>2 DEF Fresh, Progress
        <4>4. sub[e.addr] # "READY"
          BY <2>1, <2>2, <2>6, <2>8, <4>2, Unselected DEF Cold
        <4>5. sub[e.addr] \in States
          <5>1. e.addr \in Addr
            BY <2>5, <4>2 DEF Ext
          <5> QED BY <1>1, <5>1 DEF IInv, TypeOK
        <4> QED BY <4>2, <4>3, <4>4, <4>5 DEF States
      <3>2. CASE ~pf.steady
        <4>1. PICK a \in Listed(pf) : \/ pf.cache[a] \in {"TRANSIENT_FAILURE", "CONNECTING"}
                                      \/ Waits(<<>>, queue, sub, a)
          BY <2>6, <2>8, <3>2 DEF Fresh, Progress
        <4>2. sub[a] \in {"CONNECTING", "TRANSIENT_FAILURE"}
          BY <2>1, <4>1
        <4> QED BY <2>3, <4>2
      <3> QED BY <3>1, <3>2
    <2> QED BY <2>7, <2>8
  <1> QED BY <1>1, FreshInvariant, PTL

=============================================================================
