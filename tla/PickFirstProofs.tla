--------------------------- MODULE PickFirstProofs ---------------------------
(***************************************************************************)
(* Proofs about PickFirst, for any addresses, address lists, families and  *)
(* bounds: the queue carries what the sharing layer and the policy do not  *)
(* know yet, in order, and the policy's methods keep to what they know.    *)
(***************************************************************************)
EXTENDS PickFirst, TLAPS, FiniteSetTheorems, SequenceTheorems, WellFoundedInduction

-----------------------------------------------------------------------------
(* Helpers of the model.                                                   *)

\* Min is the least element of a set of numbers.
LEMMA MinSound ==
    ASSUME NEW S \in SUBSET Nat, S # {}
    PROVE  Min(S) \in S /\ \A j \in S : Min(S) <= j
  <1> DEFINE R == {ss \in Nat \X Nat : ss[1] < ss[2]}
  <1>1. IsWellFoundedOn(R, Nat)
    BY NatLessThanWellFounded, Zenon DEF OpToRel
  <1>2. \E i \in S : \A j \in S : <<j, i>> \notin R
    <2> HIDE DEF R
    <2> QED BY <1>1, WFMin
  <1>3. \E i \in S : \A j \in S : i <= j
    <2>1. PICK i \in S : \A j \in S : <<j, i>> \notin R
      BY <1>2
    <2>2. ASSUME NEW j \in S PROVE ~(j < i)
      BY <2>1
    <2> QED BY <2>2
  <1> QED BY <1>3, Zenon DEF Min

\* SetToSeq lists every element once.
LEMMA SetToSeqSound ==
    ASSUME NEW S, IsFiniteSet(S)
    PROVE  /\ Cardinality(S) \in Nat
           /\ SetToSeq(S) \in [1 .. Cardinality(S) -> S]
           /\ IsInjective(SetToSeq(S))
           /\ \A x \in S : \E i \in 1 .. Cardinality(S) : SetToSeq(S)[i] = x
  <1>1. Cardinality(S) \in Nat /\ ExistsBijection(1 .. Cardinality(S), S)
    BY FS_CardinalityType
  <1>2. \E f \in [1 .. Cardinality(S) -> S] : IsInjective(f)
    BY <1>1 DEF ExistsBijection, Bijection, Injection
  <1>3. SetToSeq(S) \in [1 .. Cardinality(S) -> S] /\ IsInjective(SetToSeq(S))
    BY <1>2, Zenon DEF SetToSeq
  <1>4. SetToSeq(S) \in Injection(1 .. Cardinality(S), S)
    BY <1>3 DEF Injection
  <1>5. Cardinality(1 .. Cardinality(S)) = Cardinality(S)
    BY <1>1, FS_Interval
  <1>6. SetToSeq(S) \in Surjection(1 .. Cardinality(S), S)
    BY <1>4, <1>5, FS_Injection
  <1> QED BY <1>1, <1>3, <1>6 DEF Surjection

\* Order of positions: how many positions of keep are below j.
Below(keep, j) == Cardinality({k \in keep : k < j})

\* Every rank below the size of keep is the rank of exactly one position.
LEMMA RanksSound ==
    ASSUME NEW keep \in SUBSET Nat, IsFiniteSet(keep)
    PROVE  /\ Cardinality(keep) \in Nat
           /\ \A j \in keep : Below(keep, j) \in 0 .. Cardinality(keep) - 1
           /\ \A j, k \in keep : j < k => Below(keep, j) < Below(keep, k)
           /\ \A n \in 0 .. Cardinality(keep) - 1 : \E j \in keep : Below(keep, j) = n
  <1> DEFINE L(j) == {k \in keep : k < j}
  <1>1. Cardinality(keep) \in Nat
    BY FS_CardinalityType
  <1>2. ASSUME NEW j \in keep
        PROVE  IsFiniteSet(L(j)) /\ Cardinality(L(j)) \in Nat /\ Cardinality(L(j)) < Cardinality(keep)
    <2>1. L(j) \subseteq keep /\ j \notin L(j)
      OBVIOUS
    <2>2. IsFiniteSet(L(j)) /\ Cardinality(L(j)) <= Cardinality(keep)
          /\ (Cardinality(keep) = Cardinality(L(j)) => keep = L(j))
      BY <2>1, FS_Subset
    <2>3. Cardinality(L(j)) \in Nat
      BY <2>2, FS_CardinalityType
    <2> QED BY <1>1, <2>1, <2>2, <2>3
  <1>3. ASSUME NEW j \in keep, NEW k \in keep, j < k
        PROVE  Cardinality(L(j)) < Cardinality(L(k))
    <2>4. ASSUME NEW x \in keep, x < j PROVE x < k
      <3>1. x \in Nat /\ j \in Nat /\ k \in Nat
        OBVIOUS
      <3> QED BY <1>3, <2>4, <3>1
    <2>5. ~(j < j)
      <3>1. j \in Nat
        OBVIOUS
      <3> QED BY <3>1
    <2>1. L(j) \subseteq L(k) /\ j \in L(k) /\ j \notin L(j)
      BY <1>3, <2>4, <2>5
    <2>2. IsFiniteSet(L(k)) /\ Cardinality(L(k)) \in Nat /\ Cardinality(L(j)) \in Nat
      BY <1>2
    <2>3. Cardinality(L(j)) <= Cardinality(L(k)) /\ (Cardinality(L(k)) = Cardinality(L(j)) => L(k) = L(j))
      BY <2>1, <2>2, FS_Subset
    <2> QED BY <2>1, <2>2, <2>3
  <1>4. \A j \in keep : Below(keep, j) = Cardinality(L(j))
    BY DEF Below
  <1>5. \A j \in keep : Below(keep, j) \in 0 .. Cardinality(keep) - 1
    <2> HIDE DEF L
    <2> QED BY <1>1, <1>2, <1>4
  <1>6. \A j, k \in keep : j < k => Below(keep, j) < Below(keep, k)
    BY <1>3, <1>4
  <1>7. ASSUME NEW n \in 0 .. Cardinality(keep) - 1
        PROVE  \E j \in keep : Below(keep, j) = n
    <2> DEFINE rank == [j \in keep |-> Below(keep, j)]
               T == 0 .. Cardinality(keep) - 1
    <2>1. rank \in [keep -> T]
      BY <1>5
    <2>2. \A j, k \in keep : rank[j] = rank[k] => j = k
      <3> SUFFICES ASSUME NEW j \in keep, NEW k \in keep, rank[j] = rank[k], j # k
                   PROVE  FALSE
        OBVIOUS
      <3>1. Below(keep, j) \in Nat /\ Below(keep, k) \in Nat /\ Below(keep, j) = Below(keep, k)
        BY <1>5, <1>1
      <3>2. j < k \/ k < j
        OBVIOUS
      <3> QED BY <1>6, <3>1, <3>2
    <2>3. rank \in Injection(keep, T)
      BY <2>1, <2>2 DEF Injection, IsInjective
    <2>4. IsFiniteSet(T) /\ Cardinality(T) = Cardinality(keep)
      BY <1>1, FS_Interval
    <2>5. rank \in Surjection(keep, T)
      <3> HIDE DEF rank, T
      <3> QED BY <2>3, <2>4, FS_Injection
    <2>6. \E j \in keep : rank[j] = n
      BY <2>5 DEF Surjection
    <2> QED BY <2>6
  <1> QED BY <1>1, <1>5, <1>6, <1>7

\* g lists the positions in keep, which are n, in order.
Enumerates(g, keep, n) ==
    /\ g \in [1 .. n -> keep]
    /\ \A i, j \in 1 .. n : i < j => g[i] < g[j]
    /\ \A k \in keep : \E i \in 1 .. n : g[i] = k

\* ItemsAt lists the items at the positions in keep: g says where each one was.
LEMMA ItemsAtSound ==
    ASSUME NEW keep \in SUBSET Nat, IsFiniteSet(keep), NEW f
    PROVE  /\ Cardinality(keep) \in Nat
           /\ \E g : /\ Enumerates(g, keep, Cardinality(keep))
                    /\ ItemsAt(f, keep) = [i \in 1 .. Cardinality(keep) |-> f[g[i]]]
  <1> DEFINE n == Cardinality(keep)
             G(i) == CHOOSE j \in keep : Cardinality({k \in keep : k < j}) = i - 1
             g == [i \in 1 .. n |-> G(i)]
  <1>1. n \in Nat
    BY RanksSound
  <1>2. ASSUME NEW i \in 1 .. n
        PROVE  G(i) \in keep /\ Below(keep, G(i)) = i - 1
    <2>1. i - 1 \in 0 .. n - 1
      BY <1>1
    <2>2. \E j \in keep : Below(keep, j) = i - 1
      BY <2>1, RanksSound
    <2> QED BY <2>2, Zenon DEF Below
  <1>3. g \in [1 .. n -> keep]
    BY <1>2
  <1>4. ASSUME NEW i \in 1 .. n, NEW j \in 1 .. n, i < j
        PROVE  g[i] < g[j]
    <2>1. PICK x \in keep : x = G(i) /\ Below(keep, x) = i - 1
      BY <1>2
    <2>2. PICK y \in keep : y = G(j) /\ Below(keep, y) = j - 1
      BY <1>2
    <2>3. y < x => j - 1 < i - 1
      BY <2>1, <2>2, RanksSound
    <2> HIDE DEF G
    <2>5. x \in Nat /\ y \in Nat /\ i \in Nat /\ j \in Nat
      BY <1>1
    <2>4. x # y
      BY <1>4, <2>1, <2>2, <2>5
    <2>6. x < y
      BY <1>4, <2>3, <2>4, <2>5
    <2> QED BY <2>1, <2>2, <2>6
  <1>5. ASSUME NEW k \in keep
        PROVE  \E i \in 1 .. n : g[i] = k
    <2>1. Below(keep, k) \in 0 .. n - 1
      BY RanksSound
    <2>2. PICK i \in 1 .. n : i = Below(keep, k) + 1
      BY <1>1, <2>1
    <2>3. PICK x \in keep : x = G(i) /\ Below(keep, x) = i - 1
      BY <1>2
    <2>4. Below(keep, x) = Below(keep, k)
      BY <1>1, <2>1, <2>2, <2>3
    <2>5. ~(x < k) /\ ~(k < x)
      BY <1>1, <2>1, <2>4, RanksSound
    <2>6. x = k
      BY <2>5
    <2> QED BY <2>3, <2>6
  <1>6. ItemsAt(f, keep) = [i \in 1 .. n |-> f[g[i]]]
    <2>1. ItemsAt(f, keep) = [i \in 1 .. n |-> f[G(i)]]
      BY Zenon DEF ItemsAt
    <2>2. \A i \in 1 .. n : g[i] = G(i)
      OBVIOUS
    <2> HIDE DEF g, G
    <2> QED BY <2>1, <2>2
  <1> QED
    <2> HIDE DEF g
    <2> QED BY <1>1, <1>3, <1>4, <1>5, <1>6 DEF Enumerates

\* The range of a sequence is a finite set of its elements' type.
LEMMA RangeSound ==
    ASSUME NEW S, NEW q \in Seq(S)
    PROVE  /\ IsFiniteSet(Range(q)) /\ Range(q) \in SUBSET S
           /\ DOMAIN q = 1 .. Len(q) /\ Len(q) \in Nat
           /\ \A i \in DOMAIN q : q[i] \in Range(q)
           /\ \A x \in Range(q) : \E i \in DOMAIN q : q[i] = x
  <1>1. q \in [1 .. Len(q) -> S] /\ Len(q) \in Nat
    BY LenProperties
  <1>2. IsFiniteSet(1 .. Len(q))
    BY <1>1, FS_Interval
  <1>3. q \in Surjection(1 .. Len(q), Range(q))
    BY <1>1 DEF Surjection, Range
  <1>4. IsFiniteSet(Range(q))
    BY <1>2, <1>3, FS_Surjection
  <1> QED BY <1>1, <1>4 DEF Range

\* compile_address keeps every address once.
LEMMA CompileAddressSound ==
    ASSUME NEW raw \in Seq(Addr)
    PROVE  /\ CompileAddress(raw) \in Seq(Addr)
           /\ Range(CompileAddress(raw)) = Range(raw)
           /\ IsInjective(CompileAddress(raw))
  <1> DEFINE S == Range(raw)
             at(a) == {i \in DOMAIN raw : raw[i] = a}
             first(a) == Min(at(a))
             ahead(a) == {b \in S : Family[b] = Family[a] /\ first(b) < first(a)}
             turn(a) == Cardinality(ahead(a))
             place(a) == 3 * turn(a) + Family[a]
             places == {place(a) : a \in S}
             inv == [n \in places |-> CHOOSE a \in S : place(a) = n]
             place_fn == [a \in S |-> place(a)]
  <1>1. IsFiniteSet(S) /\ S \in SUBSET Addr /\ DOMAIN raw = 1 .. Len(raw) /\ Len(raw) \in Nat
    BY RangeSound
  <1>2. ASSUME NEW a \in S
        PROVE  first(a) \in Nat /\ raw[first(a)] = a /\ Family[a] \in 0 .. 2
    <2>1. at(a) \in SUBSET Nat
      BY <1>1
    <2>2. at(a) # {}
      BY RangeSound
    <2>3. first(a) \in at(a)
      <3> HIDE DEF at
      <3> QED BY <2>1, <2>2, MinSound
    <2>4. a \in Addr
      BY <1>1
    <2> QED BY <2>1, <2>3, <2>4, ListsAssumption
  <1>3. ASSUME NEW a \in S
        PROVE  IsFiniteSet(ahead(a)) /\ turn(a) \in Nat
    <2>1. ahead(a) \in SUBSET S
      OBVIOUS
    <2>2. IsFiniteSet(ahead(a))
      BY <1>1, <2>1, FS_Subset
    <2> QED BY <2>2, FS_CardinalityType
  <1>4. ASSUME NEW a \in S, NEW b \in S, Family[a] = Family[b], first(a) < first(b)
        PROVE  turn(a) < turn(b)
    <2> HIDE DEF first, S
    <2>1. ASSUME NEW x \in S, first(x) < first(a) PROVE first(x) < first(b)
      <3>1. first(x) \in Nat /\ first(a) \in Nat /\ first(b) \in Nat
        BY <1>2
      <3> QED BY <1>4, <2>1, <3>1
    <2>2. ~(first(a) < first(a))
      <3>1. first(a) \in Nat
        BY <1>2
      <3> QED BY <3>1
    <2>3. ahead(a) \subseteq ahead(b) /\ a \in ahead(b) /\ a \notin ahead(a)
      BY <1>4, <2>1, <2>2
    <2>4. IsFiniteSet(ahead(b)) /\ turn(a) \in Nat /\ turn(b) \in Nat
      BY <1>3
    <2>5. turn(a) <= turn(b) /\ (turn(b) = turn(a) => ahead(b) = ahead(a))
      <3> HIDE DEF ahead
      <3> QED BY <2>3, <2>4, FS_Subset
    <2>6. ahead(b) # ahead(a)
      BY <2>3
    <2> HIDE DEF turn
    <2> QED BY <2>4, <2>5, <2>6
  <1>5. ASSUME NEW a \in S PROVE place(a) \in Nat
    <2> HIDE DEF turn, S, first, ahead
    <2>1. turn(a) \in Nat
      BY <1>3
    <2>2. Family[a] \in 0 .. 2
      BY <1>2
    <2> QED BY <2>1, <2>2
  <1>6. ASSUME NEW a \in S, NEW b \in S, place(a) = place(b) PROVE a = b
    <2> HIDE DEF turn, first, S
    <2>1. Family[a] \in 0 .. 2 /\ Family[b] \in 0 .. 2 /\ turn(a) \in Nat /\ turn(b) \in Nat
      BY <1>2, <1>3
    <2>2. turn(a) = turn(b) /\ Family[a] = Family[b]
      BY <1>6, <2>1
    <2>3. ~(first(a) < first(b)) /\ ~(first(b) < first(a))
      BY <1>4, <2>1, <2>2
    <2>4. first(a) = first(b)
      BY <1>2, <2>3
    <2> QED BY <1>2, <2>4
  <1>7. ASSUME NEW a \in S PROVE place(a) \in places /\ inv[place(a)] = a
    <2> HIDE DEF place
    <2>1. place(a) \in places
      OBVIOUS
    <2>2. \A b \in S : place(b) = place(a) => b = a
      BY <1>6
    <2>3. (CHOOSE b \in S : place(b) = place(a)) = a
      BY <2>2
    <2> QED BY <2>1, <2>3
  <1>8. places \in SUBSET Nat
    <2> HIDE DEF place
    <2> QED BY <1>5
  <1>9. IsFiniteSet(places)
    <2> HIDE DEF place
    <2>1. place_fn \in Surjection(S, places)
      BY DEF Surjection
    <2> HIDE DEF place_fn, places
    <2> QED BY <1>1, <2>1, FS_Surjection
  <1>10. CompileAddress(raw) = ItemsAt(inv, places)
    BY Zenon DEF CompileAddress
  <1>11. \A n \in places : \E a \in S : n = place(a) /\ inv[n] = a
    <2> HIDE DEF place, inv
    <2> QED BY <1>7
  <1> DEFINE len == Cardinality(places)
  <1> HIDE DEF places, inv, place, S
  <1>12. len \in Nat
    BY <1>8, <1>9, ItemsAtSound
  <1>20. PICK g : /\ Enumerates(g, places, len)
                  /\ ItemsAt(inv, places) = [i \in 1 .. len |-> inv[g[i]]]
    BY <1>8, <1>9, ItemsAtSound
  <1>13. /\ g \in [1 .. len -> places]
         /\ \A i, j \in 1 .. len : i < j => g[i] < g[j]
         /\ \A k \in places : \E i \in 1 .. len : g[i] = k
         /\ ItemsAt(inv, places) = [i \in 1 .. len |-> inv[g[i]]]
    BY <1>20 DEF Enumerates
  <1>14. \A i \in 1 .. len : CompileAddress(raw)[i] = inv[g[i]] /\ inv[g[i]] \in S
    BY <1>10, <1>11, <1>13
  <1>15. DOMAIN CompileAddress(raw) = 1 .. len
    BY <1>10, <1>13
  <1>16. CompileAddress(raw) \in Seq(Addr)
    <2>1. CompileAddress(raw) \in [1 .. len -> Addr]
      BY <1>1, <1>10, <1>13, <1>14
    <2> HIDE DEF len
    <2> QED BY <1>12, <2>1, SeqDef
  <1>17. \A x \in S : \E i \in 1 .. len : CompileAddress(raw)[i] = x
    <2> SUFFICES ASSUME NEW x \in S PROVE \E i \in 1 .. len : CompileAddress(raw)[i] = x
      OBVIOUS
    <2>1. place(x) \in places /\ inv[place(x)] = x
      BY <1>7
    <2>2. PICK i \in 1 .. len : g[i] = place(x)
      BY <1>13, <2>1
    <2> QED BY <1>14, <2>1, <2>2
  <1>18. Range(CompileAddress(raw)) = S
    BY <1>14, <1>15, <1>17 DEF Range
  <1>19. IsInjective(CompileAddress(raw))
    <2> SUFFICES ASSUME NEW i \in 1 .. len, NEW j \in 1 .. len,
                        CompileAddress(raw)[i] = CompileAddress(raw)[j]
                 PROVE  i = j
      BY <1>15 DEF IsInjective
    <2>1. inv[g[i]] = inv[g[j]]
      BY <1>14
    <2>2. PICK a \in S : g[i] = place(a) /\ inv[g[i]] = a
      BY <1>11, <1>13
    <2>3. PICK b \in S : g[j] = place(b) /\ inv[g[j]] = b
      BY <1>11, <1>13
    <2>4. g[i] = g[j]
      BY <2>1, <2>2, <2>3
    <2>5. g[i] \in Nat /\ g[j] \in Nat
      BY <1>8, <1>13
    <2>6. ~(i < j) /\ ~(j < i)
      BY <1>13, <2>4, <2>5
    <2> QED BY <1>12, <2>6
  <1> QED BY <1>16, <1>18, <1>19 DEF S

-----------------------------------------------------------------------------
(* The policy's methods.  What is said of a call c holds of the record a   *)
(* method returns: H is the set of SharedSubchannels somebody holds, R the *)
(* addresses that may be believed READY, X says whether the resolver has   *)
(* been asked already.                                                     *)

Calls == [p : Policy, picker : Pickers, connects : Seq(Addr), resolve : BOOLEAN,
          panic : BOOLEAN]

\* The policy holds what it was given, connects what it lists, each once, and
\* believes READY only what may be.
Base(c, H, R) ==
    /\ c \in Calls
    /\ Distinct(c.p.list)
    /\ IsInjective(c.connects) /\ Range(c.connects) \subseteq AddrOf(Exts(c.p.list))
    /\ Exts(c.p.list) \subseteq H /\ c.p.sel \subseteq H /\ c.picker.ext \subseteq H
    /\ \A e \in Exts(c.p.list) : c.p.cache[e.addr] = "READY" => e.addr \in R
    /\ \A e \in c.p.sel : e.addr \in R

\* The selected subchannel is listed, and a READY picker offers it.
Shown(c) ==
    /\ c.p.sel \subseteq Exts(c.p.list)
    /\ c.picker.state = "READY" => c.p.conn = "READY" /\ c.picker.ext \subseteq c.p.sel

\* A failing policy without a selection has asked for new addresses.
Asks(c, X) == c.p.conn = "TRANSIENT_FAILURE" /\ c.p.sel = {} => c.resolve \/ X

Good(c, H, R, X) == Base(c, H, R) /\ (~c.panic => Shown(c) /\ Asks(c, X))

\* The elements of a list are SharedSubchannels.
LEMMA ListSound ==
    ASSUME NEW list \in Seq(Ext)
    PROVE  /\ Exts(list) \in SUBSET Ext /\ IsFiniteSet(Exts(list))
           /\ DOMAIN list = 1 .. Len(list) /\ Len(list) \in Nat
           /\ \A i \in DOMAIN list : list[i] \in Exts(list)
           /\ \A e \in Exts(list) : \E i \in DOMAIN list : list[i] = e
BY RangeSound, Zenon DEF Exts

\* advance_frontier: the frontier is the first index from start on that is not
\* failing, or none is left.
LEMMA AdvanceFrontierSound ==
    ASSUME NEW p \in Policy, NEW start \in Nat \ {0},
           NEW f, f = AdvanceFrontier(p, start)
    PROVE  /\ f \in Nat \ {0} /\ start <= f
           /\ f <= Len(p.list) =>
                 f \in DOMAIN p.list /\ p.cache[p.list[f].addr] # "TRANSIENT_FAILURE"
           /\ f > Len(p.list) =>
                 \A i \in DOMAIN p.list : start <= i =>
                     p.cache[p.list[i].addr] = "TRANSIENT_FAILURE"
  <1> DEFINE viable == {i \in start .. Len(p.list) :
                            p.cache[p.list[i].addr] # "TRANSIENT_FAILURE"}
  <1>1. p.list \in Seq(Ext)
    BY DEF Policy
  <1>2. DOMAIN p.list = 1 .. Len(p.list) /\ Len(p.list) \in Nat
    BY <1>1, ListSound
  <1>3. viable \in SUBSET Nat
    BY <1>2
  <1>4. CASE viable # {}
    <2>1. f = Min(viable)
      BY <1>4, Zenon DEF AdvanceFrontier
    <2>2. f \in viable
      <3> HIDE DEF viable
      <3> QED BY <1>3, <1>4, <2>1, MinSound
    <2> QED BY <1>2, <2>2
  <1>5. CASE viable = {}
    <2>1. f = Max({start, Len(p.list) + 1})
      BY <1>5, Zenon DEF AdvanceFrontier
    <2>2. \E x \in {start, Len(p.list) + 1} : \A y \in {start, Len(p.list) + 1} : x >= y
      BY <1>2
    <2>3. f \in {start, Len(p.list) + 1} /\ f >= start /\ f >= Len(p.list) + 1
      BY <2>1, <2>2, Zenon DEF Max
    <2>4. f > Len(p.list) /\ f \in Nat \ {0}
      BY <1>2, <2>3
    <2>5. \A i \in DOMAIN p.list : start <= i => i \in start .. Len(p.list)
      BY <1>2
    <2>6. \A i \in start .. Len(p.list) : p.cache[p.list[i].addr] = "TRANSIENT_FAILURE"
      BY <1>5
    <2> QED BY <1>2, <2>3, <2>4, <2>5, <2>6
  <1> QED BY <1>4, <1>5

\* d is c after the frontier went on from start.
Tried(c, start, d) ==
    /\ d \in Calls /\ d.p.frontier \in Nat \ {0} /\ start <= d.p.frontier
    /\ d.p.conn = c.p.conn /\ d.p.list = c.p.list /\ d.p.sel = c.p.sel
    /\ d.p.err = c.p.err /\ d.p.steady = c.p.steady /\ d.p.fails = c.p.fails
    /\ d.picker = c.picker /\ d.resolve = c.resolve /\ d.panic = c.panic
    /\ d.p.frontier > Len(c.p.list) =>
          /\ d.p.cache = c.p.cache /\ d.connects = c.connects /\ d.p.timer = c.p.timer
          /\ \A i \in DOMAIN c.p.list : start <= i =>
                 c.p.cache[c.p.list[i].addr] = "TRANSIENT_FAILURE"
    /\ d.p.frontier <= Len(c.p.list) =>
          \E a \in Addr :
             /\ d.p.frontier \in DOMAIN c.p.list
             /\ c.p.list[d.p.frontier].addr = a
             /\ c.p.cache[a] # "TRANSIENT_FAILURE"
             /\ d.p.cache = [c.p.cache EXCEPT ![a] = "CONNECTING"]
             /\ d.connects = Append(c.connects, a) /\ d.p.timer = "running"

\* TryNext ends at the next index that is not failing, or past the list.
LEMMA TryNextSound ==
    ASSUME NEW c \in Calls, NEW start \in Nat \ {0}, NEW d, d = TryNext(c, start)
    PROVE  Tried(c, start, d)
  <1>1. c.p \in Policy /\ c.p.list \in Seq(Ext) /\ Len(c.p.list) \in Nat
    BY ListSound DEF Calls, Policy
  <1>2. PICK f : f = AdvanceFrontier(c.p, start)
    OBVIOUS
  <1>3. /\ f \in Nat \ {0} /\ start <= f
        /\ f <= Len(c.p.list) =>
              f \in DOMAIN c.p.list /\ c.p.cache[c.p.list[f].addr] # "TRANSIENT_FAILURE"
        /\ f > Len(c.p.list) =>
              \A i \in DOMAIN c.p.list : start <= i =>
                  c.p.cache[c.p.list[i].addr] = "TRANSIENT_FAILURE"
    BY <1>1, <1>2, AdvanceFrontierSound
  <1>4. PICK b : b = [c EXCEPT !.p.frontier = f]
    OBVIOUS
  <1>5. /\ b \in Calls /\ b.p = [c.p EXCEPT !.frontier = f]
        /\ b.picker = c.picker /\ b.connects = c.connects /\ b.resolve = c.resolve
        /\ b.panic = c.panic
    BY <1>3, <1>4 DEF Calls, Policy
  <1>6. CASE f <= Len(c.p.list)
    <2>1. d = Trigger(b)
      BY <1>2, <1>4, <1>6, Zenon DEF TryNext
    <2>2. c.p.list[f] \in Ext
      BY <1>1, <1>3, <1>6, ListSound
    <2>3. PICK a \in Addr : a = c.p.list[f].addr
      BY <2>2 DEF Ext
    <2>4. b.p.list[b.p.frontier].addr = a
      BY <1>5, <2>3 DEF Calls, Policy
    <2>5. d = [b EXCEPT !.p.cache[a] = "CONNECTING", !.p.timer = "running",
                        !.connects = Append(@, a)]
      BY <2>1, <2>4, Zenon DEF Trigger
    <2>6. b.p.cache \in [Addr -> States \cup {"NONE"}] /\ b.connects \in Seq(Addr)
      BY <1>5 DEF Calls, Policy
    <2>7. PICK k \in [Addr -> States \cup {"NONE"}] : k = [b.p.cache EXCEPT ![a] = "CONNECTING"]
      BY <2>6 DEF States
    <2>8. PICK q \in Seq(Addr) : q = Append(b.connects, a)
      BY <2>6, AppendProperties
    <2>9. PICK np \in Policy : np = [b.p EXCEPT !.cache = k, !.timer = "running"]
      BY <1>5 DEF Calls, Policy
    <2>10. d = [b EXCEPT !.p = np, !.connects = q]
      BY <1>5, <2>5, <2>7, <2>8, <2>9 DEF Calls, Policy
    <2>11. /\ d.p = np /\ d.connects = q
           /\ d.picker = b.picker /\ d.resolve = b.resolve /\ d.panic = b.panic
           /\ d \in Calls
      BY <1>5, <2>10 DEF Calls
    <2>12. /\ np.frontier = f /\ np.conn = c.p.conn /\ np.list = c.p.list /\ np.sel = c.p.sel
           /\ np.err = c.p.err /\ np.steady = c.p.steady /\ np.fails = c.p.fails
           /\ np.timer = "running" /\ np.cache = [c.p.cache EXCEPT ![a] = "CONNECTING"]
      BY <1>1, <1>3, <1>5, <2>7, <2>9 DEF Policy
    <2>13. d.p.frontier = f /\ ~(d.p.frontier > Len(c.p.list))
      BY <1>1, <1>3, <1>6, <2>11, <2>12
    <2>14. /\ d.p.frontier \in DOMAIN c.p.list /\ c.p.list[d.p.frontier].addr = a
           /\ c.p.cache[a] # "TRANSIENT_FAILURE"
      BY <1>3, <1>6, <2>3, <2>13
    <2>15. /\ d.p.cache = [c.p.cache EXCEPT ![a] = "CONNECTING"]
           /\ d.connects = Append(c.connects, a) /\ d.p.timer = "running"
      BY <1>5, <2>8, <2>11, <2>12
    <2>16. /\ d.p.conn = c.p.conn /\ d.p.list = c.p.list /\ d.p.sel = c.p.sel
           /\ d.p.err = c.p.err /\ d.p.steady = c.p.steady /\ d.p.fails = c.p.fails
           /\ d.picker = c.picker /\ d.resolve = c.resolve /\ d.panic = c.panic
      BY <1>5, <2>11, <2>12
    <2> QED BY <1>3, <2>11, <2>13, <2>14, <2>15, <2>16 DEF Tried
  <1>7. CASE ~(f <= Len(c.p.list))
    <2>1. d = b
      BY <1>2, <1>4, <1>7, Zenon DEF TryNext
    <2> QED BY <1>1, <1>3, <1>5, <1>7, <2>1 DEF Calls, Policy, Tried
  <1> QED BY <1>6, <1>7

\* d is c after update_picker.
Published(c, s, x, d) ==
    /\ d \in Calls /\ d.p = [c.p EXCEPT !.conn = s]
    /\ d.connects = c.connects /\ d.resolve = c.resolve /\ d.panic = c.panic
    /\ IF c.p.conn = s /\ s = "CONNECTING" THEN d.picker = c.picker
       ELSE d.picker = [state |-> s, ext |-> x, triggered |-> FALSE]

\* update_picker.
LEMMA UpdatePickerSound ==
    ASSUME NEW c \in Calls, NEW s \in States, NEW x \in MaybeExt,
           NEW d, d = UpdatePicker(c, s, x)
    PROVE  Published(c, s, x, d)
  <1>1. CASE c.p.conn = s /\ s = "CONNECTING"
    <2>1. d = c
      BY <1>1, Zenon DEF UpdatePicker
    <2>2. c.p = [c.p EXCEPT !.conn = s]
      BY <1>1 DEF Calls, Policy
    <2> QED BY <1>1, <2>1, <2>2 DEF Published
  <1>2. CASE ~(c.p.conn = s /\ s = "CONNECTING")
    <2>1. d = [c EXCEPT !.p.conn = s,
                        !.picker = [state |-> s, ext |-> x, triggered |-> FALSE]]
      BY <1>2, Zenon DEF UpdatePicker
    <2>2. PICK np \in Policy : np = [c.p EXCEPT !.conn = s]
      BY DEF Calls, Policy
    <2>3. PICK k \in Pickers : k = [state |-> s, ext |-> x, triggered |-> FALSE]
      BY DEF Pickers
    <2>4. d = [c EXCEPT !.p = np, !.picker = k]
      BY <2>1, <2>2, <2>3 DEF Calls, Policy
    <2>5. /\ d \in Calls /\ d.p = np /\ d.picker = k
          /\ d.connects = c.connects /\ d.resolve = c.resolve /\ d.panic = c.panic
      BY <2>4 DEF Calls
    <2> QED BY <1>2, <2>2, <2>3, <2>5 DEF Published
  <1> QED BY <1>1, <1>2

\* d is c after set_transient_failure.
Failed(c, some, d) ==
    /\ d \in Calls /\ d.connects = c.connects
    /\ ~(some \/ c.p.err) => d.panic /\ d.p = c.p /\ d.picker = c.picker
    /\ some \/ c.p.err =>
          /\ d.panic = c.panic /\ d.resolve
          /\ d.p = [c.p EXCEPT !.err = TRUE, !.conn = "TRANSIENT_FAILURE"]
          /\ d.picker = [state |-> "TRANSIENT_FAILURE", ext |-> {}, triggered |-> FALSE]

\* set_transient_failure: either there is no error to publish, or TRANSIENT_FAILURE
\* is published and new addresses are asked for.
LEMMA SetTransientFailureSound ==
    ASSUME NEW c \in Calls, NEW some \in BOOLEAN, NEW d, d = SetTransientFailure(c, some)
    PROVE  Failed(c, some, d)
  <1>1. CASE ~(some \/ c.p.err)
    <2>1. d = [c EXCEPT !.panic = TRUE]
      BY <1>1, Zenon DEF SetTransientFailure
    <2> QED BY <1>1, <2>1 DEF Calls, Failed
  <1>2. CASE some \/ c.p.err
    <2>1. PICK b : b = [c EXCEPT !.p.err = TRUE]
      OBVIOUS
    <2>2. /\ b \in Calls /\ b.p = [c.p EXCEPT !.err = TRUE]
          /\ b.connects = c.connects /\ b.panic = c.panic
      BY <2>1 DEF Calls, Policy
    <2>3. PICK u : u = UpdatePicker(b, "TRANSIENT_FAILURE", {})
      OBVIOUS
    <2>8. "TRANSIENT_FAILURE" \in States /\ {} \in MaybeExt
      BY DEF States, MaybeExt
    <2>9. Published(b, "TRANSIENT_FAILURE", {}, u)
      BY <2>2, <2>3, <2>8, UpdatePickerSound
    <2>4. /\ u \in Calls /\ u.p = [b.p EXCEPT !.conn = "TRANSIENT_FAILURE"]
          /\ u.connects = b.connects /\ u.panic = b.panic
          /\ u.picker = [state |-> "TRANSIENT_FAILURE", ext |-> {}, triggered |-> FALSE]
      BY <2>9 DEF Published
    <2>5. d = [u EXCEPT !.resolve = TRUE]
      BY <1>2, <2>1, <2>3, Zenon DEF SetTransientFailure
    <2>6. /\ d \in Calls /\ d.p = u.p /\ d.picker = u.picker /\ d.resolve
          /\ d.connects = u.connects /\ d.panic = u.panic
      BY <2>4, <2>5 DEF Calls
    <2>7. d.p = [c.p EXCEPT !.err = TRUE, !.conn = "TRANSIENT_FAILURE"]
      BY <2>2, <2>4, <2>6 DEF Calls, Policy
    <2> QED BY <1>2, <2>2, <2>4, <2>6, <2>7 DEF Failed
  <1> QED BY <1>1, <1>2

\* d is c after start_connection_pass.
Started(c, d) ==
    /\ d \in Calls /\ d.p.list = c.p.list /\ d.p.sel = {} /\ d.p.steady = c.p.steady
    /\ d.p.frontier \in Nat \ {0}
    /\ \/ /\ d.p.frontier <= Len(c.p.list)
          /\ \E a \in Addr :
                /\ d.p.frontier \in DOMAIN c.p.list
                /\ c.p.list[d.p.frontier].addr = a
                /\ c.p.cache[a] # "TRANSIENT_FAILURE"
                /\ d.p.cache = [c.p.cache EXCEPT ![a] = "CONNECTING"]
                /\ d.connects = Append(c.connects, a)
          /\ d.p.conn = "CONNECTING" /\ d.p.err = c.p.err
          /\ d.resolve = c.resolve /\ d.panic = c.panic
          /\ d.picker = IF c.p.conn = "CONNECTING" THEN c.picker
                        ELSE [state |-> "CONNECTING", ext |-> {}, triggered |-> FALSE]
       \/ /\ d.p.frontier > Len(c.p.list)
          /\ d.p.cache = c.p.cache /\ d.connects = c.connects /\ d.p.timer = c.p.timer
          /\ \A i \in DOMAIN c.p.list : c.p.cache[c.p.list[i].addr] = "TRANSIENT_FAILURE"
          /\ ~c.p.err => d.panic /\ d.picker = c.picker
          /\ c.p.err =>
                /\ d.p.conn = "TRANSIENT_FAILURE" /\ d.p.err
                /\ d.resolve /\ d.panic = c.panic
                /\ d.picker = [state |-> "TRANSIENT_FAILURE", ext |-> {}, triggered |-> FALSE]

\* start_connection_pass: the selection is dropped, and the first address that is not
\* failing is tried; a list of failing addresses needs an error to publish.
LEMMA StartConnectionPassSound ==
    ASSUME NEW c \in Calls, NEW d, d = StartConnectionPass(c)
    PROVE  Started(c, d)
  <1>1. PICK b : b = [c EXCEPT !.p.sel = {}]
    OBVIOUS
  <1>2. /\ b \in Calls /\ b.p = [c.p EXCEPT !.sel = {}] /\ b.picker = c.picker
        /\ b.connects = c.connects /\ b.resolve = c.resolve /\ b.panic = c.panic
    BY <1>1 DEF Calls, Policy, MaybeExt
  <1>3. /\ b.p.list = c.p.list /\ b.p.sel = {} /\ b.p.cache = c.p.cache /\ b.p.err = c.p.err
        /\ b.p.conn = c.p.conn /\ b.p.steady = c.p.steady /\ b.p.timer = c.p.timer
    BY <1>2 DEF Calls, Policy
  <1>4. PICK t : t = TryNext(b, 1)
    OBVIOUS
  <1>9. Tried(b, 1, t)
    BY <1>2, <1>4, TryNextSound
  <1>5. /\ t \in Calls /\ t.p.frontier \in Nat \ {0}
        /\ t.p.conn = c.p.conn /\ t.p.list = c.p.list /\ t.p.sel = {}
        /\ t.p.err = c.p.err /\ t.p.steady = c.p.steady
        /\ t.picker = c.picker /\ t.resolve = c.resolve /\ t.panic = c.panic
        /\ t.p.frontier > Len(c.p.list) =>
              /\ t.p.cache = c.p.cache /\ t.connects = c.connects /\ t.p.timer = c.p.timer
              /\ \A i \in DOMAIN c.p.list : 1 <= i => c.p.cache[c.p.list[i].addr] = "TRANSIENT_FAILURE"
        /\ t.p.frontier <= Len(c.p.list) =>
              \E a \in Addr :
                 /\ t.p.frontier \in DOMAIN c.p.list
                 /\ c.p.list[t.p.frontier].addr = a
                 /\ c.p.cache[a] # "TRANSIENT_FAILURE"
                 /\ t.p.cache = [c.p.cache EXCEPT ![a] = "CONNECTING"]
                 /\ t.connects = Append(c.connects, a) /\ t.p.timer = "running"
    BY <1>2, <1>3, <1>9 DEF Tried
  <1>6. DOMAIN c.p.list = 1 .. Len(c.p.list) /\ Len(c.p.list) \in Nat
    BY ListSound DEF Calls, Policy
  <1>7. CASE t.p.frontier <= Len(t.p.list)
    <2>1. d = UpdatePicker(t, "CONNECTING", {})
      BY <1>1, <1>4, <1>7, Zenon DEF StartConnectionPass
    <2>4. "CONNECTING" \in States /\ {} \in MaybeExt
      BY DEF States, MaybeExt
    <2>5. Published(t, "CONNECTING", {}, d)
      BY <1>5, <2>1, <2>4, UpdatePickerSound
    <2>2. /\ d \in Calls /\ d.p = [t.p EXCEPT !.conn = "CONNECTING"]
          /\ d.connects = t.connects /\ d.resolve = t.resolve /\ d.panic = t.panic
          /\ IF t.p.conn = "CONNECTING" THEN d.picker = t.picker
             ELSE d.picker = [state |-> "CONNECTING", ext |-> {}, triggered |-> FALSE]
      BY <2>5 DEF Published
    <2>3. /\ d.p.conn = "CONNECTING" /\ d.p.list = t.p.list /\ d.p.sel = {} /\ d.p.err = t.p.err
          /\ d.p.steady = t.p.steady /\ d.p.frontier = t.p.frontier /\ d.p.cache = t.p.cache
      BY <1>5, <2>2 DEF Calls, Policy
    <2>6. PICK a \in Addr :
                 /\ t.p.frontier \in DOMAIN c.p.list
                 /\ c.p.list[t.p.frontier].addr = a
                 /\ c.p.cache[a] # "TRANSIENT_FAILURE"
                 /\ t.p.cache = [c.p.cache EXCEPT ![a] = "CONNECTING"]
                 /\ t.connects = Append(c.connects, a) /\ t.p.timer = "running"
      BY <1>5, <1>7
    <2>7. /\ d.p.frontier \in DOMAIN c.p.list
          /\ c.p.list[d.p.frontier].addr = a
          /\ c.p.cache[a] # "TRANSIENT_FAILURE"
          /\ d.p.cache = [c.p.cache EXCEPT ![a] = "CONNECTING"]
          /\ d.connects = Append(c.connects, a)
      BY <2>2, <2>3, <2>6
    <2>8. /\ d.p.frontier <= Len(c.p.list) /\ d.p.list = c.p.list /\ d.p.steady = c.p.steady
          /\ d.p.conn = "CONNECTING" /\ d.p.err = c.p.err /\ d.p.frontier \in Nat \ {0}
          /\ d.resolve = c.resolve /\ d.panic = c.panic
          /\ d.picker = IF c.p.conn = "CONNECTING" THEN c.picker
                        ELSE [state |-> "CONNECTING", ext |-> {}, triggered |-> FALSE]
      BY <1>5, <1>7, <2>2, <2>3
    <2> QED BY <2>2, <2>3, <2>7, <2>8 DEF Started
  <1>8. CASE ~(t.p.frontier <= Len(t.p.list))
    <2>1. d = SetTransientFailure(t, FALSE)
      BY <1>1, <1>4, <1>8, Zenon DEF StartConnectionPass
    <2>6. Failed(t, FALSE, d)
      BY <1>5, <2>1, SetTransientFailureSound
    <2>2. /\ d \in Calls /\ d.connects = t.connects
          /\ ~t.p.err => d.panic /\ d.p = t.p /\ d.picker = t.picker
          /\ t.p.err =>
                 /\ d.panic = t.panic /\ d.resolve
                 /\ d.p = [t.p EXCEPT !.err = TRUE, !.conn = "TRANSIENT_FAILURE"]
                 /\ d.picker = [state |-> "TRANSIENT_FAILURE", ext |-> {}, triggered |-> FALSE]
      BY <2>6 DEF Failed
    <2>3. t.p.frontier > Len(c.p.list)
      BY <1>5, <1>6, <1>8
    <2>4. \A i \in DOMAIN c.p.list : c.p.cache[c.p.list[i].addr] = "TRANSIENT_FAILURE"
      BY <1>5, <1>6, <2>3
    <2>5. /\ d.p.list = t.p.list /\ d.p.sel = {} /\ d.p.steady = t.p.steady
          /\ d.p.frontier = t.p.frontier /\ d.p.cache = t.p.cache /\ d.p.timer = t.p.timer
          /\ t.p.err => d.p.conn = "TRANSIENT_FAILURE" /\ d.p.err
      <3>1. t.p \in Policy /\ t.p.sel = {}
        BY <1>5 DEF Calls
      <3>2. CASE t.p.err
        <4>1. d.p = [t.p EXCEPT !.err = TRUE, !.conn = "TRANSIENT_FAILURE"]
          BY <2>2, <3>2
        <4>2. /\ d.p.list = t.p.list /\ d.p.sel = t.p.sel /\ d.p.steady = t.p.steady
              /\ d.p.frontier = t.p.frontier /\ d.p.cache = t.p.cache /\ d.p.timer = t.p.timer
              /\ d.p.conn = "TRANSIENT_FAILURE"
          BY <3>1, <4>1 DEF Policy
        <4>3. d.p.err = TRUE
          BY <3>1, <4>1 DEF Policy
        <4> QED BY <3>1, <4>2, <4>3
      <3>3. CASE ~t.p.err
        BY <2>2, <3>1, <3>3
      <3> QED BY <3>2, <3>3
    <2> QED BY <1>5, <2>2, <2>3, <2>4, <2>5 DEF Started
  <1> QED BY <1>7, <1>8

\* d is c after subchannel_activate of e.
Activated(c, e, d) ==
    /\ d \in Calls
    /\ d.p = [c.p EXCEPT !.sel = {e}, !.list = <<e>>, !.steady = FALSE,
                         !.timer = "none", !.conn = "READY"]
    /\ d.connects = c.connects /\ d.resolve = c.resolve /\ d.panic = c.panic
    /\ d.picker = [state |-> "READY", ext |-> {e}, triggered |-> FALSE]

\* subchannel_activate, of a subchannel that is not selected.
LEMMA ActivateSound ==
    ASSUME NEW c \in Calls, NEW e \in Ext, NEW d, d = Activate(c, e), ~Selected(c.p, e)
    PROVE  Activated(c, e, d)
  <1>1. PICK b : b = [c EXCEPT !.p.sel = {e}, !.p.list = <<e>>, !.p.steady = FALSE,
                              !.p.timer = "none"]
    OBVIOUS
  <1>2. PICK np \in Policy : np = [c.p EXCEPT !.sel = {e}, !.list = <<e>>, !.steady = FALSE,
                                             !.timer = "none"]
    <2>1. <<e>> \in Seq(Ext)
      OBVIOUS
    <2>2. {e} \in MaybeExt
      BY DEF MaybeExt
    <2>3. c.p \in Policy
      BY DEF Calls
    <2> QED BY <2>1, <2>2, <2>3 DEF Policy
  <1>3. b = [c EXCEPT !.p = np]
    BY <1>1, <1>2 DEF Calls, Policy
  <1>4. /\ b \in Calls /\ b.p = np /\ b.picker = c.picker
        /\ b.connects = c.connects /\ b.resolve = c.resolve /\ b.panic = c.panic
    BY <1>3 DEF Calls
  <1>5. d = UpdatePicker(b, "READY", {e})
    BY <1>1, Zenon DEF Activate
  <1>8. "READY" \in States /\ {e} \in MaybeExt
    BY DEF States, MaybeExt
  <1>9. Published(b, "READY", {e}, d)
    BY <1>4, <1>5, <1>8, UpdatePickerSound
  <1>6. /\ d \in Calls /\ d.p = [b.p EXCEPT !.conn = "READY"]
        /\ d.connects = b.connects /\ d.resolve = b.resolve /\ d.panic = b.panic
        /\ d.picker = [state |-> "READY", ext |-> {e}, triggered |-> FALSE]
    BY <1>9 DEF Published
  <1>7. d.p = [c.p EXCEPT !.sel = {e}, !.list = <<e>>, !.steady = FALSE,
                          !.timer = "none", !.conn = "READY"]
    BY <1>2, <1>4, <1>6 DEF Calls, Policy
  <1> QED BY <1>4, <1>6, <1>7 DEF Activated

\* d is c after the exhaustion check put the policy into steady state.
Steadied(c, d) ==
    /\ d \in Calls
    /\ d.p.list = c.p.list /\ d.p.sel = c.p.sel /\ d.p.cache = c.p.cache
    /\ d.p.frontier = c.p.frontier /\ d.p.timer = "none"
    /\ c.p.err =>
          /\ d.p.conn = "TRANSIENT_FAILURE" /\ d.p.steady = TRUE /\ d.p.err = TRUE
          /\ d.resolve = TRUE /\ d.panic = FALSE
          /\ d.picker = [state |-> "TRANSIENT_FAILURE", ext |-> {}, triggered |-> FALSE]
          /\ IsInjective(d.connects)
          /\ Range(d.connects) = {a \in AddrOf(Exts(c.p.list)) : c.p.cache[a] = "IDLE"}
    /\ ~c.p.err => d.panic = TRUE /\ d.picker = c.picker /\ d.connects = <<>>

\* What update_first_pass does when a pass is exhausted.
LEMMA EnterSteadySound ==
    ASSUME NEW c \in Calls, Distinct(c.p.list), c.connects = <<>>, c.panic = FALSE,
           NEW d, d = EnterSteady(c)
    PROVE  Steadied(c, d)
  <1> DEFINE list == c.p.list
             idle == {i \in DOMAIN list : c.p.cache[list[i].addr] = "IDLE"}
             addrs == [i \in DOMAIN list |-> list[i].addr]
  <1>1. PICK b : b = [c EXCEPT !.p.timer = "none"]
    OBVIOUS
  <1>2. /\ b \in Calls /\ b.p = [c.p EXCEPT !.timer = "none"]
        /\ b.connects = <<>> /\ b.panic = FALSE /\ b.picker = c.picker
    BY <1>1 DEF Calls, Policy
  <1>3. PICK t : t = SetTransientFailure(b, c.p.err)
    OBVIOUS
  <1>4. c.p \in Policy /\ list \in Seq(Ext) /\ c.p.err \in BOOLEAN /\ b.p.err = c.p.err
    BY <1>2 DEF Calls, Policy
  <1>5. Failed(b, c.p.err, t)
    BY <1>2, <1>3, <1>4, SetTransientFailureSound
  <1>6. d = IF t.panic THEN t
            ELSE [t EXCEPT !.p.steady = TRUE, !.p.fails = 0,
                           !.connects = @ \o ItemsAt(addrs, idle)]
    BY <1>1, <1>3, Zenon DEF EnterSteady
  <1>7. CASE ~c.p.err
    <2>1. t.panic /\ t.p = b.p /\ t.picker = b.picker /\ t.connects = b.connects /\ t \in Calls
      BY <1>4, <1>5, <1>7 DEF Failed
    <2>2. d = t
      BY <1>6, <2>1
    <2>3. /\ b.p.list = c.p.list /\ b.p.sel = c.p.sel /\ b.p.cache = c.p.cache
          /\ b.p.frontier = c.p.frontier /\ b.p.timer = "none"
      BY <1>2, <1>4 DEF Policy
    <2>4. t.panic = TRUE
      BY <2>1 DEF Calls
    <2> QED BY <1>2, <1>7, <2>1, <2>2, <2>3, <2>4 DEF Steadied
  <1>8. CASE c.p.err
    <2>1. /\ t \in Calls /\ t.connects = <<>> /\ t.panic = FALSE /\ t.resolve
          /\ t.p = [b.p EXCEPT !.err = TRUE, !.conn = "TRANSIENT_FAILURE"]
          /\ t.picker = [state |-> "TRANSIENT_FAILURE", ext |-> {}, triggered |-> FALSE]
      BY <1>2, <1>5, <1>8 DEF Failed
    <2>2. /\ DOMAIN list = 1 .. Len(list) /\ Len(list) \in Nat
          /\ \A i \in DOMAIN list : list[i] \in Exts(list) /\ list[i] \in Ext
          /\ \A e \in Exts(list) : \E i \in DOMAIN list : list[i] = e
      BY <1>4, ListSound
    <2>3. idle \in SUBSET Nat /\ IsFiniteSet(idle)
      <3>1. idle \in SUBSET (1 .. Len(list)) /\ IsFiniteSet(1 .. Len(list))
        BY <2>2, FS_Interval
      <3>2. IsFiniteSet(idle)
        <4> HIDE DEF idle, list
        <4> QED BY <3>1, FS_Subset
      <3> QED BY <2>2, <3>1, <3>2
    <2> DEFINE n == Cardinality(idle)
               q == ItemsAt(addrs, idle)
    <2>4. n \in Nat
      <3> HIDE DEF idle
      <3> QED BY <2>3, ItemsAtSound
    <2>17. PICK g : Enumerates(g, idle, n) /\ q = [i \in 1 .. n |-> addrs[g[i]]]
      <3> HIDE DEF idle, addrs
      <3> QED BY <2>3, ItemsAtSound
    <2>5. /\ g \in [1 .. n -> idle]
          /\ \A i, j \in 1 .. n : i < j => g[i] < g[j]
          /\ \A k \in idle : \E i \in 1 .. n : g[i] = k
          /\ q = [i \in 1 .. n |-> addrs[g[i]]]
      <3> HIDE DEF idle, addrs, n, q
      <3> QED BY <2>17 DEF Enumerates
    <2> HIDE DEF n, q
    <2>6. \A i \in 1 .. n : g[i] \in DOMAIN list /\ q[i] = list[g[i]].addr /\ c.p.cache[q[i]] = "IDLE"
      BY <2>5
    <2>7. q \in Seq(Addr)
      <3>1. \A i \in 1 .. n : q[i] \in Addr
        BY <2>2, <2>6 DEF Ext
      <3>2. q \in [1 .. n -> Addr]
        BY <2>5, <3>1
      <3> QED BY <2>4, <3>2, SeqDef
    <2>8. DOMAIN q = 1 .. n
      BY <2>5
    <2>9. IsInjective(q)
      <3> SUFFICES ASSUME NEW i \in 1 .. n, NEW j \in 1 .. n, q[i] = q[j] PROVE i = j
        BY <2>8 DEF IsInjective
      <3>1. g[i] = g[j]
        BY <2>6 DEF Distinct
      <3>2. g[i] \in Nat /\ g[j] \in Nat
        BY <2>2, <2>6
      <3>3. ~(i < j) /\ ~(j < i)
        BY <2>5, <3>1, <3>2
      <3> QED BY <2>4, <3>3
    <2>10. Range(q) = {a \in AddrOf(Exts(list)) : c.p.cache[a] = "IDLE"}
      <3>1. ASSUME NEW i \in 1 .. n PROVE q[i] \in AddrOf(Exts(list)) /\ c.p.cache[q[i]] = "IDLE"
        BY <2>2, <2>6 DEF AddrOf
      <3>2. ASSUME NEW e \in Exts(list), c.p.cache[e.addr] = "IDLE"
            PROVE  \E i \in 1 .. n : q[i] = e.addr
        <4>1. PICK k \in DOMAIN list : list[k] = e
          BY <2>2
        <4>2. k \in idle
          BY <3>2, <4>1
        <4>3. PICK i \in 1 .. n : g[i] = k
          BY <2>5, <4>2
        <4> QED BY <2>6, <4>1, <4>3
      <3> QED BY <2>8, <3>1, <3>2 DEF Range, AddrOf
    <2>11. <<>> \o q = q
      BY <2>7, ConcatEmptySeq
    <2>12. d = [t EXCEPT !.p.steady = TRUE, !.p.fails = 0, !.connects = @ \o q]
      BY <1>6, <2>1 DEF q
    <2>13. PICK np \in Policy : np = [t.p EXCEPT !.steady = TRUE, !.fails = 0]
      BY <2>1 DEF Calls, Policy
    <2>14. d = [t EXCEPT !.p = np, !.connects = q]
      BY <2>1, <2>11, <2>12, <2>13 DEF Calls, Policy
    <2>15. /\ d \in Calls /\ d.p = np /\ d.connects = q /\ d.panic = FALSE /\ d.resolve = TRUE
           /\ d.picker = t.picker
      BY <2>1, <2>7, <2>14 DEF Calls
    <2>16. /\ np.list = c.p.list /\ np.sel = c.p.sel /\ np.cache = c.p.cache
           /\ np.frontier = c.p.frontier /\ np.timer = "none" /\ np.steady = TRUE
           /\ np.conn = "TRANSIENT_FAILURE" /\ np.err = TRUE
      BY <1>2, <1>4, <2>1, <2>13 DEF Policy
    <2> QED BY <1>8, <2>1, <2>9, <2>10, <2>15, <2>16 DEF Steadied
  <1> QED BY <1>7, <1>8

\* Connecting a single address.
LEMMA OneConnect ==
    ASSUME NEW a \in Addr, NEW q, q = Append(<<>>, a)
    PROVE  IsInjective(q) /\ Range(q) = {a} /\ q \in Seq(Addr)
  <1>1. q = <<a>>
    OBVIOUS
  <1>2. DOMAIN q = {1} /\ q[1] = a
    BY <1>1
  <1> QED BY <1>1, <1>2 DEF IsInjective, Range

\* TryNext keeps what concerns the subchannels; past the list it connects nothing.
LEMMA TryNextGood ==
    ASSUME NEW c, NEW H, NEW R, NEW d, NEW start \in Nat \ {0},
           Base(c, H, R), c.connects = <<>>, Tried(c, start, d)
    PROVE  Base(d, H, R) /\ (d.p.frontier > Len(d.p.list) => d.connects = <<>>)
  <1>1. c \in Calls /\ d \in Calls /\ d.p.list = c.p.list /\ d.p.sel = c.p.sel /\ d.picker = c.picker
    BY DEF Base, Tried
  <1>2. c.p.list \in Seq(Ext) /\ c.p.cache \in [Addr -> States \cup {"NONE"}]
    BY <1>1 DEF Calls, Policy
  <1>3. /\ DOMAIN c.p.list = 1 .. Len(c.p.list) /\ Len(c.p.list) \in Nat
        /\ \A i \in DOMAIN c.p.list : c.p.list[i] \in Exts(c.p.list)
        /\ \A e \in Exts(c.p.list) : e \in Ext
    BY <1>2, ListSound
  <1>4. CASE d.p.frontier > Len(c.p.list)
    <2>1. d.p.cache = c.p.cache /\ d.connects = <<>>
      BY <1>4 DEF Tried
    <2> QED BY <1>1, <2>1 DEF Base
  <1>5. CASE ~(d.p.frontier > Len(c.p.list))
    <2>1. d.p.frontier <= Len(c.p.list)
      BY <1>1, <1>3, <1>5 DEF Calls, Policy
    <2>2. PICK a \in Addr :
              /\ d.p.frontier \in DOMAIN c.p.list
              /\ c.p.list[d.p.frontier].addr = a
              /\ d.p.cache = [c.p.cache EXCEPT ![a] = "CONNECTING"]
              /\ d.connects = Append(<<>>, a)
      BY <2>1 DEF Tried
    <2>3. IsInjective(d.connects) /\ Range(d.connects) = {a}
      BY <2>2, OneConnect
    <2>4. a \in AddrOf(Exts(c.p.list))
      BY <1>3, <2>2 DEF AddrOf
    <2>5. \A e \in Exts(c.p.list) : d.p.cache[e.addr] = "READY" => c.p.cache[e.addr] = "READY"
      BY <1>2, <1>3, <2>2 DEF Ext
    <2> QED BY <1>1, <1>5, <2>3, <2>4, <2>5 DEF Base
  <1> QED BY <1>4, <1>5

\* set_transient_failure publishes a picker without a subchannel and asks again.
LEMMA FailGood ==
    ASSUME NEW c, NEW H, NEW R, NEW d, NEW some \in BOOLEAN,
           Base(c, H, R), c.p.sel \subseteq Exts(c.p.list), Failed(c, some, d)
    PROVE  Good(d, H, R, FALSE)
  <1>1. c \in Calls /\ c.p \in Policy
    BY DEF Base, Calls
  <1>2. d \in Calls /\ d.connects = c.connects
    BY DEF Failed
  <1>3. CASE some \/ c.p.err
    <2>1. /\ d.resolve
          /\ d.p = [c.p EXCEPT !.err = TRUE, !.conn = "TRANSIENT_FAILURE"]
          /\ d.picker = [state |-> "TRANSIENT_FAILURE", ext |-> {}, triggered |-> FALSE]
      BY <1>3 DEF Failed
    <2>2. d.p.list = c.p.list /\ d.p.sel = c.p.sel /\ d.p.cache = c.p.cache
      BY <1>1, <2>1 DEF Policy
    <2>3. d.picker.ext = {} /\ d.picker.state = "TRANSIENT_FAILURE"
      BY <2>1
    <2> QED BY <1>2, <2>1, <2>2, <2>3 DEF Good, Base, Shown, Asks
  <1>4. CASE ~(some \/ c.p.err)
    <2>1. d.panic /\ d.p = c.p /\ d.picker = c.picker
      BY <1>4 DEF Failed
    <2> QED BY <1>2, <2>1 DEF Good, Base
  <1> QED BY <1>3, <1>4

\* A connection pass leaves a good call, whatever the policy was doing.
LEMMA PassGood ==
    ASSUME NEW c, NEW H, NEW R, NEW d,
           Base(c, H, R), c.connects = <<>>,
           c.picker.state = "READY" => c.p.conn = "READY",
           Started(c, d)
    PROVE  Good(d, H, R, FALSE)
  <1>1. c \in Calls /\ c.p \in Policy /\ c.p.list \in Seq(Ext)
        /\ c.p.cache \in [Addr -> States \cup {"NONE"}]
    BY DEF Base, Calls, Policy
  <1>2. d \in Calls /\ d.p.list = c.p.list /\ d.p.sel = {}
    BY DEF Started
  <1>3. /\ \A i \in DOMAIN c.p.list : c.p.list[i] \in Exts(c.p.list)
        /\ \A e \in Exts(c.p.list) : e \in Ext
    BY <1>1, ListSound
  <1>4. ASSUME NEW a \in Addr,
               d.p.frontier \in DOMAIN c.p.list, c.p.list[d.p.frontier].addr = a,
               d.p.cache = [c.p.cache EXCEPT ![a] = "CONNECTING"],
               d.connects = Append(<<>>, a), d.p.conn = "CONNECTING",
               d.picker = IF c.p.conn = "CONNECTING" THEN c.picker
                          ELSE [state |-> "CONNECTING", ext |-> {}, triggered |-> FALSE]
        PROVE  Good(d, H, R, FALSE)
    <2>1. IsInjective(d.connects) /\ Range(d.connects) = {a}
      BY <1>4, OneConnect
    <2>2. a \in AddrOf(Exts(c.p.list))
      BY <1>3, <1>4 DEF AddrOf
    <2>3. \A e \in Exts(c.p.list) : d.p.cache[e.addr] = "READY" => c.p.cache[e.addr] = "READY"
      BY <1>1, <1>3, <1>4 DEF Ext
    <2>4. d.picker.state # "READY" /\ (d.picker.ext = {} \/ d.picker.ext = c.picker.ext)
      BY <1>4
    <2>5. d.picker.ext \subseteq H
      BY <2>4 DEF Base
    <2>6. Base(d, H, R)
      BY <1>2, <2>1, <2>2, <2>3, <2>5 DEF Base
    <2> QED BY <1>2, <1>4, <2>4, <2>6 DEF Good, Shown, Asks
  <1>5. CASE d.p.frontier > Len(c.p.list) /\ ~(d.p.frontier <= Len(c.p.list))
    <2>1. /\ d.p.cache = c.p.cache /\ d.connects = <<>>
          /\ ~c.p.err => d.panic /\ d.picker = c.picker
          /\ c.p.err =>
                /\ d.p.conn = "TRANSIENT_FAILURE" /\ d.resolve
                /\ d.picker = [state |-> "TRANSIENT_FAILURE", ext |-> {}, triggered |-> FALSE]
      BY <1>5 DEF Started
    <2>2. CASE c.p.err
      <3>1. /\ d.p.conn = "TRANSIENT_FAILURE" /\ d.resolve
            /\ d.picker.ext = {} /\ d.picker.state = "TRANSIENT_FAILURE"
        BY <2>1, <2>2
      <3> QED BY <1>2, <2>1, <3>1 DEF Good, Base, Shown, Asks
    <2>3. CASE ~c.p.err
      <3>1. d.panic /\ d.picker = c.picker
        BY <2>1, <2>3
      <3> QED BY <1>2, <2>1, <3>1 DEF Good, Base
    <2> QED BY <2>2, <2>3
  <1>6. CASE ~(d.p.frontier > Len(c.p.list))
    <2>1. PICK a \in Addr :
            /\ d.p.frontier \in DOMAIN c.p.list /\ c.p.list[d.p.frontier].addr = a
            /\ d.p.cache = [c.p.cache EXCEPT ![a] = "CONNECTING"]
            /\ d.connects = Append(<<>>, a) /\ d.p.conn = "CONNECTING"
            /\ d.picker = IF c.p.conn = "CONNECTING" THEN c.picker
                          ELSE [state |-> "CONNECTING", ext |-> {}, triggered |-> FALSE]
      BY <1>6 DEF Started
    <2> QED BY <1>4, <2>1
  <1>7. d.p.frontier > Len(c.p.list) => ~(d.p.frontier <= Len(c.p.list))
    BY <1>1, <1>2, ListSound DEF Calls, Policy
  <1> QED BY <1>5, <1>6, <1>7

\* The exhaustion of a pass leaves a good call.
LEMMA SteadyGood ==
    ASSUME NEW c, NEW H, NEW R, NEW d,
           Base(c, H, R), c.p.sel \subseteq Exts(c.p.list), Steadied(c, d)
    PROVE  Good(d, H, R, FALSE)
  <1>1. d \in Calls /\ d.p.list = c.p.list /\ d.p.sel = c.p.sel /\ d.p.cache = c.p.cache
    BY DEF Steadied
  <1>2. CASE c.p.err
    <2>1. /\ d.p.conn = "TRANSIENT_FAILURE" /\ d.resolve
          /\ d.picker = [state |-> "TRANSIENT_FAILURE", ext |-> {}, triggered |-> FALSE]
          /\ IsInjective(d.connects) /\ Range(d.connects) \subseteq AddrOf(Exts(c.p.list))
      BY <1>2 DEF Steadied
    <2>2. d.picker.ext = {} /\ d.picker.state = "TRANSIENT_FAILURE"
      BY <2>1
    <2> QED BY <1>1, <2>1, <2>2 DEF Good, Base, Shown, Asks
  <1>3. CASE ~c.p.err
    <2>1. d.panic /\ d.picker = c.picker /\ d.connects = <<>>
      BY <1>3 DEF Steadied
    <2>2. IsInjective(<<>>) /\ Range(<<>>) = {}
      BY DEF IsInjective, Range
    <2> QED BY <1>1, <2>1, <2>2 DEF Good, Base
  <1> QED BY <1>2, <1>3

\* A list of one.
LEMMA OneListed ==
    ASSUME NEW e \in Ext
    PROVE  Exts(<<e>>) = {e} /\ Distinct(<<e>>) /\ <<e>> \in Seq(Ext)
  <1>1. DOMAIN <<e>> = {1} /\ <<e>>[1] = e
    OBVIOUS
  <1> QED BY <1>1 DEF Exts, Range, Distinct

\* subchannel_activate offers only a subchannel that may be READY.
LEMMA ActivateGood ==
    ASSUME NEW c, NEW H, NEW R, NEW d, NEW e \in Ext,
           Base(c, H, R), Selected(c.p, e) => Shown(c), c.connects = <<>>,
           e \in H, e.addr \in R, d = Activate(c, e)
    PROVE  Good(d, H, R, FALSE)
  <1>1. c \in Calls /\ c.p \in Policy
    BY DEF Base, Calls
  <1>2. CASE Selected(c.p, e)
    <2>1. d = c
      BY <1>2, Zenon DEF Activate
    <2>2. c.p.sel # {}
      BY <1>2 DEF Selected, AddrOf
    <2> QED BY <1>2, <2>1, <2>2 DEF Good, Asks
  <1>3. CASE ~Selected(c.p, e)
    <2>1. Activated(c, e, d)
      BY <1>1, <1>3, ActivateSound
    <2>2. /\ d \in Calls /\ d.connects = <<>>
          /\ d.p.sel = {e} /\ d.p.list = <<e>> /\ d.p.conn = "READY" /\ d.p.cache = c.p.cache
          /\ d.picker.state = "READY" /\ d.picker.ext = {e}
      BY <1>1, <2>1 DEF Activated, Policy
    <2>3. Exts(d.p.list) = {e} /\ Distinct(d.p.list)
      BY <2>2, OneListed
    <2>4. IsInjective(<<>>) /\ Range(<<>>) = {}
      BY DEF IsInjective, Range
    <2> QED BY <2>2, <2>3, <2>4 DEF Good, Base, Shown, Asks
  <1> QED BY <1>2, <1>3

\* What holds without asking holds whoever has asked.
LEMMA GoodWeakens ==
    ASSUME NEW c, NEW H, NEW R, NEW X, Good(c, H, R, FALSE)
    PROVE  Good(c, H, R, X)
BY DEF Good, Asks

\* update_first_pass keeps a good call good.
LEMMA UpdateFirstPassGood ==
    ASSUME NEW c, NEW H, NEW R, NEW X, NEW d, NEW a \in Addr, NEW s \in States,
           Good(c, H, R, X), c.panic = FALSE, c.connects = <<>>,
           d = UpdateFirstPass(c, a, s)
    PROVE  Good(d, H, R, X)
  <1>1. c \in Calls /\ c.p.frontier \in Nat \ {0} /\ Base(c, H, R) /\ Shown(c) /\ Asks(c, X)
    BY DEF Good, Base, Calls, Policy
  <1> DEFINE atFrontier == c.p.frontier <= Len(c.p.list) /\ c.p.list[c.p.frontier].addr = a
  <1>2. PICK t : t = IF atFrontier /\ s = "TRANSIENT_FAILURE"
                     THEN TryNext(c, c.p.frontier + 1) ELSE c
    OBVIOUS
  <1>3. d = IF t.p.frontier > Len(t.p.list) /\ ~AnyConnecting(t.p) THEN EnterSteady(t) ELSE t
    BY <1>2, Zenon DEF UpdateFirstPass
  <1>4. Good(t, H, R, X) /\ t.panic = FALSE /\ (t.p.frontier > Len(t.p.list) => t.connects = <<>>)
    <2>1. CASE t = c
      BY <2>1
    <2>2. CASE t # c
      <3>1. PICK start \in Nat \ {0} : t = TryNext(c, start)
        BY <1>1, <1>2, <2>2
      <3>2. Tried(c, start, t)
        BY <1>1, <3>1, TryNextSound
      <3>3. Base(t, H, R) /\ (t.p.frontier > Len(t.p.list) => t.connects = <<>>)
        BY <1>1, <3>1, <3>2, TryNextGood
      <3>4. /\ t.p.conn = c.p.conn /\ t.p.list = c.p.list /\ t.p.sel = c.p.sel
            /\ t.picker = c.picker /\ t.resolve = c.resolve /\ t.panic = c.panic
        BY <3>2 DEF Tried
      <3> QED BY <1>1, <3>3, <3>4 DEF Good, Shown, Asks
    <2> QED BY <2>1, <2>2
  <1>5. CASE t.p.frontier > Len(t.p.list) /\ ~AnyConnecting(t.p)
    <2>1. d = EnterSteady(t)
      BY <1>3, <1>5
    <2>2. t \in Calls /\ Distinct(t.p.list) /\ Base(t, H, R) /\ Shown(t)
      BY <1>4 DEF Good, Base
    <2>3. Steadied(t, d)
      BY <1>4, <1>5, <2>1, <2>2, EnterSteadySound
    <2>4. Good(d, H, R, FALSE)
      BY <2>2, <2>3, SteadyGood DEF Shown
    <2> QED BY <2>4, GoodWeakens
  <1>6. CASE ~(t.p.frontier > Len(t.p.list) /\ ~AnyConnecting(t.p))
    BY <1>3, <1>4, <1>6
  <1> QED BY <1>5, <1>6

\* SteadyState::subchannel_nonready keeps a good call good.
LEMMA SubchannelNonreadyGood ==
    ASSUME NEW c, NEW H, NEW R, NEW X, NEW d, NEW a \in Addr, NEW s \in States,
           Good(c, H, R, X), c.panic = FALSE, c.connects = <<>>,
           a \in AddrOf(Exts(c.p.list)), d = SubchannelNonready(c, a, s)
    PROVE  Good(d, H, R, X)
  <1>1. /\ c \in Calls /\ c.p \in Policy /\ c.p.fails \in Nat
        /\ Base(c, H, R) /\ Shown(c) /\ Asks(c, X)
    BY DEF Good, Base, Calls, Policy
  <1>2. CASE s = "IDLE"
    <2>1. d = [c EXCEPT !.connects = Append(@, a)]
      BY <1>2, Zenon DEF SubchannelNonready
    <2>2. PICK q \in Seq(Addr) : q = Append(<<>>, a) /\ IsInjective(q) /\ Range(q) = {a}
      BY OneConnect
    <2>3. d = [c EXCEPT !.connects = q]
      BY <1>1, <2>1, <2>2 DEF Calls
    <2>4. /\ d \in Calls /\ d.p = c.p /\ d.picker = c.picker /\ d.connects = q
          /\ d.resolve = c.resolve /\ d.panic = c.panic
      BY <1>1, <2>3 DEF Calls
    <2> QED BY <1>1, <2>2, <2>4 DEF Good, Base, Shown, Asks
  <1>3. CASE s = "TRANSIENT_FAILURE"
    <2>1. d = IF c.p.fails + 1 >= Len(c.p.list)
              THEN [c EXCEPT !.p.fails = 0, !.resolve = TRUE]
              ELSE [c EXCEPT !.p.fails = @ + 1]
      BY <1>3, Zenon DEF SubchannelNonready
    <2>4. PICK n \in Nat, w \in BOOLEAN : d = [c EXCEPT !.p.fails = n, !.resolve = w] /\ (c.resolve => w)
      <3>1. CASE c.p.fails + 1 >= Len(c.p.list)
        BY <2>1, <3>1
      <3>2. CASE ~(c.p.fails + 1 >= Len(c.p.list))
        <4>1. d = [c EXCEPT !.p.fails = @ + 1]
          BY <2>1, <3>2
        <4>2. d = [c EXCEPT !.p.fails = c.p.fails + 1, !.resolve = c.resolve]
          BY <1>1, <4>1 DEF Calls, Policy
        <4>3. c.resolve \in BOOLEAN /\ c.p.fails + 1 \in Nat
          BY <1>1 DEF Calls
        <4> QED BY <4>2, <4>3
      <3> QED BY <3>1, <3>2
    <2>5. PICK np \in Policy : np = [c.p EXCEPT !.fails = n]
      BY <1>1 DEF Policy
    <2>6. d = [c EXCEPT !.p = np, !.resolve = w]
      BY <1>1, <2>4, <2>5 DEF Calls, Policy
    <2>2. /\ d \in Calls /\ d.picker = c.picker /\ d.connects = c.connects
          /\ d.resolve = w /\ d.panic = c.panic /\ d.p = [c.p EXCEPT !.fails = n]
      BY <1>1, <2>5, <2>6 DEF Calls
    <2>3. /\ d.p.list = c.p.list /\ d.p.sel = c.p.sel /\ d.p.cache = c.p.cache
          /\ d.p.conn = c.p.conn
      BY <1>1, <2>2 DEF Policy
    <2> QED BY <1>1, <2>2, <2>3, <2>4 DEF Good, Base, Shown, Asks
  <1>4. CASE s # "IDLE" /\ s # "TRANSIENT_FAILURE"
    <2>1. d = c
      BY <1>4, Zenon DEF SubchannelNonready
    <2> QED BY <2>1
  <1> QED BY <1>2, <1>3, <1>4

\* k is c after the cache learned that a is in state s; err may have been recorded.
Learned(c, a, s, k) ==
    /\ k \in Calls /\ k.p.cache = [c.p.cache EXCEPT ![a] = s]
    /\ k.p.conn = c.p.conn /\ k.p.list = c.p.list /\ k.p.sel = c.p.sel
    /\ k.p.frontier = c.p.frontier /\ k.p.timer = c.p.timer /\ k.p.steady = c.p.steady
    /\ k.p.fails = c.p.fails
    /\ k.picker = c.picker /\ k.connects = c.connects /\ k.resolve = c.resolve
    /\ k.panic = c.panic

\* Recording the state of an update changes the cached state of its address alone.
LEMMA LearnSound ==
    ASSUME NEW c \in Calls, NEW a \in Addr, NEW s \in States,
           NEW k, k = [c EXCEPT !.p.cache[a] = s]
    PROVE  Learned(c, a, s, k) /\ k.p.err = c.p.err
  <1>1. PICK m \in [Addr -> States \cup {"NONE"}] : m = [c.p.cache EXCEPT ![a] = s]
    BY DEF Calls, Policy
  <1>2. PICK np \in Policy : np = [c.p EXCEPT !.cache = m]
    BY DEF Calls, Policy
  <1>3. k = [c EXCEPT !.p = np]
    BY <1>1, <1>2 DEF Calls, Policy
  <1>4. /\ k \in Calls /\ k.p = np /\ k.picker = c.picker /\ k.connects = c.connects
        /\ k.resolve = c.resolve /\ k.panic = c.panic
    BY <1>3 DEF Calls
  <1>5. /\ np.cache = m /\ np.conn = c.p.conn /\ np.list = c.p.list /\ np.sel = c.p.sel
        /\ np.frontier = c.p.frontier /\ np.timer = c.p.timer /\ np.steady = c.p.steady
        /\ np.fails = c.p.fails /\ np.err = c.p.err
    BY <1>2 DEF Calls, Policy
  <1> QED BY <1>1, <1>4, <1>5 DEF Learned

\* d is c after subchannel_drop.
Dropped(c, d) ==
    /\ d \in Calls
    /\ d.p.sel = {} /\ d.p.conn = "IDLE" /\ d.p.list = c.p.list /\ d.p.cache = c.p.cache
    /\ d.p.err = c.p.err /\ d.p.timer = c.p.timer /\ d.p.steady = c.p.steady
    /\ d.p.frontier = c.p.frontier
    /\ d.connects = c.connects /\ d.resolve = c.resolve /\ d.panic = c.panic
    /\ d.picker.state = "IDLE" /\ d.picker.ext = {}

\* subchannel_drop gives up the selection and publishes an IDLE picker.
LEMMA SubchannelDropSound ==
    ASSUME NEW c \in Calls, NEW d, d = SubchannelDrop(c)
    PROVE  Dropped(c, d)
  <1>1. PICK b : b = [c EXCEPT !.p.sel = {}]
    OBVIOUS
  <1>2. /\ b \in Calls /\ b.p = [c.p EXCEPT !.sel = {}] /\ b.connects = c.connects
        /\ b.resolve = c.resolve /\ b.panic = c.panic
    BY <1>1 DEF Calls, Policy, MaybeExt
  <1>3. "IDLE" \in States /\ {} \in MaybeExt
    BY DEF States, MaybeExt
  <1>4. Published(b, "IDLE", {}, d)
    BY <1>1, <1>2, <1>3, UpdatePickerSound DEF SubchannelDrop
  <1>5. /\ d \in Calls /\ d.p = [b.p EXCEPT !.conn = "IDLE"] /\ d.connects = c.connects
        /\ d.resolve = c.resolve /\ d.panic = c.panic
        /\ d.picker = [state |-> "IDLE", ext |-> {}, triggered |-> FALSE]
    BY <1>2, <1>4 DEF Published
  <1>6. /\ d.p.sel = {} /\ d.p.conn = "IDLE" /\ d.p.list = c.p.list /\ d.p.cache = c.p.cache
        /\ d.p.err = c.p.err /\ d.p.timer = c.p.timer /\ d.p.steady = c.p.steady
        /\ d.p.frontier = c.p.frontier
    BY <1>2, <1>5 DEF Calls, Policy
  <1> QED BY <1>5, <1>6 DEF Dropped

\* The cases of subchannel_update: k and n are c with the state learned, n with the
\* error recorded too.
UpdateCase(c, e, s, d, k, n) ==
    /\ Learned(c, e.addr, s, k) /\ k.p.err = c.p.err
    /\ Learned(c, e.addr, s, n) /\ n.p.err = (c.p.err \/ s = "TRANSIENT_FAILURE")
    /\ \/ e.addr \notin AddrOf(Exts(c.p.list)) /\ d = c
       \/ /\ e.addr \in AddrOf(Exts(c.p.list))
          /\ \/ Selected(c.p, e) /\ s = "READY" /\ d = k
             \/ Selected(c.p, e) /\ s # "READY" /\ Dropped(k, d)
             \/ ~Selected(c.p, e) /\ s = "READY" /\ d = Activate(k, e)
             \/ /\ ~Selected(c.p, e) /\ s # "READY" /\ c.p.steady
                /\ d = SubchannelNonready(n, e.addr, s)
             \/ /\ ~Selected(c.p, e) /\ s # "READY" /\ ~c.p.steady
                /\ d = UpdateFirstPass(n, e.addr, s)

\* The paths through subchannel_update.
LEMMA SubchannelUpdateCases ==
    ASSUME NEW c \in Calls, NEW e \in Ext, NEW s \in States, NEW d,
           d = SubchannelUpdate(c, e, s)
    PROVE  \E k, n : UpdateCase(c, e, s, d, k, n)
  <1>1. PICK a \in Addr : a = e.addr
    BY DEF Ext
  <1>2. PICK k : k = [c EXCEPT !.p.cache[a] = s]
    OBVIOUS
  <1>3. PICK n : n = [k EXCEPT !.p.err = @ \/ s = "TRANSIENT_FAILURE"]
    OBVIOUS
  <1>12. PICK w \in BOOLEAN : w = (k.p.err \/ s = "TRANSIENT_FAILURE")
    OBVIOUS
  <1>13. n = [k EXCEPT !.p.err = w]
    BY <1>3, <1>12
  <1>14. /\ Learned(c, a, s, k) /\ k.p.err = c.p.err
         /\ Learned(c, a, s, n) /\ n.p.err = w
    <2>1. Learned(c, a, s, k) /\ k.p.err = c.p.err
      BY <1>2, LearnSound
    <2>2. k \in Calls /\ k.p \in Policy
      BY <2>1 DEF Learned, Calls
    <2>3. PICK np \in Policy : np = [k.p EXCEPT !.err = w]
      BY <2>2 DEF Policy
    <2>4. n = [k EXCEPT !.p = np]
      BY <1>13, <2>2, <2>3 DEF Calls, Policy
    <2>5. /\ n \in Calls /\ n.p = np /\ n.picker = k.picker /\ n.connects = k.connects
          /\ n.resolve = k.resolve /\ n.panic = k.panic
      BY <2>2, <2>4 DEF Calls
    <2>6. /\ np.cache = k.p.cache /\ np.conn = k.p.conn /\ np.list = k.p.list /\ np.sel = k.p.sel
          /\ np.frontier = k.p.frontier /\ np.timer = k.p.timer /\ np.steady = k.p.steady
          /\ np.fails = k.p.fails /\ np.err = w
      BY <2>2, <2>3 DEF Policy
    <2>7. Learned(c, a, s, n)
      BY <2>1, <2>5, <2>6 DEF Learned
    <2> QED BY <2>1, <2>5, <2>6, <2>7
  <1>4. /\ Learned(c, a, s, k) /\ k.p.err = c.p.err
        /\ Learned(c, a, s, n) /\ n.p.err = (c.p.err \/ s = "TRANSIENT_FAILURE")
    BY <1>12, <1>14
  <1>5. k \in Calls
    BY <1>4 DEF Learned
  <1>6. CASE e.addr \notin AddrOf(Exts(c.p.list))
    <2>1. d = c
      BY <1>6, Zenon DEF SubchannelUpdate
    <2> QED BY <1>1, <1>4, <1>6, <2>1 DEF UpdateCase
  <1>7. CASE e.addr \in AddrOf(Exts(c.p.list)) /\ Selected(c.p, e) /\ s = "READY"
    <2>1. d = k
      BY <1>1, <1>2, <1>7, Zenon DEF SubchannelUpdate
    <2> QED BY <1>1, <1>4, <1>7, <2>1 DEF UpdateCase
  <1>8. CASE e.addr \in AddrOf(Exts(c.p.list)) /\ Selected(c.p, e) /\ s # "READY"
    <2>1. d = SubchannelDrop(k)
      BY <1>1, <1>2, <1>8, Zenon DEF SubchannelUpdate
    <2>2. Dropped(k, d)
      BY <1>5, <2>1, SubchannelDropSound
    <2> QED BY <1>1, <1>4, <1>8, <2>2 DEF UpdateCase
  <1>9. CASE e.addr \in AddrOf(Exts(c.p.list)) /\ ~Selected(c.p, e) /\ s = "READY"
    <2>1. d = Activate(k, e)
      BY <1>1, <1>2, <1>9, Zenon DEF SubchannelUpdate
    <2> QED BY <1>1, <1>4, <1>9, <2>1 DEF UpdateCase
  <1>10. CASE e.addr \in AddrOf(Exts(c.p.list)) /\ ~Selected(c.p, e) /\ s # "READY" /\ c.p.steady
    <2>1. d = SubchannelNonready(n, e.addr, s)
      BY <1>1, <1>2, <1>3, <1>10 DEF SubchannelUpdate
    <2> QED BY <1>1, <1>4, <1>10, <2>1 DEF UpdateCase
  <1>11. CASE e.addr \in AddrOf(Exts(c.p.list)) /\ ~Selected(c.p, e) /\ s # "READY" /\ ~c.p.steady
    <2>1. d = UpdateFirstPass(n, e.addr, s)
      BY <1>1, <1>2, <1>3, <1>11 DEF SubchannelUpdate
    <2> QED BY <1>1, <1>4, <1>11, <2>1 DEF UpdateCase
  <1> QED BY <1>6, <1>7, <1>8, <1>9, <1>10, <1>11

\* Learning a state keeps to what may be believed READY.
LEMMA LearnGood ==
    ASSUME NEW c, NEW H, NEW R, NEW X, NEW k, NEW e \in Ext, NEW s \in States,
           Good(c, H, R \cup {e.addr}, X), c.panic = FALSE, s = "READY" => e.addr \in R,
           Learned(c, e.addr, s, k), ~Selected(c.p, e) \/ s = "READY"
    PROVE  Good(k, H, R, X)
  <1>1. /\ c \in Calls /\ Base(c, H, R \cup {e.addr}) /\ Shown(c) /\ Asks(c, X)
        /\ c.p.list \in Seq(Ext) /\ c.p.cache \in [Addr -> States \cup {"NONE"}] /\ e.addr \in Addr
    BY DEF Good, Base, Calls, Policy, Ext
  <1>6. \A x \in Exts(c.p.list) : x \in Ext
    BY <1>1, ListSound
  <1>2. \A x \in Exts(c.p.list) : x.addr \in Addr
    BY <1>6 DEF Ext
  <1>3. \A x \in Exts(c.p.list) : k.p.cache[x.addr] = "READY" => x.addr \in R
    BY <1>1, <1>2 DEF Learned, Base
  <1>4. \A x \in c.p.sel : x.addr \in R
    BY <1>1 DEF Base, Selected, AddrOf
  <1>5. Base(k, H, R)
    BY <1>1, <1>3, <1>4 DEF Learned, Base
  <1> QED BY <1>1, <1>5 DEF Good, Learned, Shown, Asks

\* subchannel_update keeps a good call good: an address that left READY is offered no more.
LEMMA SubchannelUpdateGood ==
    ASSUME NEW c, NEW H, NEW R, NEW X, NEW d, NEW e \in Ext, NEW s \in States,
           Good(c, H, R \cup {e.addr}, X), c.panic = FALSE, c.connects = <<>>,
           e \in H, s = "READY" => e.addr \in R,
           d = SubchannelUpdate(c, e, s)
    PROVE  Good(d, H, R, X)
  <1>1. /\ c \in Calls /\ Base(c, H, R \cup {e.addr}) /\ Shown(c) /\ Asks(c, X)
        /\ c.p.list \in Seq(Ext) /\ e.addr \in Addr /\ c.p.cache \in [Addr -> States \cup {"NONE"}]
    BY DEF Good, Base, Calls, Policy, Ext
  <1>10. PICK k, n : UpdateCase(c, e, s, d, k, n)
    BY <1>1, SubchannelUpdateCases
  <1>2. /\ Learned(c, e.addr, s, k)
        /\ Learned(c, e.addr, s, n)
        /\ \/ e.addr \notin AddrOf(Exts(c.p.list)) /\ d = c
           \/ /\ e.addr \in AddrOf(Exts(c.p.list))
              /\ \/ Selected(c.p, e) /\ s = "READY" /\ d = k
                 \/ Selected(c.p, e) /\ s # "READY" /\ Dropped(k, d)
                 \/ ~Selected(c.p, e) /\ s = "READY" /\ d = Activate(k, e)
                 \/ ~Selected(c.p, e) /\ d = SubchannelNonready(n, e.addr, s)
                 \/ ~Selected(c.p, e) /\ d = UpdateFirstPass(n, e.addr, s)
    BY <1>10 DEF UpdateCase
  <1>3. CASE e.addr \notin AddrOf(Exts(c.p.list)) /\ d = c
    <2>1. \A x \in Exts(c.p.list) : x.addr # e.addr
      BY <1>3 DEF AddrOf
    <2>2. \A x \in c.p.sel : x.addr # e.addr
      BY <1>1, <2>1 DEF Shown
    <2>3. Base(c, H, R)
      BY <1>1, <2>1, <2>2 DEF Base
    <2> QED BY <1>1, <1>3, <2>3 DEF Good
  <1>4. CASE Selected(c.p, e) /\ s = "READY" /\ d = k
    BY <1>2, <1>4, LearnGood
  <1>5. CASE Selected(c.p, e) /\ s # "READY" /\ Dropped(k, d)
    <2>1. \A x \in Exts(c.p.list) : x.addr \in Addr
      BY <1>1, ListSound DEF Ext
    <2>2. \A x \in Exts(c.p.list) : k.p.cache[x.addr] = "READY" => x.addr \in R
      BY <1>1, <1>2, <1>5, <2>1 DEF Learned, Base
    <2>3. Base(d, H, R)
      BY <1>1, <1>2, <1>5, <2>2 DEF Base, Dropped, Learned
    <2> QED BY <1>5, <2>3 DEF Good, Dropped, Shown, Asks
  <1>6. CASE ~Selected(c.p, e) /\ s = "READY" /\ d = Activate(k, e)
    <2>1. Good(k, H, R, X)
      BY <1>2, <1>6, LearnGood
    <2>2. k.panic = FALSE /\ k.connects = <<>> /\ e.addr \in R
      BY <1>2, <1>6 DEF Learned
    <2>3. Base(k, H, R) /\ Shown(k)
      BY <2>1, <2>2 DEF Good
    <2>4. Good(d, H, R, FALSE)
      BY <1>6, <2>2, <2>3, ActivateGood
    <2> QED BY <2>4, GoodWeakens
  <1>7. ASSUME ~Selected(c.p, e), e.addr \in AddrOf(Exts(c.p.list))
        PROVE  /\ Good(n, H, R, X) /\ n.panic = FALSE /\ n.connects = <<>>
               /\ e.addr \in AddrOf(Exts(n.p.list))
    <2>1. Good(n, H, R, X)
      BY <1>2, <1>7, LearnGood
    <2> QED BY <1>2, <1>7, <2>1 DEF Learned
  <1>8. CASE /\ e.addr \in AddrOf(Exts(c.p.list))
             /\ ~Selected(c.p, e) /\ d = SubchannelNonready(n, e.addr, s)
    BY <1>1, <1>7, <1>8, SubchannelNonreadyGood
  <1>9. CASE /\ e.addr \in AddrOf(Exts(c.p.list))
             /\ ~Selected(c.p, e) /\ d = UpdateFirstPass(n, e.addr, s)
    BY <1>1, <1>7, <1>9, UpdateFirstPassGood
  <1> QED BY <1>2, <1>3, <1>4, <1>5, <1>6, <1>8, <1>9

\* work(None) keeps a good call good.
LEMMA WorkNoneGood ==
    ASSUME NEW c, NEW H, NEW R, NEW X, NEW d,
           Good(c, H, R, X), c.panic = FALSE, c.connects = <<>>, d = WorkNone(c)
    PROVE  Good(d, H, R, X)
  <1>1. c \in Calls /\ c.p.frontier \in Nat \ {0} /\ Base(c, H, R) /\ Shown(c) /\ Asks(c, X)
    BY DEF Good, Base, Calls, Policy
  <1>2. CASE d = StartConnectionPass(c)
    <2>1. Started(c, d)
      BY <1>1, <1>2, StartConnectionPassSound
    <2>2. Good(d, H, R, FALSE)
      BY <1>1, <2>1, PassGood DEF Shown
    <2> QED BY <2>2, GoodWeakens
  <1>3. CASE d = TryNext(c, c.p.frontier + 1)
    <2>1. PICK start \in Nat \ {0} : d = TryNext(c, start)
      BY <1>1, <1>3
    <2>2. Tried(c, start, d)
      BY <1>1, <2>1, TryNextSound
    <2>3. Base(d, H, R)
      BY <1>1, <2>2, TryNextGood
    <2>4. /\ d.p.conn = c.p.conn /\ d.p.list = c.p.list /\ d.p.sel = c.p.sel
          /\ d.picker = c.picker /\ d.resolve = c.resolve /\ d.panic = c.panic
      BY <2>2 DEF Tried
    <2> QED BY <1>1, <2>3, <2>4 DEF Good, Shown, Asks
  <1>4. CASE d = c
    BY <1>4
  <1> QED BY <1>2, <1>3, <1>4, Zenon DEF WorkNone, ExitIdle

\* b is c with the list rebuilt for the addresses addrs, new SharedSubchannels being
\* given the identities ids.
Rebuilt(c, addrs, ids, b) ==
    /\ b \in Calls
    /\ DOMAIN b.p.list = DOMAIN addrs
    /\ \A i \in DOMAIN addrs :
          /\ b.p.list[i].addr = addrs[i]
          /\ addrs[i] \in AddrOf(Exts(c.p.list)) =>
                /\ b.p.list[i] \in Exts(c.p.list)
                /\ b.p.cache[addrs[i]] = c.p.cache[addrs[i]]
          /\ addrs[i] \notin AddrOf(Exts(c.p.list)) =>
                /\ b.p.list[i] = [addr |-> addrs[i], id |-> ids[addrs[i]]]
                /\ b.p.cache[addrs[i]] = IF entry[addrs[i]] = "NONE" THEN "IDLE"
                                         ELSE entry[addrs[i]]
    /\ b.p.conn = c.p.conn /\ b.p.sel = c.p.sel /\ b.p.err = c.p.err
    /\ b.p.timer = c.p.timer /\ b.p.steady = c.p.steady
    /\ b.picker = c.picker /\ b.connects = c.connects /\ b.resolve = c.resolve
    /\ b.panic = c.panic

\* rebuild_subchannels: with no READY subchannel a pass is started, otherwise one of
\* them is activated, the selected one if it is READY.
RebuildCase(addrs, b, d) ==
    \/ /\ \A i \in DOMAIN addrs : b.p.cache[addrs[i]] # "READY"
       /\ d = StartConnectionPass(b)
    \/ \E i \in DOMAIN addrs :
          /\ b.p.cache[addrs[i]] = "READY"
          /\ d = Activate(b, b.p.list[i])
          /\ \A j \in DOMAIN addrs :
                b.p.cache[addrs[j]] = "READY" /\ Selected(b.p, b.p.list[j]) =>
                    Selected(b.p, b.p.list[i])

\* rebuild_subchannels builds the new list, then starts a pass or activates.
LEMMA RebuildSound ==
    ASSUME NEW c \in Calls, NEW addrs \in Seq(Addr), NEW ids,
           \A a \in Range(addrs) \ AddrOf(Exts(c.p.list)) : [addr |-> a, id |-> ids[a]] \in Ext,
           entry \in [Addr -> States \cup {"NONE"}],
           NEW d, d = Rebuild(c, addrs, ids)
    PROVE  \E b : Rebuilt(c, addrs, ids, b) /\ RebuildCase(addrs, b, d)
  <1> DEFINE old == c.p.list
             keep(a) == {e \in Exts(old) : e.addr = a}
             ext(a) == IF keep(a) # {} THEN CHOOSE e \in keep(a) : TRUE
                       ELSE [addr |-> a, id |-> ids[a]]
             state(a) == IF keep(a) # {} THEN c.p.cache[a]
                         ELSE IF entry[a] = "NONE" THEN "IDLE" ELSE entry[a]
             list == [i \in DOMAIN addrs |-> ext(addrs[i])]
             cache == [a \in Addr |-> IF a \in Range(addrs) THEN state(a) ELSE "NONE"]
             ready == {i \in DOMAIN addrs : state(addrs[i]) = "READY"}
             sticky == {i \in ready : Selected(c.p, list[i])}
             b == [c EXCEPT !.p.list = list, !.p.cache = cache]
  <1>1. /\ DOMAIN addrs = 1 .. Len(addrs) /\ Len(addrs) \in Nat
        /\ \A i \in DOMAIN addrs : addrs[i] \in Range(addrs) /\ addrs[i] \in Addr
    BY RangeSound
  <1>2. /\ c.p \in Policy /\ old \in Seq(Ext) /\ c.p.cache \in [Addr -> States \cup {"NONE"}]
    BY DEF Calls, Policy
  <1>3. \A e \in Exts(old) : e \in Ext
    BY <1>2, ListSound
  <1>4. \A a : keep(a) # {} <=> a \in AddrOf(Exts(old))
    BY DEF AddrOf
  <1>5. ASSUME NEW i \in DOMAIN addrs
        PROVE  /\ ext(addrs[i]) \in Ext /\ ext(addrs[i]).addr = addrs[i]
               /\ addrs[i] \in AddrOf(Exts(old)) => ext(addrs[i]) \in Exts(old)
               /\ addrs[i] \notin AddrOf(Exts(old)) =>
                      ext(addrs[i]) = [addr |-> addrs[i], id |-> ids[addrs[i]]]
    <2>1. PICK a : a = addrs[i] /\ a \in Range(addrs)
      BY <1>1
    <2>2. CASE keep(a) # {}
      <3>1. ext(a) \in keep(a)
        BY <2>2
      <3>2. ext(a) \in Exts(old) /\ ext(a).addr = a
        BY <3>1
      <3> HIDE DEF ext
      <3> QED BY <1>3, <1>4, <2>1, <2>2, <3>2
    <2>3. CASE keep(a) = {}
      <3>1. ext(a) = [addr |-> a, id |-> ids[a]]
        BY <2>3
      <3>2. ext(a).addr = a /\ ext(a) \in Ext
        BY <1>4, <2>1, <2>3, <3>1
      <3> HIDE DEF ext
      <3> QED BY <1>4, <2>1, <2>3, <3>1, <3>2
    <2> QED BY <2>2, <2>3
  <1>6. list \in Seq(Ext)
    <2> HIDE DEF ext
    <2>1. list \in [1 .. Len(addrs) -> Ext]
      BY <1>1, <1>5
    <2> HIDE DEF list
    <2> QED BY <1>1, <2>1, SeqDef
  <1>7. \A a \in Addr : state(a) \in States \cup {"NONE"}
    BY <1>2 DEF States
  <1>8. cache \in [Addr -> States \cup {"NONE"}]
    <2> HIDE DEF state
    <2> QED BY <1>7
  <1>9. PICK m : m = cache
    OBVIOUS
  <1>10. PICK l : l = list
    OBVIOUS
  <1>11. \A i \in DOMAIN addrs : l[i] = ext(addrs[i]) /\ m[addrs[i]] = state(addrs[i])
    <2> HIDE DEF state, ext
    <2> QED BY <1>1, <1>9, <1>10
  <1>12. DOMAIN l = DOMAIN addrs
    BY <1>10
  <1>13. PICK np \in Policy : np = [c.p EXCEPT !.list = l, !.cache = m]
    <2> HIDE DEF list, cache
    <2> QED BY <1>2, <1>6, <1>8, <1>9, <1>10 DEF Policy
  <1>14. b = [c EXCEPT !.p = np]
    <2> HIDE DEF list, cache
    <2> QED BY <1>2, <1>9, <1>10, <1>13 DEF Calls, Policy
  <1>15. /\ b \in Calls /\ b.p = np /\ b.picker = c.picker /\ b.connects = c.connects
         /\ b.resolve = c.resolve /\ b.panic = c.panic
    <2> HIDE DEF b
    <2> QED BY <1>14 DEF Calls
  <1>16. /\ np.list = l /\ np.cache = m /\ np.conn = c.p.conn /\ np.sel = c.p.sel
         /\ np.err = c.p.err /\ np.timer = c.p.timer /\ np.steady = c.p.steady
    BY <1>2, <1>13 DEF Policy
  <1>17. Rebuilt(c, addrs, ids, b)
    <2>1. ASSUME NEW i \in DOMAIN addrs
          PROVE  /\ l[i].addr = addrs[i]
                 /\ addrs[i] \in AddrOf(Exts(c.p.list)) =>
                       l[i] \in Exts(c.p.list) /\ m[addrs[i]] = c.p.cache[addrs[i]]
                 /\ addrs[i] \notin AddrOf(Exts(c.p.list)) =>
                       /\ l[i] = [addr |-> addrs[i], id |-> ids[addrs[i]]]
                       /\ m[addrs[i]] = IF entry[addrs[i]] = "NONE" THEN "IDLE"
                                        ELSE entry[addrs[i]]
      <3>1. l[i] = ext(addrs[i]) /\ m[addrs[i]] = state(addrs[i])
        BY <1>11
      <3>2. state(addrs[i]) = IF addrs[i] \in AddrOf(Exts(old)) THEN c.p.cache[addrs[i]]
                              ELSE IF entry[addrs[i]] = "NONE" THEN "IDLE" ELSE entry[addrs[i]]
        BY <1>4
      <3> HIDE DEF ext, state
      <3> QED BY <1>5, <3>1, <3>2
    <2> HIDE DEF b
    <2> QED BY <1>12, <1>15, <1>16, <2>1 DEF Rebuilt
  <1>18. RebuildCase(addrs, b, d)
    <2>1. d = IF ready = {} THEN StartConnectionPass(b)
              ELSE Activate(b, list[Min(IF sticky # {} THEN sticky ELSE ready)])
      BY Zenon DEF Rebuild
    <2>2. \A i \in DOMAIN addrs : i \in ready <=> m[addrs[i]] = "READY"
      BY <1>11
    <2>3. \A i \in DOMAIN addrs : i \in sticky <=> m[addrs[i]] = "READY" /\ Selected(c.p, l[i])
      BY <1>10, <1>11
    <2>4. ready \in SUBSET Nat /\ sticky \in SUBSET Nat /\ sticky \subseteq ready
          /\ ready \subseteq DOMAIN addrs
      BY <1>1
    <2>6. \A x : Selected(b.p, x) <=> Selected(c.p, x)
      BY <1>15, <1>16 DEF Selected
    <2> HIDE DEF b, ready, sticky
    <2>7. CASE ready = {}
      BY <1>15, <1>16, <2>1, <2>2, <2>7 DEF RebuildCase
    <2>8. CASE ready # {}
      <3>1. PICK i : i = Min(IF sticky # {} THEN sticky ELSE ready)
        OBVIOUS
      <3>2. i \in ready /\ (sticky # {} => i \in sticky)
        BY <2>4, <2>8, <3>1, MinSound
      <3>3. d = Activate(b, list[i])
        BY <2>1, <2>8, <3>1
      <3>4. d = Activate(b, b.p.list[i])
        BY <1>10, <1>15, <1>16, <3>3
      <3>5. i \in DOMAIN addrs /\ b.p.cache[addrs[i]] = "READY"
        BY <1>15, <1>16, <2>2, <2>4, <3>2
      <3>6. ASSUME NEW j \in DOMAIN addrs, b.p.cache[addrs[j]] = "READY", Selected(b.p, b.p.list[j])
            PROVE  Selected(b.p, b.p.list[i])
        <4>1. j \in sticky
          BY <1>15, <1>16, <2>3, <2>6, <3>6
        <4>2. i \in sticky
          BY <3>2, <4>1
        <4> QED BY <1>15, <1>16, <2>3, <2>6, <3>5, <4>2
      <3> QED BY <3>4, <3>5, <3>6 DEF RebuildCase
    <2> QED BY <2>7, <2>8
  <1> HIDE DEF b
  <1> QED BY <1>17, <1>18

\* rebuild_subchannels leaves a good call.
LEMMA RebuildGood ==
    ASSUME NEW c, NEW H, NEW R, NEW d, NEW addrs \in Seq(Addr), NEW ids,
           Base(c, H, R), Shown(c), c.connects = <<>>, IsInjective(addrs),
           entry \in [Addr -> States \cup {"NONE"}],
           \A a \in Range(addrs) \ AddrOf(Exts(c.p.list)) :
               [addr |-> a, id |-> ids[a]] \in Ext /\ [addr |-> a, id |-> ids[a]] \in H,
           \A a \in Addr : entry[a] = "READY" => a \in R,
           d = Rebuild(c, addrs, ids)
    PROVE  Good(d, H, R, FALSE)
  <1>1. c \in Calls /\ c.p.list \in Seq(Ext)
    BY DEF Base, Calls, Policy
  <1>2. PICK b : Rebuilt(c, addrs, ids, b) /\ RebuildCase(addrs, b, d)
    BY <1>1, RebuildSound
  <1>3. /\ DOMAIN addrs = 1 .. Len(addrs) /\ Len(addrs) \in Nat
        /\ \A i \in DOMAIN addrs : addrs[i] \in Range(addrs) /\ addrs[i] \in Addr
    BY RangeSound
  <1>4. /\ b \in Calls /\ b.p.sel = c.p.sel /\ b.p.conn = c.p.conn
        /\ b.picker = c.picker /\ b.connects = <<>> /\ DOMAIN b.p.list = DOMAIN addrs
    BY <1>2 DEF Rebuilt
  <1>5. b.p.list \in Seq(Ext)
    BY <1>4 DEF Calls, Policy
  <1>6. /\ \A i \in DOMAIN addrs : b.p.list[i] \in Exts(b.p.list) /\ b.p.list[i] \in Ext
        /\ \A e \in Exts(b.p.list) : \E i \in DOMAIN addrs : b.p.list[i] = e
    BY <1>4, <1>5, ListSound
  <1>7. ASSUME NEW i \in DOMAIN addrs
        PROVE  /\ b.p.list[i].addr = addrs[i] /\ b.p.list[i] \in H
               /\ b.p.cache[addrs[i]] = "READY" => addrs[i] \in R
    <2>1. b.p.list[i].addr = addrs[i]
      BY <1>2 DEF Rebuilt
    <2>2. CASE addrs[i] \in AddrOf(Exts(c.p.list))
      <3>1. b.p.list[i] \in Exts(c.p.list) /\ b.p.cache[addrs[i]] = c.p.cache[addrs[i]]
        BY <1>2, <2>2 DEF Rebuilt
      <3> QED BY <2>1, <3>1 DEF Base
    <2>3. CASE addrs[i] \notin AddrOf(Exts(c.p.list))
      <3>1. /\ b.p.list[i] = [addr |-> addrs[i], id |-> ids[addrs[i]]]
            /\ b.p.cache[addrs[i]] = IF entry[addrs[i]] = "NONE" THEN "IDLE"
                                     ELSE entry[addrs[i]]
        BY <1>2, <2>3 DEF Rebuilt
      <3>2. b.p.list[i] \in H
        BY <1>3, <2>3, <3>1
      <3> QED BY <1>3, <2>1, <3>1, <3>2
    <2> QED BY <2>2, <2>3
  <1>8. Distinct(b.p.list)
    BY <1>4, <1>7 DEF Distinct, IsInjective
  <1>9. Base(b, H, R)
    <2>1. Exts(b.p.list) \subseteq H
      BY <1>6, <1>7
    <2>2. \A e \in Exts(b.p.list) : b.p.cache[e.addr] = "READY" => e.addr \in R
      BY <1>6, <1>7
    <2>3. IsInjective(<<>>) /\ Range(<<>>) = {}
      BY DEF IsInjective, Range
    <2>4. /\ c.p.sel \subseteq H /\ c.picker.ext \subseteq H /\ \A e \in c.p.sel : e.addr \in R
      BY DEF Base
    <2> QED BY <1>4, <1>8, <2>1, <2>2, <2>3, <2>4 DEF Base
  <1>10. CASE d = StartConnectionPass(b)
    <2>1. Started(b, d)
      BY <1>4, <1>10, StartConnectionPassSound
    <2> QED BY <1>4, <1>9, <2>1, PassGood DEF Shown
  <1>11. CASE \E i \in DOMAIN addrs : b.p.cache[addrs[i]] = "READY" /\ d = Activate(b, b.p.list[i])
    <2>1. PICK i \in DOMAIN addrs : b.p.cache[addrs[i]] = "READY" /\ d = Activate(b, b.p.list[i])
      BY <1>11
    <2>2. PICK e \in Ext : e = b.p.list[i]
      BY <1>6
    <2>3. e \in H /\ e.addr \in R /\ e \in Exts(b.p.list) /\ e.addr = addrs[i]
      BY <1>6, <1>7, <2>1, <2>2
    <2>4. ASSUME Selected(b.p, e) PROVE Shown(b)
      <3>1. PICK x \in c.p.sel : x.addr = e.addr
        BY <1>4, <2>4 DEF Selected, AddrOf
      <3>2. x \in Exts(c.p.list)
        BY <3>1 DEF Shown
      <3>3. b.p.list[i] \in Exts(c.p.list)
        <4>1. addrs[i] \in AddrOf(Exts(c.p.list))
          BY <2>3, <3>1, <3>2 DEF AddrOf
        <4> QED BY <1>2, <4>1 DEF Rebuilt
      <3>4. x = e
        <4>1. PICK j \in DOMAIN c.p.list : c.p.list[j] = x
          BY <1>1, <3>2, ListSound
        <4>2. PICK k \in DOMAIN c.p.list : c.p.list[k] = e
          BY <1>1, <2>2, <3>3, ListSound
        <4> QED BY <3>1, <4>1, <4>2 DEF Base, Distinct
      <3>5. c.p.sel = {e}
        <4>1. c.p.sel \in MaybeExt
          BY <1>1 DEF Calls, Policy
        <4> QED BY <3>1, <3>4, <4>1 DEF MaybeExt
      <3> QED BY <1>4, <2>3, <3>5 DEF Shown
    <2> QED BY <1>4, <1>9, <2>1, <2>2, <2>3, <2>4, ActivateGood
  <1> QED BY <1>2, <1>10, <1>11 DEF RebuildCase

-----------------------------------------------------------------------------
(* The queue, seen through the items of one set K.                         *)

Has(q, K) == \E i \in DOMAIN q : q[i] \in K

\* The last item of K in q, if there is one, carries the state s.
LastIs(q, K, s) ==
    \A i \in DOMAIN q :
        q[i] \in K /\ (\A j \in DOMAIN q : q[j] \in K => j <= i) => q[i].state = s

\* What is said of a queue and the items added to it.
Joined(q, t, r, K) ==
    /\ Has(r, K) <=> Has(q, K) \/ Has(t, K)
    /\ ~Has(q, K) => \A s : LastIs(t, K, s) => LastIs(r, K, s)
    /\ \A s : LastIs(t, K, s) /\ (~Has(t, K) => LastIs(q, K, s)) => LastIs(r, K, s)
    /\ \A s : LastIs(r, K, s) => LastIs(t, K, s) /\ (~Has(t, K) => LastIs(q, K, s))

\* What is waiting in a queue extended by another.
LEMMA JoinSound ==
    ASSUME NEW W, NEW q \in Seq(W), NEW t \in Seq(W), NEW r, r = q \o t, NEW K
    PROVE  r \in Seq(W) /\ Joined(q, t, r, K)
  <1> DEFINE n == Len(q)
             m == Len(t)
  <1>1. n \in Nat /\ m \in Nat /\ DOMAIN q = 1 .. n /\ DOMAIN t = 1 .. m
    BY LenProperties
  <1>2. /\ r \in Seq(W) /\ Len(r) = n + m
        /\ \A i \in 1 .. n + m : r[i] = IF i <= n THEN q[i] ELSE t[i - n]
    BY ConcatProperties
  <1>3. DOMAIN r = 1 .. n + m
    BY <1>2, LenProperties
  <1> HIDE DEF n, m
  <1>4. \A i \in DOMAIN q : i \in DOMAIN r /\ r[i] = q[i] /\ i <= n
    BY <1>1, <1>2, <1>3
  <1>5. \A j \in DOMAIN t : n + j \in DOMAIN r /\ r[n + j] = t[j] /\ n < n + j
    BY <1>1, <1>2, <1>3
  <1>6. \A i \in DOMAIN r : i \in DOMAIN q \/ \E j \in DOMAIN t : i = n + j
    <2> SUFFICES ASSUME NEW i \in DOMAIN r, i \notin DOMAIN q
                 PROVE  \E j \in DOMAIN t : i = n + j
      OBVIOUS
    <2>1. i - n \in DOMAIN t /\ i = n + (i - n)
      BY <1>1, <1>3
    <2> QED BY <2>1
  <1>7. Has(r, K) <=> Has(q, K) \/ Has(t, K)
    BY <1>4, <1>5, <1>6 DEF Has
  <1>8. ASSUME NEW s, LastIs(t, K, s), ~Has(t, K) => LastIs(q, K, s)
        PROVE  LastIs(r, K, s)
    <2> SUFFICES ASSUME NEW i \in DOMAIN r, r[i] \in K,
                        \A j \in DOMAIN r : r[j] \in K => j <= i
                 PROVE  r[i].state = s
      BY DEF LastIs
    <2>1. CASE i \in DOMAIN q
      <3>1. ~Has(t, K)
        <4> SUFFICES ASSUME NEW j \in DOMAIN t, t[j] \in K PROVE FALSE
          BY DEF Has
        <4>1. n + j <= i /\ n < n + j /\ i <= n
          BY <1>4, <1>5, <2>1
        <4> QED BY <1>1, <2>1, <4>1
      <3>2. LastIs(q, K, s)
        BY <1>8, <3>1
      <3> QED BY <1>4, <2>1, <3>2 DEF LastIs
    <2>2. ASSUME NEW j \in DOMAIN t, i = n + j PROVE t[j].state = s
      <3>1. \A k \in DOMAIN t : t[k] \in K => k <= j
        <4> SUFFICES ASSUME NEW k \in DOMAIN t, t[k] \in K PROVE k <= j
          OBVIOUS
        <4>1. n + k <= n + j
          BY <1>5, <2>2
        <4> QED BY <1>1, <4>1
      <3>2. t[j] \in K
        BY <1>5, <2>2
      <3> QED BY <1>8, <3>1, <3>2 DEF LastIs
    <2> QED BY <1>5, <1>6, <2>1, <2>2
  <1>9. ASSUME NEW s, LastIs(r, K, s)
        PROVE  LastIs(t, K, s) /\ (~Has(t, K) => LastIs(q, K, s))
    <2>1. ASSUME NEW j \in DOMAIN t, t[j] \in K, \A k \in DOMAIN t : t[k] \in K => k <= j
          PROVE  t[j].state = s
      <3>1. ASSUME NEW i \in DOMAIN r, r[i] \in K PROVE i <= n + j
        <4>1. CASE i \in DOMAIN q
          BY <1>1, <4>1
        <4>2. ASSUME NEW k \in DOMAIN t, i = n + k PROVE i <= n + j
          <5>1. k <= j
            BY <1>5, <2>1, <3>1, <4>2
          <5> QED BY <1>1, <4>2, <5>1
        <4> QED BY <1>6, <4>1, <4>2
      <3> QED BY <1>5, <1>9, <2>1, <3>1 DEF LastIs
    <2>2. ASSUME ~Has(t, K), NEW i \in DOMAIN q, q[i] \in K,
                 \A k \in DOMAIN q : q[k] \in K => k <= i
          PROVE  q[i].state = s
      <3>1. ASSUME NEW k \in DOMAIN r, r[k] \in K PROVE k <= i
        BY <1>4, <1>5, <1>6, <2>2, <3>1 DEF Has
      <3> QED BY <1>4, <1>9, <2>2, <3>1 DEF LastIs
    <2> QED BY <2>1, <2>2 DEF LastIs
  <1> QED BY <1>2, <1>7, <1>8, <1>9 DEF Joined, LastIs, Has

\* A queue of one.
LEMMA OneQueued ==
    ASSUME NEW W, NEW w \in W, NEW K
    PROVE  /\ <<w>> \in Seq(W)
           /\ Has(<<w>>, K) <=> w \in K
           /\ \A s : LastIs(<<w>>, K, s) <=> (w \in K => w.state = s)
  <1>1. DOMAIN <<w>> = {1} /\ <<w>>[1] = w /\ <<w>> \in Seq(W)
    OBVIOUS
  <1> QED BY <1>1 DEF Has, LastIs

\* rest is q without its head.
Beheaded(q, rest, K) ==
    /\ Has(q, K) <=> Head(q) \in K \/ Has(rest, K)
    /\ \A s : LastIs(q, K, s) =>
          LastIs(rest, K, s) /\ (~Has(rest, K) /\ Head(q) \in K => Head(q).state = s)

\* What is waiting once the head has been taken.
LEMMA TailSound ==
    ASSUME NEW W, NEW q \in Seq(W), q # <<>>, NEW rest, rest = Tail(q), NEW K
    PROVE  rest \in Seq(W) /\ Head(q) \in W /\ Beheaded(q, rest, K)
  <1>1. rest \in Seq(W) /\ Head(q) \in W /\ q = <<Head(q)>> \o rest
    BY HeadTailProperties
  <1>2. PICK w \in W : w = Head(q)
    BY <1>1
  <1>3. /\ <<w>> \in Seq(W)
        /\ Has(<<w>>, K) <=> w \in K
        /\ \A s : LastIs(<<w>>, K, s) <=> (w \in K => w.state = s)
    BY OneQueued
  <1>4. q = <<w>> \o rest
    BY <1>1, <1>2
  <1>5. Joined(<<w>>, rest, q, K)
    BY <1>1, <1>3, <1>4, JoinSound
  <1> QED BY <1>1, <1>2, <1>3, <1>5 DEF Joined, Beheaded

\* r is q with w appended.
Appended(q, w, r, K) ==
    /\ Has(r, K) <=> Has(q, K) \/ w \in K
    /\ w \in K => LastIs(r, K, w.state)
    /\ w \notin K => \A s : LastIs(q, K, s) => LastIs(r, K, s)

\* What is waiting once an item was added.
LEMMA AppendSound ==
    ASSUME NEW W, NEW q \in Seq(W), NEW w \in W, NEW r, r = Append(q, w), NEW K
    PROVE  r \in Seq(W) /\ Appended(q, w, r, K)
  <1>3. /\ <<w>> \in Seq(W)
        /\ Has(<<w>>, K) <=> w \in K
        /\ \A s : LastIs(<<w>>, K, s) <=> (w \in K => w.state = s)
    BY OneQueued
  <1>4. r = q \o <<w>>
    OBVIOUS
  <1>5. r \in Seq(W) /\ Joined(q, <<w>>, r, K)
    BY <1>3, <1>4, JoinSound
  <1> QED BY <1>3, <1>5 DEF Joined, Appended

\* r lists items of q, all those of K among them, in order.
LEMMA ItemsAtKeeps ==
    ASSUME NEW W, NEW q \in Seq(W), NEW keep \in SUBSET DOMAIN q,
           NEW r, r = ItemsAt(q, keep), NEW K
    PROVE  /\ r \in Seq(W)
           /\ \A i \in DOMAIN r : \E j \in keep : r[i] = q[j]
           /\ (\A i \in DOMAIN q : q[i] \in K => i \in keep) =>
                 /\ Has(r, K) <=> Has(q, K)
                 /\ \A s : LastIs(q, K, s) => LastIs(r, K, s)
  <1>1. DOMAIN q = 1 .. Len(q) /\ Len(q) \in Nat /\ \A i \in DOMAIN q : q[i] \in W
    BY LenProperties
  <1>2. keep \in SUBSET Nat /\ IsFiniteSet(keep)
    <2>1. IsFiniteSet(1 .. Len(q))
      BY <1>1, FS_Interval
    <2> QED BY <1>1, <2>1, FS_Subset
  <1>3. PICK n : n = Cardinality(keep) /\ n \in Nat
    BY <1>2, ItemsAtSound
  <1>4. PICK g : Enumerates(g, keep, n) /\ r = [i \in 1 .. n |-> q[g[i]]]
    BY <1>2, <1>3, ItemsAtSound
  <1>5. /\ g \in [1 .. n -> keep]
        /\ \A i, j \in 1 .. n : i < j => g[i] < g[j]
        /\ \A k \in keep : \E i \in 1 .. n : g[i] = k
    BY <1>4 DEF Enumerates
  <1>6. DOMAIN r = 1 .. n /\ \A i \in 1 .. n : r[i] = q[g[i]] /\ g[i] \in keep /\ g[i] \in DOMAIN q
    BY <1>4, <1>5
  <1>7. r \in Seq(W)
    <2>1. r \in [1 .. n -> W]
      BY <1>1, <1>4, <1>6
    <2> QED BY <1>3, <2>1, SeqDef
  <1>8. \A i \in DOMAIN r : \E j \in keep : r[i] = q[j]
    BY <1>6
  <1>9. ASSUME \A i \in DOMAIN q : q[i] \in K => i \in keep
        PROVE  /\ Has(r, K) <=> Has(q, K)
               /\ \A s : LastIs(q, K, s) => LastIs(r, K, s)
    <2>1. ASSUME NEW k \in DOMAIN q, q[k] \in K
          PROVE  \E i \in 1 .. n : g[i] = k /\ r[i] = q[k]
      BY <1>5, <1>6, <1>9, <2>1
    <2>2. Has(r, K) <=> Has(q, K)
      BY <1>6, <2>1 DEF Has
    <2>3. ASSUME NEW s, LastIs(q, K, s) PROVE LastIs(r, K, s)
      <3> SUFFICES ASSUME NEW i \in 1 .. n, r[i] \in K,
                          \A j \in 1 .. n : r[j] \in K => j <= i
                   PROVE  r[i].state = s
        BY <1>6 DEF LastIs
      <3>1. g[i] \in DOMAIN q /\ q[g[i]] \in K /\ r[i] = q[g[i]]
        BY <1>6
      <3>2. ASSUME NEW k \in DOMAIN q, q[k] \in K PROVE k <= g[i]
        <4>1. PICK j \in 1 .. n : g[j] = k /\ r[j] = q[k]
          BY <2>1, <3>2
        <4>2. j <= i
          BY <3>2, <4>1
        <4>3. j = i \/ j < i
          BY <1>3, <4>2
        <4>4. k = g[i] \/ k < g[i]
          BY <1>5, <4>1, <4>3
        <4> QED BY <1>1, <3>1, <4>4
      <3> QED BY <2>3, <3>1, <3>2 DEF LastIs
    <2> QED BY <2>2, <2>3
  <1> QED BY <1>7, <1>8, <1>9

\* The updates for one SharedSubchannel, and what the queue may carry for an address.
UpdateOf(e) == [kind : {"ext"}, ext : {e}, state : States]

ExtOf(a) == [kind : {"ext"}, ext : {e \in Ext : e.addr = a}, state : States]

IntOf(a) == [kind : {"internal"}, addr : {a}, state : States]

ReleaseOf(a) == [kind : {"released"}, addr : {a}]

Result == [kind : {"resolver"}]

\* The kind of an item says what it carries.
Kinds(w) ==
    /\ \A e : w \in UpdateOf(e) <=> w.kind = "ext" /\ w.ext = e
    /\ \A a : w \in ExtOf(a) <=> w.kind = "ext" /\ w.ext.addr = a
    /\ \A a : w \in IntOf(a) <=> w.kind = "internal" /\ w.addr = a
    /\ \A a : w \in ReleaseOf(a) <=> w.kind = "released" /\ w.addr = a
    /\ w \in Result <=> w.kind = "resolver"
    /\ w.kind = "ext" => w.ext \in Ext /\ w.ext.addr \in Addr /\ w.state \in States
    /\ w.kind = "internal" => w.addr \in Addr /\ w.state \in States
    /\ w.kind = "released" => w.addr \in Addr

\* The kind of an item tells its fields and the sets it is in.
LEMMA KindSound ==
    ASSUME NEW w \in WorkItem
    PROVE  Kinds(w)
  <1> USE DEF Kinds, UpdateOf, ExtOf, IntOf, ReleaseOf, Result
  <1>1. CASE w \in [kind : {"work", "resolver"}]
    BY <1>1
  <1>2. CASE w \in [kind : {"ext"}, ext : Ext, state : States]
    BY <1>2 DEF Ext
  <1>3. CASE w \in [kind : {"internal"}, addr : Addr, state : States]
    BY <1>3
  <1>4. CASE w \in [kind : {"released"}, addr : Addr]
    BY <1>4
  <1> QED BY <1>1, <1>2, <1>3, <1>4 DEF WorkItem

\* The SharedSubchannels in a queue are those of its updates.
LEMMA InQueueSound ==
    ASSUME NEW q \in Seq(WorkItem)
    PROVE  /\ \A e : e \in InQueue(q) <=> Has(q, UpdateOf(e))
           /\ InQueue(q) \in SUBSET Ext /\ IsFiniteSet(InQueue(q))
           /\ \A a : Has(q, ExtOf(a)) <=> a \in AddrOf(InQueue(q))
  <1> DEFINE D == {j \in DOMAIN q : q[j].kind = "ext"}
  <1>1. /\ DOMAIN q = 1 .. Len(q) /\ Len(q) \in Nat
        /\ \A i \in DOMAIN q : q[i] \in WorkItem
    BY LenProperties
  <1>2. \A i \in DOMAIN q : Kinds(q[i])
    BY <1>1, KindSound
  <1>3. InQueue(q) = {q[i].ext : i \in D}
    BY DEF InQueue
  <1>4. \A e : e \in InQueue(q) <=> Has(q, UpdateOf(e))
    BY <1>2, <1>3 DEF Kinds, Has
  <1>5. InQueue(q) \in SUBSET Ext
    BY <1>2, <1>3 DEF Kinds
  <1>6. IsFiniteSet(InQueue(q))
    <2>1. D \subseteq 1 .. Len(q) /\ IsFiniteSet(1 .. Len(q))
      BY <1>1, FS_Interval
    <2>2. IsFiniteSet(D)
      BY <2>1, FS_Subset
    <2> DEFINE f == [i \in D |-> q[i].ext]
    <2>3. f \in Surjection(D, InQueue(q))
      BY <1>3 DEF Surjection
    <2> HIDE DEF f, D
    <2> QED BY <2>2, <2>3, FS_Surjection
  <1>7. \A a : Has(q, ExtOf(a)) <=> a \in AddrOf(InQueue(q))
    BY <1>2, <1>3 DEF Kinds, Has, AddrOf
  <1> QED BY <1>4, <1>5, <1>6, <1>7

\* An optional SharedSubchannel is a finite set.
LEMMA MaybeExtSound ==
    ASSUME NEW x \in MaybeExt
    PROVE  x \in SUBSET Ext /\ IsFiniteSet(x)
  <1>1. x = {} \/ \E e \in Ext : x = {e}
    BY DEF MaybeExt
  <1> QED BY <1>1, FS_EmptySet, FS_Singleton

\* SharedSubchannels in use are finitely many.
LEMMA HeldBySound ==
    ASSUME NEW p \in Policy, NEW k \in Pickers, NEW q \in Seq(WorkItem), NEW x \in MaybeExt
    PROVE  HeldBy(p, k, q, x) \in SUBSET Ext /\ IsFiniteSet(HeldBy(p, k, q, x))
  <1>1. p.list \in Seq(Ext) /\ p.sel \in MaybeExt /\ k.ext \in MaybeExt
    BY DEF Policy, Pickers
  <1>2. /\ Exts(p.list) \in SUBSET Ext /\ IsFiniteSet(Exts(p.list))
        /\ p.sel \in SUBSET Ext /\ IsFiniteSet(p.sel)
        /\ k.ext \in SUBSET Ext /\ IsFiniteSet(k.ext)
        /\ x \in SUBSET Ext /\ IsFiniteSet(x)
        /\ InQueue(q) \in SUBSET Ext /\ IsFiniteSet(InQueue(q))
    BY <1>1, ListSound, MaybeExtSound, InQueueSound
  <1> DEFINE y == Exts(p.list) \cup p.sel
             z == y \cup k.ext
             v == z \cup InQueue(q)
  <1>3. IsFiniteSet(y)
    BY <1>2, FS_Union
  <1>4. IsFiniteSet(z)
    <2> HIDE DEF y
    <2> QED BY <1>2, <1>3, FS_Union
  <1>5. IsFiniteSet(v)
    <2> HIDE DEF z
    <2> QED BY <1>2, <1>4, FS_Union
  <1>6. IsFiniteSet(v \cup x)
    <2> HIDE DEF v
    <2> QED BY <1>2, <1>5, FS_Union
  <1> QED BY <1>2, <1>6 DEF HeldBy

\* A release is queued for each SharedSubchannel that died, and nothing else.
LEMMA ReleasesSound ==
    ASSUME NEW before \in SUBSET Ext, IsFiniteSet(before), NEW after,
           NEW t, t = Releases(before, after)
    PROVE  /\ t \in Seq(WorkItem)
           /\ \A a : Has(t, ReleaseOf(a)) <=> a \in AddrOf(before \ after)
           /\ \A i \in DOMAIN t : t[i].kind = "released"
  <1> DEFINE dead == before \ after
             n == Cardinality(dead)
             s == SetToSeq(dead)
  <1>1. dead \in SUBSET Ext /\ IsFiniteSet(dead)
    BY FS_Subset
  <1>2. /\ n \in Nat /\ s \in [1 .. n -> dead]
        /\ \A x \in dead : \E i \in 1 .. n : s[i] = x
    <2> HIDE DEF dead
    <2> QED BY <1>1, SetToSeqSound
  <1>3. t = [i \in 1 .. n |-> [kind |-> "released", addr |-> s[i].addr]]
    BY Zenon DEF Releases
  <1> HIDE DEF n, s
  <1>4. \A i \in 1 .. n : t[i] = [kind |-> "released", addr |-> s[i].addr] /\ s[i] \in dead
    BY <1>2, <1>3
  <1>5. ASSUME NEW i \in 1 .. n
        PROVE  t[i] \in WorkItem /\ t[i].kind = "released" /\ t[i].addr = s[i].addr
    <2>1. s[i] \in Ext
      BY <1>1, <1>4
    <2>2. PICK a \in Addr : a = s[i].addr
      BY <2>1 DEF Ext
    <2>3. PICK w : w = [kind |-> "released", addr |-> a]
      OBVIOUS
    <2>4. w \in WorkItem /\ w.kind = "released" /\ w.addr = a
      BY <2>3 DEF WorkItem
    <2> QED BY <1>4, <2>2, <2>3, <2>4
  <1>6. t \in Seq(WorkItem)
    <2>1. t \in [1 .. n -> WorkItem]
      BY <1>3, <1>5
    <2> QED BY <1>2, <2>1, SeqDef
  <1>7. DOMAIN t = 1 .. n
    BY <1>3
  <1>8. \A i \in 1 .. n : t[i].kind = "released" /\ t[i].addr = s[i].addr
    BY <1>5
  <1>9. \A a : Has(t, ReleaseOf(a)) <=> \E i \in 1 .. n : s[i].addr = a
    <2>1. \A i \in 1 .. n : Kinds(t[i])
      BY <1>5, KindSound
    <2> QED BY <1>7, <1>8, <2>1 DEF Kinds, Has
  <1>10. \A a : (\E i \in 1 .. n : s[i].addr = a) <=> a \in AddrOf(dead)
    BY <1>2 DEF AddrOf
  <1> QED BY <1>6, <1>7, <1>8, <1>9, <1>10

\* connect() reports CONNECTING for each idle subchannel that was told to connect.
LEMMA ReportsSound ==
    ASSUME NEW connects \in Seq(Addr), NEW subs, NEW t, t = Reports(connects, subs)
    PROVE  /\ t \in Seq(WorkItem)
           /\ \A a : Has(t, IntOf(a)) <=> a \in Range(connects) /\ subs[a] = "IDLE"
           /\ \A a : LastIs(t, IntOf(a), "CONNECTING")
           /\ \A i \in DOMAIN t : t[i].kind = "internal"
  <1> DEFINE f == [i \in DOMAIN connects |->
                      [kind |-> "internal", addr |-> connects[i], state |-> "CONNECTING"]]
             keep == {i \in DOMAIN connects : subs[connects[i]] = "IDLE"}
  <1>1. /\ DOMAIN connects = 1 .. Len(connects) /\ Len(connects) \in Nat
        /\ \A i \in DOMAIN connects : connects[i] \in Addr
        /\ \A i \in DOMAIN connects : connects[i] \in Range(connects)
        /\ \A a \in Range(connects) : \E i \in DOMAIN connects : connects[i] = a
    BY RangeSound
  <1>2. \A i \in DOMAIN f : /\ f[i] \in WorkItem /\ f[i].kind = "internal"
                            /\ f[i].addr = connects[i] /\ f[i].state = "CONNECTING"
    BY <1>1 DEF WorkItem, States
  <1>3. f \in Seq(WorkItem)
    <2>1. f \in [1 .. Len(connects) -> WorkItem]
      BY <1>1, <1>2
    <2> HIDE DEF f
    <2> QED BY <1>1, <2>1, SeqDef
  <1>4. keep \in SUBSET DOMAIN f /\ DOMAIN f = DOMAIN connects
    OBVIOUS
  <1>5. t = ItemsAt(f, keep)
    BY Zenon DEF Reports
  <1>6. \A i \in keep : i \in DOMAIN connects /\ subs[connects[i]] = "IDLE"
    OBVIOUS
  <1>7. \A i \in DOMAIN connects : subs[connects[i]] = "IDLE" => i \in keep
    OBVIOUS
  <1> HIDE DEF f, keep
  <1>8. /\ t \in Seq(WorkItem)
        /\ \A i \in DOMAIN t : \E j \in keep : t[i] = f[j]
    BY <1>3, <1>4, <1>5, ItemsAtKeeps
  <1>9. \A i \in DOMAIN t : t[i].kind = "internal" /\ t[i].state = "CONNECTING"
    BY <1>2, <1>4, <1>8
  <1>10. \A a : LastIs(t, IntOf(a), "CONNECTING")
    BY <1>9 DEF LastIs
  <1>11. ASSUME NEW a, Has(t, IntOf(a)) PROVE a \in Range(connects) /\ subs[a] = "IDLE"
    <2>1. PICK i \in DOMAIN t : t[i] \in IntOf(a)
      BY <1>11 DEF Has
    <2>2. PICK j \in keep : t[i] = f[j]
      BY <1>8
    <2>3. t[i].addr = a
      BY <2>1 DEF IntOf
    <2> QED BY <1>1, <1>2, <1>4, <1>6, <2>2, <2>3
  <1>12. ASSUME NEW a, a \in Range(connects), subs[a] = "IDLE" PROVE Has(t, IntOf(a))
    <2>1. PICK i \in DOMAIN connects : connects[i] = a
      BY <1>1, <1>12
    <2> DEFINE K == {f[i]}
    <2>2. f[i] \in IntOf(a)
      <3>1. Kinds(f[i])
        BY <1>2, <1>4, KindSound
      <3> QED BY <1>2, <1>4, <2>1, <3>1 DEF Kinds
    <2>3. \A j \in DOMAIN f : f[j] \in K => j \in keep
      <3> SUFFICES ASSUME NEW j \in DOMAIN f, f[j] = f[i] PROVE j \in keep
        OBVIOUS
      <3>1. connects[j] = a
        BY <1>2, <1>4, <2>1
      <3> QED BY <1>4, <1>7, <1>12, <3>1
    <2>4. Has(f, K)
      BY <1>4 DEF Has
    <2>5. Has(t, K)
      <3> HIDE DEF K
      <3> QED BY <1>3, <1>4, <1>5, <2>3, <2>4, ItemsAtKeeps
    <2> QED BY <2>2, <2>5 DEF Has
  <1> QED BY <1>8, <1>9, <1>10, <1>11, <1>12

-----------------------------------------------------------------------------
(* The inductive invariant: what the sharing layer and the policy do not   *)
(* know yet is in the queue.                                               *)

\* SharedSubchannels in use have an entry, and so has what is queued for one.
Backed ==
    /\ \A e \in Held : entry[e.addr] # "NONE"
    /\ \A a \in Addr :
          Has(queue, IntOf(a)) \/ Has(queue, ReleaseOf(a)) => entry[a] # "NONE"

\* An entry that nobody uses has a release in the queue.
Owned ==
    \A a \in Addr : entry[a] # "NONE" => a \in AddrOf(Held) \/ Has(queue, ReleaseOf(a))

\* The entry and the updates on their way to it end in the subchannel's state.
Reported ==
    \A a \in Addr : entry[a] # "NONE" =>
        /\ ~Has(queue, IntOf(a)) => entry[a] = sub[a]
        /\ LastIs(queue, IntOf(a), sub[a])

\* Updates on their way to the policy end in the entry's state.
Delivered == \A a \in Addr : LastIs(queue, ExtOf(a), entry[a])

\* Addresses that are READY to the sharing layer, or that an update is on its way for.
MaybeReady(q, en) == {a \in Addr : Has(q, ExtOf(a)) \/ en[a] = "READY"}

\* What the policy believes READY or has selected is READY to the sharing layer, or
\* an update on its way says otherwise.
ReadyKnown ==
    /\ \A e \in Exts(pf.list) :
          pf.cache[e.addr] = "READY" => e.addr \in MaybeReady(queue, entry)
    /\ \A e \in pf.sel : e.addr \in MaybeReady(queue, entry)

\* The selected subchannel is listed, and a READY picker offers it.
Offered ==
    ~panicked =>
        /\ pf.sel \subseteq Exts(pf.list)
        /\ picker.state = "READY" => pf.conn = "READY" /\ picker.ext \subseteq pf.sel

\* The entry's side of the invariant, and the policy's.
Sharing == Backed /\ Owned /\ Reported /\ Delivered

IInv == TypeOK /\ Sharing /\ ReadyKnown /\ Offered /\ AsksAgain

\* What TypeOK says of the SharedSubchannels in use.
LEMMA HeldSound ==
    ASSUME TypeOK
    PROVE  Held \in SUBSET Ext /\ IsFiniteSet(Held) /\ \A e \in Held : e.addr \in Addr
  <1>1. pf \in Policy /\ picker \in Pickers /\ queue \in Seq(WorkItem) /\ pinned \in MaybeExt
    BY DEF TypeOK
  <1>2. Held \in SUBSET Ext /\ IsFiniteSet(Held)
    BY <1>1, HeldBySound DEF Held
  <1> QED BY <1>2 DEF Ext

\* A resolver result is on its way.
LEMMA ResultSound ==
    ASSUME NEW q \in Seq(WorkItem)
    PROVE  (\E i \in DOMAIN q : q[i].kind = "resolver") <=> Has(q, Result)
  <1>1. \A i \in DOMAIN q : q[i] \in WorkItem
    BY LenProperties
  <1>2. \A i \in DOMAIN q : Kinds(q[i])
    BY <1>1, KindSound
  <1> QED BY <1>2 DEF Kinds, Has

\* Items of one kind are not of another.
LEMMA OfOneKind ==
    ASSUME NEW t \in Seq(WorkItem), NEW kind, \A i \in DOMAIN t : t[i].kind = kind
    PROVE  /\ kind # "ext" => \A x : ~Has(t, ExtOf(x)) /\ ~Has(t, UpdateOf(x))
           /\ kind # "internal" => \A x : ~Has(t, IntOf(x))
           /\ kind # "released" => \A x : ~Has(t, ReleaseOf(x))
           /\ kind # "resolver" => ~Has(t, Result)
BY DEF Has, ExtOf, UpdateOf, IntOf, ReleaseOf, Result

\* What a queue says once releases and reports were added to it.
Extended(q, rel, rep, r) ==
    /\ r \in Seq(WorkItem)
    /\ InQueue(r) = InQueue(q)
    /\ Has(r, Result) <=> Has(q, Result)
    /\ \A a : /\ Has(r, ExtOf(a)) <=> Has(q, ExtOf(a))
              /\ \A s : LastIs(q, ExtOf(a), s) => LastIs(r, ExtOf(a), s)
              /\ Has(r, ReleaseOf(a)) <=> Has(q, ReleaseOf(a)) \/ Has(rel, ReleaseOf(a))
              /\ Has(r, IntOf(a)) <=> Has(q, IntOf(a)) \/ Has(rep, IntOf(a))
              /\ \A s : LastIs(rep, IntOf(a), s) /\ (~Has(rep, IntOf(a)) => LastIs(q, IntOf(a), s))
                           => LastIs(r, IntOf(a), s)

\* Releases and internal updates behind a queue touch nothing else in it.
LEMMA ExtendSound ==
    ASSUME NEW q \in Seq(WorkItem), NEW rel \in Seq(WorkItem), NEW rep \in Seq(WorkItem),
           \A i \in DOMAIN rel : rel[i].kind = "released",
           \A i \in DOMAIN rep : rep[i].kind = "internal",
           NEW r, r = q \o rel \o rep
    PROVE  Extended(q, rel, rep, r)
  <1>1. /\ \A x : ~Has(rel, ExtOf(x)) /\ ~Has(rel, UpdateOf(x)) /\ ~Has(rel, IntOf(x))
        /\ ~Has(rel, Result)
    <2>1. PICK kind : kind = "released" /\ \A i \in DOMAIN rel : rel[i].kind = kind
      OBVIOUS
    <2> QED BY <2>1, OfOneKind
  <1>2. /\ \A x : ~Has(rep, ExtOf(x)) /\ ~Has(rep, UpdateOf(x)) /\ ~Has(rep, ReleaseOf(x))
        /\ ~Has(rep, Result)
    BY OfOneKind
  <1>3. PICK m : m = q \o rel
    OBVIOUS
  <1>4. m \in Seq(WorkItem) /\ \A K : Joined(q, rel, m, K)
    BY <1>3, JoinSound
  <1>5. r = m \o rep
    BY <1>3
  <1>6. r \in Seq(WorkItem) /\ \A K : Joined(m, rep, r, K)
    BY <1>4, <1>5, JoinSound
  <1>7. \A K : Has(r, K) <=> Has(q, K) \/ Has(rel, K) \/ Has(rep, K)
    BY <1>4, <1>6 DEF Joined
  <1>8. ASSUME NEW K, ~Has(rel, K)
        PROVE  \A s : LastIs(rep, K, s) /\ (~Has(rep, K) => LastIs(q, K, s)) => LastIs(r, K, s)
    <2>1. \A s : LastIs(rel, K, s)
      BY <1>8 DEF LastIs, Has
    <2>2. \A s : LastIs(q, K, s) => LastIs(m, K, s)
      BY <1>4, <1>8, <2>1 DEF Joined
    <2> QED BY <1>6, <2>2 DEF Joined
  <1>9. \A K : ~Has(rep, K) => \A s : LastIs(rep, K, s)
    BY DEF Has, LastIs
  <1>10. InQueue(r) = InQueue(q)
    <2>1. \A e : e \in InQueue(r) <=> e \in InQueue(q)
      BY <1>1, <1>2, <1>6, <1>7, InQueueSound
    <2> QED BY <2>1
  <1>11. ASSUME NEW a
         PROVE  /\ Has(r, ExtOf(a)) <=> Has(q, ExtOf(a))
                /\ \A s : LastIs(q, ExtOf(a), s) => LastIs(r, ExtOf(a), s)
    BY <1>1, <1>2, <1>7, <1>8, <1>9
  <1> QED BY <1>1, <1>2, <1>6, <1>7, <1>8, <1>10, <1>11 DEF Extended

\* The entries once the SharedSubchannels new exist, and the states of the internal
\* subchannels behind them.
EntriesWith(new) ==
    [a \in Addr |-> IF a \in AddrOf(new) /\ entry[a] = "NONE" THEN "IDLE" ELSE entry[a]]

SubsWith(new) ==
    [a \in Addr |-> IF a \in AddrOf(new) /\ entry[a] = "NONE" THEN "IDLE" ELSE sub[a]]

\* The step that ends with call c: rel and rep are what it appended to the queue.
Finished(c, new, rest, rel, rep) ==
    /\ pf' = c.p /\ picker' = c.picker /\ pinned' = pinned /\ resolved' = resolved
    /\ entry' = EntriesWith(new) /\ sub' = ConnectedBy(c.connects, SubsWith(new))
    /\ Held' = HeldBy(c.p, c.picker, rest, pinned)
    /\ rel \in Seq(WorkItem) /\ \A i \in DOMAIN rel : rel[i].kind = "released"
    /\ rep \in Seq(WorkItem) /\ rep = Reports(c.connects, SubsWith(new))
    /\ queue' = rest \o rel \o rep
    /\ Extended(rest, rel, rep, queue')
    /\ \A a : Has(rel, ReleaseOf(a)) <=> a \in AddrOf((Held \cup new) \ Held')
    /\ \A a : Has(rep, IntOf(a)) <=> a \in Range(c.connects) /\ SubsWith(new)[a] = "IDLE"
    /\ \A a : LastIs(rep, IntOf(a), "CONNECTING")
    /\ asked' = (asked \/ c.resolve) /\ panicked' = c.panic

\* What Finish makes of a call's outcome.
LEMMA FinishSound ==
    ASSUME TypeOK, queue # <<>>, NEW rest, rest = Tail(queue),
           NEW c \in Calls, NEW new \in SUBSET Ext, IsFiniteSet(new), Finish(c, new)
    PROVE  \E rel, rep : Finished(c, new, rest, rel, rep)
  <1> DEFINE after == HeldBy(c.p, c.picker, rest, pinned)
             fresh == {a \in AddrOf(new) : entry[a] = "NONE"}
             subs == [a \in Addr |-> IF a \in fresh THEN "IDLE" ELSE sub[a]]
  <1>1. /\ pf' = c.p /\ picker' = c.picker /\ pinned' = pinned /\ resolved' = resolved
        /\ entry' = [a \in Addr |-> IF a \in fresh THEN "IDLE" ELSE entry[a]]
        /\ sub' = ConnectedBy(c.connects, subs)
        /\ queue' = rest \o Releases(Held \cup new, after) \o Reports(c.connects, subs)
        /\ asked' = (asked \/ c.resolve) /\ panicked' = c.panic
    BY Zenon DEF Finish
  <1>2. subs = SubsWith(new) /\ entry' = EntriesWith(new)
    <2>1. \A a : a \in fresh <=> a \in AddrOf(new) /\ entry[a] = "NONE"
      OBVIOUS
    <2> HIDE DEF fresh
    <2> QED BY <1>1, <2>1 DEF SubsWith, EntriesWith
  <1>3. queue \in Seq(WorkItem) /\ rest \in Seq(WorkItem)
    <2>1. queue \in Seq(WorkItem)
      BY DEF TypeOK
    <2> QED BY <2>1, HeadTailProperties
  <1>4. (Held \cup new) \in SUBSET Ext /\ IsFiniteSet(Held \cup new)
    BY HeldSound, FS_Union
  <1>5. c.connects \in Seq(Addr)
    BY DEF Calls
  <1> HIDE DEF after, subs
  <1>6. PICK rel \in Seq(WorkItem) :
            /\ rel = Releases(Held \cup new, after)
            /\ \A a : Has(rel, ReleaseOf(a)) <=> a \in AddrOf((Held \cup new) \ after)
            /\ \A i \in DOMAIN rel : rel[i].kind = "released"
    BY <1>4, ReleasesSound
  <1>7. PICK rep \in Seq(WorkItem) :
            /\ rep = Reports(c.connects, subs)
            /\ \A a : Has(rep, IntOf(a)) <=> a \in Range(c.connects) /\ subs[a] = "IDLE"
            /\ \A a : LastIs(rep, IntOf(a), "CONNECTING")
            /\ \A i \in DOMAIN rep : rep[i].kind = "internal"
    BY <1>5, ReportsSound
  <1>8. Extended(rest, rel, rep, queue')
    BY <1>1, <1>3, <1>6, <1>7, ExtendSound
  <1>9. Held' = after
    <2>1. InQueue(queue') = InQueue(rest)
      BY <1>8 DEF Extended
    <2> QED BY <1>1, <2>1 DEF Held, HeldBy, after
  <1>10. sub' = ConnectedBy(c.connects, SubsWith(new))
    BY <1>1, <1>2
  <1>11. \A a : Has(rel, ReleaseOf(a)) <=> a \in AddrOf((Held \cup new) \ Held')
    BY <1>6, <1>9
  <1>12. \A a : Has(rep, IntOf(a)) <=> a \in Range(c.connects) /\ SubsWith(new)[a] = "IDLE"
    BY <1>2, <1>7
  <1>13. Held' = HeldBy(c.p, c.picker, rest, pinned)
    BY <1>9 DEF after
  <1>15. queue' = rest \o rel \o rep /\ rep = Reports(c.connects, SubsWith(new))
    BY <1>1, <1>2, <1>6, <1>7
  <1>14. Finished(c, new, rest, rel, rep)
    BY <1>1, <1>2, <1>6, <1>7, <1>8, <1>10, <1>11, <1>12, <1>13, <1>15, Zenon DEF Finished
  <1> QED BY <1>14

\* The sharing layer's side of what a step that ends with call c keeps.
LEMMA FinishShares ==
    ASSUME TypeOK, Sharing, queue # <<>>, Head(queue).kind \in {"ext", "work", "resolver"},
           NEW rest, rest = Tail(queue), NEW rel, NEW rep,
           NEW c, NEW new \in SUBSET Ext,
           NEW R, Base(c, Held \cup new, R), Finished(c, new, rest, rel, rep)
    PROVE  Sharing' /\ Held' \subseteq Held \cup new
  <1> DEFINE H == Held \cup new
             en == EntriesWith(new)
             subs == SubsWith(new)
  <1>1. /\ queue \in Seq(WorkItem) /\ entry \in [Addr -> States \cup {"NONE"}]
        /\ sub \in [Addr -> States]
    BY DEF TypeOK
  <1>2. rest \in Seq(WorkItem) /\ Head(queue) \in WorkItem /\ \A K : Beheaded(queue, rest, K)
    BY <1>1, TailSound
  <1>3. Kinds(Head(queue))
    BY <1>2, KindSound
  <1>4. \A a : /\ Head(queue) \notin IntOf(a) /\ Head(queue) \notin ReleaseOf(a)
    BY <1>3 DEF Kinds
  <1>5. \A a : /\ Has(rest, IntOf(a)) <=> Has(queue, IntOf(a))
               /\ Has(rest, ReleaseOf(a)) <=> Has(queue, ReleaseOf(a))
               /\ Has(rest, ExtOf(a)) => Has(queue, ExtOf(a))
               /\ \A s : LastIs(queue, IntOf(a), s) => LastIs(rest, IntOf(a), s)
               /\ \A s : LastIs(queue, ExtOf(a), s) => LastIs(rest, ExtOf(a), s)
    BY <1>2, <1>4 DEF Beheaded
  <1>6. InQueue(rest) \subseteq InQueue(queue)
    BY <1>1, <1>2, InQueueSound DEF Beheaded
  <1>7. Held' \subseteq H
    <2>1. Exts(c.p.list) \subseteq H /\ c.p.sel \subseteq H /\ c.picker.ext \subseteq H
      BY DEF Base
    <2>2. Held' = HeldBy(c.p, c.picker, rest, pinned)
      BY DEF Finished
    <2> QED BY <1>6, <2>1, <2>2 DEF HeldBy, Held
  <1>8. \A e \in H : e \in Ext /\ e.addr \in Addr
    BY HeldSound DEF Ext
  <1>9. \A a \in Addr : en[a] = IF a \in AddrOf(new) /\ entry[a] = "NONE" THEN "IDLE" ELSE entry[a]
    BY DEF EntriesWith
  <1>10. \A a \in Addr : subs[a] = IF a \in AddrOf(new) /\ entry[a] = "NONE" THEN "IDLE" ELSE sub[a]
    BY DEF SubsWith
  <1>11. \A a \in Addr : entry[a] # "NONE" => en[a] = entry[a] /\ subs[a] = sub[a]
    BY <1>9, <1>10
  <1>12. \A e \in H : en[e.addr] # "NONE"
    <2>1. \A e \in Held : en[e.addr] # "NONE"
      BY <1>8, <1>11 DEF Sharing, Backed
    <2>2. \A e \in new : en[e.addr] # "NONE"
      BY <1>8, <1>9 DEF AddrOf
    <2> QED BY <2>1, <2>2
  <1>13. /\ entry' = en /\ sub' = ConnectedBy(c.connects, subs)
         /\ Extended(rest, rel, rep, queue')
         /\ \A a : Has(rel, ReleaseOf(a)) <=> a \in AddrOf(H \ Held')
         /\ \A a : Has(rep, IntOf(a)) <=> a \in Range(c.connects) /\ subs[a] = "IDLE"
         /\ \A a : LastIs(rep, IntOf(a), "CONNECTING")
    BY DEF Finished
  <1>14. \A a \in Range(c.connects) : en[a] # "NONE"
    <2>1. Range(c.connects) \subseteq AddrOf(Exts(c.p.list)) /\ Exts(c.p.list) \subseteq H
      BY DEF Base
    <2> QED BY <1>12, <2>1 DEF AddrOf
  <1> HIDE DEF en, subs, H
  <1>15. Backed'
    <2>1. \A e \in Held' : entry'[e.addr] # "NONE"
      BY <1>7, <1>12, <1>13
    <2>2. ASSUME NEW a \in Addr, Has(queue', IntOf(a)) \/ Has(queue', ReleaseOf(a))
          PROVE  entry'[a] # "NONE"
      <3>1. CASE Has(rest, IntOf(a)) \/ Has(rest, ReleaseOf(a))
        BY <1>5, <1>11, <1>13, <3>1 DEF Sharing, Backed
      <3>2. CASE Has(rel, ReleaseOf(a))
        BY <1>12, <1>13, <3>2 DEF AddrOf
      <3>3. CASE Has(rep, IntOf(a))
        BY <1>13, <1>14, <3>3
      <3> QED BY <1>13, <2>2, <3>1, <3>2, <3>3 DEF Extended
    <2> QED BY <2>1, <2>2 DEF Backed
  <1>16. Owned'
    <2> SUFFICES ASSUME NEW a \in Addr, entry'[a] # "NONE", ~Has(queue', ReleaseOf(a))
                 PROVE  a \in AddrOf(Held')
      BY DEF Owned
    <2>1. ~Has(rest, ReleaseOf(a)) /\ a \notin AddrOf(H \ Held')
      BY <1>13 DEF Extended
    <2>2. a \in AddrOf(H)
      <3>1. CASE entry[a] # "NONE"
        BY <1>5, <2>1, <3>1 DEF Sharing, Owned, AddrOf, H
      <3>2. CASE entry[a] = "NONE"
        BY <1>9, <1>13, <3>2 DEF AddrOf, H
      <3> QED BY <3>1, <3>2
    <2> QED BY <2>1, <2>2 DEF AddrOf
  <1>17. Reported'
    <2> SUFFICES ASSUME NEW a \in Addr, entry'[a] # "NONE"
                 PROVE  /\ ~Has(queue', IntOf(a)) => entry'[a] = sub'[a]
                        /\ LastIs(queue', IntOf(a), sub'[a])
      BY DEF Reported
    <2>1. /\ ~Has(rest, IntOf(a)) => en[a] = subs[a]
          /\ LastIs(rest, IntOf(a), subs[a])
      <3>1. CASE entry[a] # "NONE"
        BY <1>5, <1>11, <3>1 DEF Sharing, Reported
      <3>2. CASE entry[a] = "NONE"
        <4>1. ~Has(rest, IntOf(a))
          BY <1>5, <3>2 DEF Sharing, Backed
        <4>2. en[a] = subs[a]
          BY <1>9, <1>10, <1>13, <3>2
        <4> QED BY <4>1, <4>2 DEF LastIs, Has
      <3> QED BY <3>1, <3>2
    <2>2. sub'[a] = IF a \in Range(c.connects) /\ subs[a] = "IDLE" THEN "CONNECTING" ELSE subs[a]
      BY <1>13 DEF ConnectedBy
    <2>3. CASE Has(rep, IntOf(a))
      <3>1. sub'[a] = "CONNECTING" /\ LastIs(rep, IntOf(a), "CONNECTING") /\ Has(queue', IntOf(a))
        BY <1>13, <2>2, <2>3 DEF Extended
      <3> QED BY <1>13, <2>3, <3>1 DEF Extended
    <2>4. CASE ~Has(rep, IntOf(a))
      <3>1. sub'[a] = subs[a] /\ LastIs(rep, IntOf(a), subs[a])
        BY <1>13, <2>2, <2>4 DEF LastIs, Has
      <3> QED BY <1>13, <2>1, <2>4, <3>1 DEF Extended
    <2> QED BY <2>3, <2>4
  <1>18. Delivered'
    <2> SUFFICES ASSUME NEW a \in Addr PROVE LastIs(queue', ExtOf(a), entry'[a])
      BY DEF Delivered
    <2>1. LastIs(rest, ExtOf(a), en[a])
      <3>1. CASE entry[a] # "NONE"
        BY <1>5, <1>11, <3>1 DEF Sharing, Delivered
      <3>2. CASE entry[a] = "NONE"
        <4>1. a \notin AddrOf(Held)
          BY <3>2 DEF Sharing, Backed, AddrOf
        <4>2. ~Has(rest, ExtOf(a))
          BY <1>1, <1>5, <4>1, InQueueSound DEF Held, HeldBy, AddrOf
        <4> QED BY <4>2 DEF LastIs, Has
      <3> QED BY <3>1, <3>2
    <2> QED BY <1>13, <2>1 DEF Extended
  <1> QED BY <1>7, <1>15, <1>16, <1>17, <1>18 DEF Sharing, H

\* A step that ends with a good call keeps the invariant.
LEMMA FinishKeeps ==
    ASSUME IInv, queue # <<>>, Head(queue).kind \in {"ext", "work", "resolver"},
           NEW rest, rest = Tail(queue), NEW c, NEW new \in SUBSET Ext, IsFiniteSet(new),
           NEW R, R = MaybeReady(rest, EntriesWith(new)),
           NEW X, X = (asked \/ Has(rest, Result)),
           Good(c, Held \cup new, R, X), Finish(c, new)
    PROVE  IInv'
  <1>1. TypeOK /\ Sharing /\ c \in Calls /\ Base(c, Held \cup new, R)
    BY DEF IInv, Good, Base
  <1>2. PICK rel, rep : Finished(c, new, rest, rel, rep)
    BY <1>1, FinishSound
  <1>3. Sharing' /\ Held' \subseteq Held \cup new
    BY <1>1, <1>2, FinishShares
  <1>4. /\ pf' = c.p /\ picker' = c.picker /\ pinned' = pinned /\ resolved' = resolved
        /\ entry' = EntriesWith(new) /\ sub' = ConnectedBy(c.connects, SubsWith(new))
        /\ Extended(rest, rel, rep, queue')
        /\ asked' = (asked \/ c.resolve) /\ panicked' = c.panic
    BY <1>2 DEF Finished
  <1>5. queue' \in Seq(WorkItem)
    BY <1>4 DEF Extended
  <1>6. TypeOK'
    <2>1. /\ c.p \in Policy /\ c.picker \in Pickers /\ Distinct(c.p.list)
          /\ c.panic \in BOOLEAN
      BY <1>1 DEF Calls, Base
    <2>2. entry' \in [Addr -> States \cup {"NONE"}] /\ sub' \in [Addr -> States]
      <3>1. entry \in [Addr -> States \cup {"NONE"}] /\ sub \in [Addr -> States]
        BY <1>1 DEF TypeOK
      <3>2. EntriesWith(new) \in [Addr -> States \cup {"NONE"}]
        BY <3>1 DEF EntriesWith, States
      <3>3. SubsWith(new) \in [Addr -> States]
        BY <3>1 DEF SubsWith, States
      <3>4. ConnectedBy(c.connects, SubsWith(new)) \in [Addr -> States]
        BY <3>3 DEF ConnectedBy, States
      <3> QED BY <1>4, <3>2, <3>4
    <2>3. pinned' \in MaybeExt /\ resolved' \in 0 .. MaxResolver
      BY <1>1, <1>4 DEF TypeOK
    <2>4. asked' \in BOOLEAN /\ reused' \in BOOLEAN
      <3>1. reused' = (reused \/ \E a \in AddrOf(new) : entry[a] # "NONE")
        BY Zenon DEF Finish
      <3> QED BY <1>4, <3>1
    <2> QED BY <1>4, <1>5, <2>1, <2>2, <2>3, <2>4 DEF TypeOK
  <1>7. MaybeReady(queue', entry') = R
    BY <1>4 DEF MaybeReady, Extended
  <1>8. ReadyKnown'
    <2>1. \A e \in Exts(c.p.list) : c.p.cache[e.addr] = "READY" => e.addr \in R
      BY <1>1 DEF Base
    <2>2. \A e \in c.p.sel : e.addr \in R
      BY <1>1 DEF Base
    <2> QED BY <1>4, <1>7, <2>1, <2>2 DEF ReadyKnown
  <1>9. Offered'
    BY <1>4 DEF Good, Shown, Offered
  <1>10. AsksAgain'
    <2>1. Has(queue', Result) <=> Has(rest, Result)
      BY <1>4 DEF Extended
    <2>2. (\E i \in DOMAIN queue' : queue'[i].kind = "resolver") <=> Has(queue', Result)
      BY <1>5, ResultSound
    <2>3. ASSUME c.p.conn = "TRANSIENT_FAILURE", c.p.sel = {}, ~c.panic
          PROVE  asked' \/ Has(queue', Result)
      BY <1>4, <2>1, <2>3 DEF Good, Asks
    <2> QED BY <1>4, <2>2, <2>3 DEF AsksAgain
  <1> QED BY <1>3, <1>6, <1>8, <1>9, <1>10 DEF IInv

\* The call that starts with the policy as it is, or with the timer and the steady
\* state reset.
LEMMA CallGood ==
    ASSUME IInv, ~panicked, NEW p \in Policy,
           p.list = pf.list, p.sel = pf.sel, p.cache = pf.cache, p.conn = pf.conn,
           NEW c, c = Call(p), NEW X, X = (asked \/ Has(queue, Result))
    PROVE  /\ Good(c, Held, MaybeReady(queue, entry), X)
           /\ c \in Calls /\ c.p = p /\ c.picker = picker
           /\ c.panic = FALSE /\ c.connects = <<>> /\ c.resolve = FALSE
  <1>1. c = [p |-> p, picker |-> picker, connects |-> <<>>, resolve |-> FALSE, panic |-> FALSE]
    BY DEF Call
  <1>2. picker \in Pickers /\ pf \in Policy /\ Distinct(pf.list) /\ queue \in Seq(WorkItem)
    BY DEF IInv, TypeOK
  <1>3. <<>> \in Seq(Addr)
    OBVIOUS
  <1>4. c \in Calls
    BY <1>1, <1>2, <1>3 DEF Calls
  <1>5. /\ c.p = p /\ c.picker = picker /\ c.panic = FALSE /\ c.connects = <<>>
        /\ c.resolve = FALSE
    BY <1>1
  <1>6. IsInjective(<<>>) /\ Range(<<>>) = {}
    BY DEF IsInjective, Range
  <1>7. Exts(pf.list) \subseteq Held /\ pf.sel \subseteq Held /\ picker.ext \subseteq Held
    BY DEF Held, HeldBy
  <1>8. ReadyKnown /\ Offered /\ AsksAgain
    BY DEF IInv
  <1>9. Base(c, Held, MaybeReady(queue, entry))
    BY <1>2, <1>4, <1>5, <1>6, <1>7, <1>8 DEF Base, ReadyKnown
  <1>10. Shown(c)
    BY <1>5, <1>8 DEF Shown, Offered
  <1>11. Asks(c, X)
    BY <1>2, <1>5, <1>8, ResultSound DEF Asks, AsksAgain
  <1> QED BY <1>4, <1>5, <1>9, <1>10, <1>11 DEF Good

\* No SharedSubchannel is new: nothing changes.
LEMMA NothingNew ==
    ASSUME TypeOK
    PROVE  EntriesWith({}) = entry /\ SubsWith({}) = sub /\ Held \cup {} = Held /\ IsFiniteSet({})
  <1>1. entry \in [Addr -> States \cup {"NONE"}] /\ sub \in [Addr -> States]
    BY DEF TypeOK
  <1>2. AddrOf({}) = {}
    BY DEF AddrOf
  <1> QED BY <1>1, <1>2, FS_EmptySet DEF EntriesWith, SubsWith

\* A step that ends with a good call and made no SharedSubchannel.
LEMMA FinishOldKeeps ==
    ASSUME IInv, queue # <<>>, Head(queue).kind \in {"ext", "work", "resolver"},
           NEW rest, rest = Tail(queue), NEW c,
           NEW R, R = MaybeReady(rest, entry),
           NEW X, X = (asked \/ Has(rest, Result)),
           Good(c, Held, R, X), Finish(c, {})
    PROVE  IInv'
  <1>1. TypeOK
    BY DEF IInv
  <1>2. PICK new \in SUBSET Ext : new = {}
    OBVIOUS
  <1>3. /\ IsFiniteSet(new) /\ R = MaybeReady(rest, EntriesWith(new))
        /\ Good(c, Held \cup new, R, X) /\ Finish(c, new)
    BY <1>1, <1>2, NothingNew
  <1> QED BY <1>2, <1>3, FinishKeeps

\* work with a subchannel update ends with a good call.
LEMMA HandleUpdateGood ==
    ASSUME IInv, HandleUpdate, NEW rest, rest = Tail(queue), NEW w, w = Head(queue),
           NEW c, c = Call(pf), NEW d, d = SubchannelUpdate(c, w.ext, w.state),
           NEW R, R = MaybeReady(rest, entry), NEW X, X = (asked \/ Has(rest, Result))
    PROVE  Good(d, Held, R, X) /\ Finish(d, {}) /\ queue # <<>> /\ w.kind = "ext"
  <1>3. ~panicked /\ queue # <<>> /\ w.kind = "ext" /\ TypeOK /\ pf \in Policy
        /\ queue \in Seq(WorkItem)
    BY DEF HandleUpdate, HeadIs, IInv, TypeOK
  <1>4. w \in WorkItem /\ rest \in Seq(WorkItem) /\ \A K : Beheaded(queue, rest, K)
    BY <1>3, TailSound
  <1>5. w.ext \in Ext /\ w.state \in States /\ w.ext.addr \in Addr
        /\ w \in UpdateOf(w.ext) /\ w \in ExtOf(w.ext.addr) /\ w \notin Result
    BY <1>3, <1>4, KindSound DEF Kinds
  <1>12. \A a : w \in ExtOf(a) => a = w.ext.addr
    BY DEF ExtOf
  <1>10. /\ Good(c, Held, MaybeReady(queue, entry), X)
         /\ c.panic = FALSE /\ c.connects = <<>>
    <2>1. X = (asked \/ Has(queue, Result))
      BY <1>4, <1>5 DEF Beheaded
    <2> QED BY <1>3, <2>1, CallGood
  <1>11. MaybeReady(queue, entry) \subseteq R \cup {w.ext.addr}
    BY <1>4, <1>5, <1>12 DEF MaybeReady, Beheaded
  <1>13. Good(c, Held, R \cup {w.ext.addr}, X)
    <2>1. Base(c, Held, R \cup {w.ext.addr})
      BY <1>10, <1>11 DEF Good, Base
    <2> QED BY <1>10, <2>1 DEF Good
  <1>14. w.ext \in Held
    <2>1. Has(queue, UpdateOf(w.ext))
      BY <1>4, <1>5 DEF Beheaded
    <2> QED BY <1>3, <2>1, InQueueSound DEF Held, HeldBy
  <1>15. w.state = "READY" => w.ext.addr \in R
    <2>1. LastIs(queue, ExtOf(w.ext.addr), entry[w.ext.addr])
      BY <1>5 DEF IInv, Sharing, Delivered
    <2>2. ~Has(rest, ExtOf(w.ext.addr)) => w.state = entry[w.ext.addr]
      BY <1>4, <1>5, <2>1 DEF Beheaded
    <2> QED BY <1>5, <2>2 DEF MaybeReady
  <1>16. Good(d, Held, R, X)
    <2>1. PICK e \in Ext : e = w.ext
      BY <1>5
    <2>2. PICK s \in States : s = w.state
      BY <1>5
    <2> QED BY <1>10, <1>13, <1>14, <1>15, <2>1, <2>2, SubchannelUpdateGood
  <1>18. Finish(d, {})
    BY DEF HandleUpdate
  <1> QED BY <1>3, <1>16, <1>18

\* work with a subchannel update keeps the invariant.
LEMMA HandleUpdateKeeps ==
    ASSUME IInv, HandleUpdate
    PROVE  IInv'
  <1>1. PICK rest, w : rest = Tail(queue) /\ w = Head(queue)
    OBVIOUS
  <1>2. PICK c : c = Call(pf)
    OBVIOUS
  <1>3. PICK d : d = SubchannelUpdate(c, w.ext, w.state)
    OBVIOUS
  <1>4. PICK R, X : R = MaybeReady(rest, entry) /\ X = (asked \/ Has(rest, Result))
    OBVIOUS
  <1>5. Good(d, Held, R, X) /\ Finish(d, {}) /\ queue # <<>> /\ w.kind = "ext"
    BY <1>1, <1>2, <1>3, <1>4, HandleUpdateGood
  <1> QED BY <1>1, <1>4, <1>5, FinishOldKeeps

\* work without data ends with a good call.
LEMMA HandleWorkGood ==
    ASSUME IInv, HandleWork, NEW rest, rest = Tail(queue), NEW w, w = Head(queue),
           NEW c, c = Call(pf), NEW d, d = WorkNone(c),
           NEW R, R = MaybeReady(rest, entry), NEW X, X = (asked \/ Has(rest, Result))
    PROVE  Good(d, Held, R, X) /\ Finish(d, {}) /\ queue # <<>> /\ w.kind = "work"
  <1>1. ~panicked /\ queue # <<>> /\ w.kind = "work" /\ TypeOK /\ pf \in Policy
        /\ queue \in Seq(WorkItem)
    BY DEF HandleWork, HeadIs, IInv, TypeOK
  <1>2. w \in WorkItem /\ rest \in Seq(WorkItem) /\ \A K : Beheaded(queue, rest, K)
    BY <1>1, TailSound
  <1>3. (\A a : w \notin ExtOf(a)) /\ w \notin Result
    BY <1>1 DEF ExtOf, Result
  <1>4. MaybeReady(queue, entry) = R
    BY <1>2, <1>3 DEF MaybeReady, Beheaded
  <1>5. X = (asked \/ Has(queue, Result))
    BY <1>2, <1>3 DEF Beheaded
  <1>6. Good(c, Held, R, X) /\ c.panic = FALSE /\ c.connects = <<>>
    BY <1>1, <1>4, <1>5, CallGood
  <1>7. Good(d, Held, R, X)
    BY <1>6, WorkNoneGood
  <1>8. Finish(d, {})
    BY DEF HandleWork
  <1> QED BY <1>1, <1>7, <1>8

\* work without data keeps the invariant.
LEMMA HandleWorkKeeps ==
    ASSUME IInv, HandleWork
    PROVE  IInv'
  <1>1. PICK rest, w : rest = Tail(queue) /\ w = Head(queue)
    OBVIOUS
  <1>2. PICK c : c = Call(pf)
    OBVIOUS
  <1>3. PICK d : d = WorkNone(c)
    OBVIOUS
  <1>4. PICK R, X : R = MaybeReady(rest, entry) /\ X = (asked \/ Has(rest, Result))
    OBVIOUS
  <1>5. Good(d, Held, R, X) /\ Finish(d, {}) /\ queue # <<>> /\ w.kind = "work"
    BY <1>1, <1>2, <1>3, <1>4, HandleWorkGood
  <1> QED BY <1>1, <1>4, <1>5, FinishOldKeeps

\* What the head of the queue being a resolver result means for the rest.
LEMMA ResolverHead ==
    ASSUME IInv, HeadIs("resolver"), NEW rest, rest = Tail(queue)
    PROVE  /\ ~panicked /\ queue # <<>> /\ Head(queue).kind = "resolver" /\ TypeOK /\ pf \in Policy
           /\ rest \in Seq(WorkItem)
           /\ MaybeReady(queue, entry) = MaybeReady(rest, entry)
  <1>1. ~panicked /\ queue # <<>> /\ Head(queue).kind = "resolver" /\ TypeOK /\ pf \in Policy
        /\ queue \in Seq(WorkItem)
    BY DEF HeadIs, IInv, TypeOK
  <1>2. rest \in Seq(WorkItem) /\ \A K : Beheaded(queue, rest, K)
    BY <1>1, TailSound
  <1>3. \A a : Head(queue) \notin ExtOf(a)
    BY <1>1 DEF ExtOf
  <1>4. MaybeReady(queue, entry) = MaybeReady(rest, entry)
    BY <1>2, <1>3 DEF MaybeReady, Beheaded
  <1> QED BY <1>1, <1>2, <1>4

\* The policy with the timer stopped and out of steady state, as resolver_update starts.
LEMMA ResetGood ==
    ASSUME IInv, ~panicked, NEW c, c = Call([pf EXCEPT !.timer = "none", !.steady = FALSE])
    PROVE  /\ Base(c, Held, MaybeReady(queue, entry)) /\ Shown(c)
           /\ c \in Calls /\ c.panic = FALSE /\ c.connects = <<>> /\ c.resolve = FALSE
           /\ c.p.list = pf.list /\ c.p.sel = pf.sel /\ c.p.cache = pf.cache
           /\ c.p.conn = pf.conn /\ c.p.err = pf.err /\ c.p.frontier = pf.frontier
           /\ c.p.timer = "none" /\ c.p.steady = FALSE /\ c.picker = picker
  <1>1. pf \in Policy
    BY DEF IInv, TypeOK
  <1>2. PICK p \in Policy : p = [pf EXCEPT !.timer = "none", !.steady = FALSE]
    BY <1>1 DEF Policy
  <1>3. /\ p.list = pf.list /\ p.sel = pf.sel /\ p.cache = pf.cache /\ p.conn = pf.conn
        /\ p.err = pf.err /\ p.timer = "none" /\ p.steady = FALSE /\ p.frontier = pf.frontier
    BY <1>1, <1>2 DEF Policy
  <1>4. PICK X : X = (asked \/ Has(queue, Result))
    OBVIOUS
  <1>5. /\ Good(c, Held, MaybeReady(queue, entry), X)
        /\ c \in Calls /\ c.p = p /\ c.picker = picker
        /\ c.panic = FALSE /\ c.connects = <<>> /\ c.resolve = FALSE
    BY <1>2, <1>3, <1>4, CallGood
  <1> QED BY <1>3, <1>5 DEF Good

\* resolver_update with an error ends with a good call.
LEMMA HandleResolverErrorGood ==
    ASSUME IInv, HandleResolverError, NEW rest, rest = Tail(queue),
           NEW c, c = Call([pf EXCEPT !.timer = "none", !.steady = FALSE]),
           NEW d, d = IF pf.list = <<>> \/ pf.conn = "TRANSIENT_FAILURE"
                      THEN SetTransientFailure(c, TRUE) ELSE c,
           NEW R, R = MaybeReady(rest, entry), NEW X
    PROVE  Good(d, Held, R, X) /\ Finish(d, {})
  <1>1. ~panicked /\ MaybeReady(queue, entry) = MaybeReady(rest, entry)
    BY ResolverHead DEF HandleResolverError
  <1>2. /\ Base(c, Held, R) /\ Shown(c) /\ c \in Calls
        /\ c.p.list = pf.list /\ c.p.sel = pf.sel /\ c.p.conn = pf.conn
    BY <1>1, ResetGood
  <1>3. Finish(d, {})
    BY Zenon DEF HandleResolverError
  <1>4. Good(d, Held, R, FALSE)
    <2>1. CASE pf.list = <<>> \/ pf.conn = "TRANSIENT_FAILURE"
      <3>1. d = SetTransientFailure(c, TRUE)
        BY <2>1
      <3>2. Failed(c, TRUE, d)
        BY <1>2, <3>1, SetTransientFailureSound
      <3> QED BY <1>2, <3>2, FailGood DEF Shown
    <2>2. CASE ~(pf.list = <<>> \/ pf.conn = "TRANSIENT_FAILURE")
      BY <1>2, <2>2 DEF Good, Asks
    <2> QED BY <2>1, <2>2
  <1>5. Good(d, Held, R, X)
    BY <1>4, GoodWeakens
  <1> QED BY <1>3, <1>5

\* resolver_update with an error keeps the invariant.
LEMMA HandleResolverErrorKeeps ==
    ASSUME IInv, HandleResolverError
    PROVE  IInv'
  <1>1. PICK rest : rest = Tail(queue)
    OBVIOUS
  <1>2. queue # <<>> /\ Head(queue).kind = "resolver"
    BY <1>1, ResolverHead DEF HandleResolverError
  <1>3. PICK c : c = Call([pf EXCEPT !.timer = "none", !.steady = FALSE])
    OBVIOUS
  <1>4. PICK d : d = IF pf.list = <<>> \/ pf.conn = "TRANSIENT_FAILURE"
                     THEN SetTransientFailure(c, TRUE) ELSE c
    OBVIOUS
  <1>5. PICK R, X : R = MaybeReady(rest, entry) /\ X = (asked \/ Has(rest, Result))
    OBVIOUS
  <1>6. Good(d, Held, R, X) /\ Finish(d, {})
    BY <1>1, <1>3, <1>4, <1>5, HandleResolverErrorGood
  <1> QED BY <1>1, <1>2, <1>5, <1>6, FinishOldKeeps

\* An empty list: nothing is listed or selected any more, and the policy fails.
LEMMA EmptyListGood ==
    ASSUME NEW c, NEW H, NEW R, Base(c, H, R), c.connects = <<>>,
           NEW d, d = SetTransientFailure([c EXCEPT !.p.list = <<>>, !.p.sel = {}], TRUE)
    PROVE  Good(d, H, R, FALSE)
  <1>1. c \in Calls /\ c.p \in Policy
    BY DEF Base, Calls
  <1>2. PICK b : b = [c EXCEPT !.p.list = <<>>, !.p.sel = {}]
    OBVIOUS
  <1>3. PICK np \in Policy : np = [c.p EXCEPT !.list = <<>>, !.sel = {}]
    <2>1. <<>> \in Seq(Ext) /\ {} \in MaybeExt
      BY DEF MaybeExt
    <2> QED BY <1>1, <2>1 DEF Policy
  <1>4. b = [c EXCEPT !.p = np]
    BY <1>1, <1>2, <1>3 DEF Calls, Policy
  <1>5. b \in Calls /\ b.p = np /\ b.picker = c.picker /\ b.connects = <<>>
    BY <1>1, <1>4 DEF Calls
  <1>6. np.list = <<>> /\ np.sel = {}
    BY <1>1, <1>3 DEF Policy
  <1>7. Exts(<<>>) = {} /\ Distinct(<<>>) /\ IsInjective(<<>>) /\ Range(<<>>) = {}
    BY DEF Exts, Distinct, IsInjective, Range
  <1>8. Base(b, H, R) /\ b.p.sel \subseteq Exts(b.p.list)
    BY <1>5, <1>6, <1>7 DEF Base
  <1>9. Failed(b, TRUE, d)
    BY <1>2, <1>5, SetTransientFailureSound
  <1> QED BY <1>8, <1>9, FailGood

\* d ends a resolver_update with the addresses addrs, which made the SharedSubchannels new.
Answered(c, addrs, rest, X, d, ids, new) ==
    /\ addrs \in Seq(Addr) /\ new \in SUBSET Ext /\ IsFiniteSet(new)
    /\ Good(d, Held \cup new, MaybeReady(rest, EntriesWith(new)), X) /\ Finish(d, new)
    /\ IF addrs = <<>>
       THEN /\ d = SetTransientFailure([c EXCEPT !.p.list = <<>>, !.p.sel = {}], TRUE)
            /\ new = {}
       ELSE /\ d = Rebuild(c, addrs, ids)
            /\ \A a \in Range(addrs) \ AddrOf(Exts(pf.list)) : [addr |-> a, id |-> ids[a]] \in new
            /\ \A e \in new : /\ e.addr \in Range(addrs) \ AddrOf(Exts(pf.list))
                             /\ e = [addr |-> e.addr, id |-> ids[e.addr]]

\* resolver_update with addresses ends with a good call.
LEMMA HandleAddressesGood ==
    ASSUME IInv, NEW raw \in AddrLists, HandleAddresses(raw), NEW rest, rest = Tail(queue),
           NEW c, c = Call([pf EXCEPT !.timer = "none", !.steady = FALSE]),
           NEW addrs, addrs = CompileAddress(raw), NEW X
    PROVE  \E d, ids, new : Answered(c, addrs, rest, X, d, ids, new)
  <1>2. /\ ~panicked /\ queue # <<>> /\ Head(queue).kind = "resolver" /\ TypeOK /\ pf \in Policy
        /\ MaybeReady(queue, entry) = MaybeReady(rest, entry)
    BY ResolverHead DEF HandleAddresses
  <1>5. /\ Base(c, Held, MaybeReady(rest, entry)) /\ Shown(c) /\ c \in Calls
        /\ c.connects = <<>> /\ c.p.list = pf.list
    BY <1>2, ResetGood
  <1>7. addrs \in Seq(Addr) /\ IsInjective(addrs) /\ Range(addrs) \in SUBSET Addr
        /\ IsFiniteSet(Range(addrs))
    <2>1. raw \in Seq(Addr)
      BY ListsAssumption
    <2>2. addrs \in Seq(Addr) /\ IsInjective(addrs)
      BY <2>1, CompileAddressSound
    <2> QED BY <2>2, RangeSound
  <1> DEFINE made == Range(addrs) \ AddrOf(Exts(pf.list))
             free(a) == {n \in ExtIds : [addr |-> a, id |-> n] \notin Held}
             ids == [a \in made |-> Min(free(a))]
             new == {[addr |-> a, id |-> ids[a]] : a \in made}
  <1>9. CASE addrs = <<>>
    <2>1. PICK d : d = SetTransientFailure([c EXCEPT !.p.list = <<>>, !.p.sel = {}], TRUE)
      OBVIOUS
    <2>2. Finish(d, {})
      BY <1>9, <2>1, Zenon DEF HandleAddresses
    <2>3. PICK R : R = MaybeReady(rest, entry)
      OBVIOUS
    <2>4. Good(d, Held, R, FALSE)
      BY <1>5, <2>1, <2>3, EmptyListGood
    <2>5. Good(d, Held, R, X)
      BY <2>4, GoodWeakens
    <2>6. /\ EntriesWith({}) = entry /\ Held \cup {} = Held /\ IsFiniteSet({})
      BY <1>2, NothingNew
    <2>7. Good(d, Held \cup {}, MaybeReady(rest, EntriesWith({})), X)
      BY <2>3, <2>5, <2>6
    <2>8. Answered(c, addrs, rest, X, d, <<>>, {})
      BY <1>7, <1>9, <2>1, <2>2, <2>6, <2>7, Zenon DEF Answered
    <2> QED BY <2>8
  <1>10. CASE addrs # <<>>
    <2>1. /\ \A a \in made : free(a) # {}
          /\ Finish(Rebuild(c, addrs, ids), new)
      BY <1>10, Zenon DEF HandleAddresses
    <2>2. \A a \in made : ids[a] \in ExtIds /\ [addr |-> a, id |-> ids[a]] \in Ext
      <3> SUFFICES ASSUME NEW a \in made
                   PROVE  ids[a] \in ExtIds /\ [addr |-> a, id |-> ids[a]] \in Ext
        OBVIOUS
      <3>1. free(a) \in SUBSET Nat /\ free(a) \subseteq ExtIds
        BY BoundsAssumption
      <3>2. Min(free(a)) \in free(a)
        <4>1. free(a) # {}
          BY <2>1
        <4> HIDE DEF free
        <4> QED BY <3>1, <4>1, MinSound
      <3>3. ids[a] \in ExtIds
        BY <3>1, <3>2
      <3>4. a \in Addr
        BY <1>7
      <3> QED BY <3>3, <3>4 DEF Ext
    <2> HIDE DEF ids
    <2>3. new \in SUBSET Ext
      BY <2>2
    <2>4. IsFiniteSet(new)
      <3>1. IsFiniteSet(made)
        BY <1>7, FS_Subset
      <3> DEFINE f == [a \in made |-> [addr |-> a, id |-> ids[a]]]
      <3>2. f \in Surjection(made, new)
        BY DEF Surjection
      <3> HIDE DEF f, made, new
      <3> QED BY <3>1, <3>2, FS_Surjection
    <2>5. PICK d : d = Rebuild(c, addrs, ids)
      OBVIOUS
    <2>6. PICK H : H = Held \cup new
      OBVIOUS
    <2>7. PICK R : R = MaybeReady(rest, EntriesWith(new))
      OBVIOUS
    <2>8. entry \in [Addr -> States \cup {"NONE"}]
      BY <1>2 DEF TypeOK
    <2>9. R = MaybeReady(rest, entry)
      <3> HIDE DEF new
      <3>1. \A a \in Addr : EntriesWith(new)[a] = "READY" <=> entry[a] = "READY"
        BY <2>8 DEF EntriesWith
      <3> QED BY <2>7, <3>1 DEF MaybeReady
    <2>10. Base(c, H, R)
      <3>1. Base(c, Held, R)
        BY <1>5, <2>9
      <3>2. Held \subseteq H
        BY <2>6
      <3> QED BY <3>1, <3>2 DEF Base
    <2>11. \A a \in Range(addrs) \ AddrOf(Exts(c.p.list)) :
               [addr |-> a, id |-> ids[a]] \in Ext /\ [addr |-> a, id |-> ids[a]] \in H
      BY <1>5, <2>2, <2>6
    <2>12. \A a \in Addr : entry[a] = "READY" => a \in R
      BY <2>9 DEF MaybeReady
    <2>13. Good(d, H, R, FALSE)
      BY <1>5, <1>7, <2>5, <2>8, <2>10, <2>11, <2>12, RebuildGood
    <2>14. Good(d, Held \cup new, R, X)
      BY <2>6, <2>13, GoodWeakens
    <2>15. Finish(d, new)
      BY <2>1, <2>5 DEF ids
    <2>16. /\ \A a \in made : [addr |-> a, id |-> ids[a]] \in new
           /\ \A e \in new : e.addr \in made /\ e = [addr |-> e.addr, id |-> ids[e.addr]]
      OBVIOUS
    <2> HIDE DEF new
    <2>17. Good(d, Held \cup new, MaybeReady(rest, EntriesWith(new)), X)
      BY <2>7, <2>14
    <2>18. Answered(c, addrs, rest, X, d, ids, new)
      BY <1>7, <1>10, <2>3, <2>4, <2>5, <2>15, <2>16, <2>17, Zenon DEF Answered
    <2> QED BY <2>18
  <1> QED BY <1>9, <1>10

\* resolver_update with addresses keeps the invariant.
LEMMA HandleAddressesKeeps ==
    ASSUME IInv, NEW raw \in AddrLists, HandleAddresses(raw)
    PROVE  IInv'
  <1>1. PICK rest : rest = Tail(queue)
    OBVIOUS
  <1>2. queue # <<>> /\ Head(queue).kind = "resolver"
    BY <1>1, ResolverHead DEF HandleAddresses
  <1>3. PICK c : c = Call([pf EXCEPT !.timer = "none", !.steady = FALSE])
    OBVIOUS
  <1>4. PICK addrs : addrs = CompileAddress(raw)
    OBVIOUS
  <1>5. PICK X : X = (asked \/ Has(rest, Result))
    OBVIOUS
  <1>6. PICK d, ids, new : Answered(c, addrs, rest, X, d, ids, new)
    BY <1>1, <1>3, <1>4, HandleAddressesGood
  <1>7. PICK R : R = MaybeReady(rest, EntriesWith(new))
    OBVIOUS
  <1>8. /\ new \in SUBSET Ext /\ IsFiniteSet(new)
        /\ Good(d, Held \cup new, R, X) /\ Finish(d, new)
    BY <1>6, <1>7, Zenon DEF Answered
  <1> QED BY <1>1, <1>2, <1>5, <1>7, <1>8, FinishKeeps

\* The policy's side of the invariant, when the policy has not moved.
LEMMA PolicyRests ==
    ASSUME IInv, TypeOK', Sharing',
           pf'.list = pf.list, pf'.sel = pf.sel, pf'.cache = pf.cache, pf'.conn = pf.conn,
           picker'.state = picker.state, picker'.ext = picker.ext, panicked' = panicked,
           \A e \in Held : e.addr \in MaybeReady(queue, entry) => e.addr \in MaybeReady(queue', entry'),
           asked \/ Has(queue, Result) => asked' \/ Has(queue', Result)
    PROVE  IInv'
  <1>1. ReadyKnown /\ Offered /\ AsksAgain /\ queue \in Seq(WorkItem) /\ queue' \in Seq(WorkItem)
    BY DEF IInv, TypeOK
  <1>2. Exts(pf.list) \subseteq Held /\ pf.sel \subseteq Held
    BY DEF Held, HeldBy
  <1>3. ReadyKnown'
    BY <1>1, <1>2 DEF ReadyKnown
  <1>4. Offered'
    BY <1>1 DEF Offered
  <1>5. /\ (\E i \in DOMAIN queue : queue[i].kind = "resolver") <=> Has(queue, Result)
        /\ (\E i \in DOMAIN queue' : queue'[i].kind = "resolver") <=> Has(queue', Result)
    BY <1>1, ResultSound
  <1>6. AsksAgain'
    BY <1>1, <1>5 DEF AsksAgain
  <1> QED BY <1>3, <1>4, <1>6 DEF IInv

\* deliver_subchannel_update: t holds one update for each SharedSubchannel of a.
Sends(a, s, rest, t) ==
    /\ rest \in Seq(WorkItem) /\ t \in Seq(WorkItem) /\ queue' = rest \o t
    /\ entry' = [entry EXCEPT ![a] = s]
    /\ Head(queue) \in IntOf(a) /\ Head(queue).state = s /\ Head(queue).kind = "internal"
    /\ \A i \in DOMAIN t : /\ t[i] \in WorkItem /\ t[i].kind = "ext" /\ t[i].state = s
                           /\ t[i].ext \in Held /\ t[i].ext.addr = a
    /\ \A i, j \in DOMAIN t : t[i].ext = t[j].ext => i = j
    /\ \A e \in Held : e.addr = a => \E i \in DOMAIN t : t[i].ext = e

\* What deliver_subchannel_update appends to the queue.
LEMMA DeliverSound ==
    ASSUME IInv, DeliverInternal, NEW rest, rest = Tail(queue)
    PROVE  \E a \in Addr, s \in States, t \in Seq(WorkItem) : Sends(a, s, rest, t)
  <1>2. PICK w : w = Head(queue)
    OBVIOUS
  <1>3. queue # <<>> /\ w.kind = "internal" /\ TypeOK /\ queue \in Seq(WorkItem)
    BY <1>2 DEF DeliverInternal, HeadIs, IInv, TypeOK
  <1>4. w \in WorkItem /\ rest \in Seq(WorkItem)
    BY <1>2, <1>3, TailSound
  <1>5. PICK a \in Addr, s \in States : a = w.addr /\ s = w.state /\ w \in IntOf(a)
    BY <1>3, <1>4, KindSound DEF Kinds
  <1> DEFINE mine == {e \in Held : e.addr = a}
             live == SetToSeq(mine)
             t == [i \in DOMAIN live |-> [kind |-> "ext", ext |-> live[i], state |-> s]]
  <1>7. entry' = [entry EXCEPT ![a] = s] /\ queue' = rest \o t
    BY <1>2, <1>5, Zenon DEF DeliverInternal
  <1>8. mine \in SUBSET Ext /\ IsFiniteSet(mine)
    BY <1>3, HeldSound, FS_Subset
  <1>9. PICK n \in Nat : /\ DOMAIN live = 1 .. n /\ \A i \in 1 .. n : live[i] \in mine
                         /\ \A e \in mine : \E i \in 1 .. n : live[i] = e
                         /\ \A i, j \in 1 .. n : live[i] = live[j] => i = j
    <2> HIDE DEF mine
    <2>1. /\ Cardinality(mine) \in Nat /\ live \in [1 .. Cardinality(mine) -> mine]
          /\ \A e \in mine : \E i \in 1 .. Cardinality(mine) : live[i] = e
          /\ IsInjective(live)
      BY <1>8, SetToSeqSound
    <2> HIDE DEF live
    <2> QED BY <2>1 DEF IsInjective
  <1> HIDE DEF live
  <1>10. ASSUME NEW i \in 1 .. n
         PROVE  t[i] \in WorkItem /\ t[i].kind = "ext" /\ t[i].ext = live[i] /\ t[i].state = s
    <2>1. PICK e \in Ext : e = live[i]
      BY <1>8, <1>9
    <2>2. PICK v : v = [kind |-> "ext", ext |-> e, state |-> s]
      OBVIOUS
    <2>3. v \in WorkItem /\ v.kind = "ext" /\ v.ext = e /\ v.state = s
      BY <2>2 DEF WorkItem
    <2>4. t[i] = v
      BY <1>9, <2>1, <2>2
    <2> QED BY <2>1, <2>3, <2>4
  <1>11. DOMAIN t = 1 .. n
    BY <1>9
  <1>12. t \in Seq(WorkItem)
    <2>1. t \in [1 .. n -> WorkItem]
      BY <1>9, <1>10
    <2> HIDE DEF t
    <2> QED BY <2>1, SeqDef
  <1> HIDE DEF t
  <1>13. \A i \in DOMAIN t : t[i].ext \in Held /\ t[i].ext.addr = a
    BY <1>9, <1>10, <1>11
  <1>14. /\ \A i, j \in DOMAIN t : t[i].ext = t[j].ext => i = j
         /\ \A e \in Held : e.addr = a => \E i \in DOMAIN t : t[i].ext = e
    BY <1>9, <1>10, <1>11
  <1>15. \A i \in DOMAIN t : t[i] \in WorkItem /\ t[i].kind = "ext" /\ t[i].state = s
    BY <1>10, <1>11
  <1>16. Sends(a, s, rest, t)
    BY <1>2, <1>3, <1>4, <1>5, <1>7, <1>12, <1>13, <1>14, <1>15 DEF Sends
  <1> QED BY <1>12, <1>16

\* deliver_subchannel_update keeps the invariant.
LEMMA DeliverInternalKeeps ==
    ASSUME IInv, DeliverInternal
    PROVE  IInv'
  <1>1. PICK rest : rest = Tail(queue)
    OBVIOUS
  <1>2. PICK w : w = Head(queue)
    OBVIOUS
  <1>3. /\ queue # <<>> /\ TypeOK /\ Sharing /\ queue \in Seq(WorkItem)
        /\ entry \in [Addr -> States \cup {"NONE"}] /\ sub \in [Addr -> States]
        /\ UNCHANGED <<pf, picker, sub, pinned, resolved, asked, panicked, reused>>
    BY <1>2 DEF DeliverInternal, HeadIs, IInv, TypeOK
  <1>4. rest \in Seq(WorkItem) /\ \A K : Beheaded(queue, rest, K)
    BY <1>1, <1>2, <1>3, TailSound
  <1>5. PICK a \in Addr, s \in States, t \in Seq(WorkItem) : Sends(a, s, rest, t)
    BY <1>1, DeliverSound
  <1>6. \A b : /\ w \notin ExtOf(b) /\ w \notin UpdateOf(b) /\ w \notin ReleaseOf(b)
               /\ w \notin Result /\ (w \in IntOf(b) => b = a) /\ w \in IntOf(a) /\ w.state = s
    BY <1>2, <1>5 DEF ExtOf, UpdateOf, ReleaseOf, Result, IntOf, Sends
  <1> DEFINE mine == {e \in Held : e.addr = a}
  <1>7. entry' = [entry EXCEPT ![a] = s] /\ queue' = rest \o t
    BY <1>5 DEF Sends
  <1>9. /\ \A i \in DOMAIN t : t[i].ext \in mine
        /\ \A e \in mine : \E i \in DOMAIN t : t[i].ext = e
    BY <1>5 DEF Sends
  <1>10. \A i \in DOMAIN t : t[i] \in WorkItem /\ t[i].kind = "ext" /\ t[i].state = s
    BY <1>5 DEF Sends
  <1>12. t \in Seq(WorkItem)
    BY <1>5 DEF Sends
  <1>13. \A i \in DOMAIN t : Kinds(t[i])
    BY <1>10, KindSound
  <1>14. /\ \A b : ~Has(t, IntOf(b)) /\ ~Has(t, ReleaseOf(b))
         /\ ~Has(t, Result)
    BY <1>10, <1>13 DEF Has, Kinds
  <1>15. \A e : Has(t, UpdateOf(e)) <=> e \in mine
    <2> HIDE DEF mine
    <2> QED BY <1>9, <1>10, <1>13 DEF Has, Kinds
  <1>16. \A b : Has(t, ExtOf(b)) <=> b = a /\ mine # {}
    BY <1>9, <1>10, <1>13 DEF Has, Kinds
  <1>17. \A b : LastIs(t, ExtOf(b), s)
    BY <1>10 DEF LastIs
  <1>18. \A K : ~Has(t, K) => \A x : LastIs(t, K, x)
    BY DEF Has, LastIs
  <1>19. queue' \in Seq(WorkItem) /\ \A K : Joined(rest, t, queue', K)
    BY <1>4, <1>7, <1>12, JoinSound
  <1>20. Held' = Held
    <2>1. \A e : e \in InQueue(queue') <=> e \in InQueue(queue) \/ e \in mine
      BY <1>2, <1>3, <1>4, <1>6, <1>15, <1>19, InQueueSound DEF Beheaded, Joined
    <2>2. Held' = Exts(pf.list) \cup pf.sel \cup picker.ext \cup InQueue(queue') \cup pinned
      BY <1>3 DEF Held, HeldBy
    <2>3. Held = Exts(pf.list) \cup pf.sel \cup picker.ext \cup InQueue(queue) \cup pinned
      BY DEF Held, HeldBy
    <2>4. mine \subseteq Held
      OBVIOUS
    <2> HIDE DEF mine
    <2> QED BY <2>1, <2>2, <2>3, <2>4
  <1>21. entry[a] # "NONE" /\ s # "NONE" /\ entry'[a] = s
         /\ \A b \in Addr : b # a => entry'[b] = entry[b]
    <2>1. Has(queue, IntOf(a))
      BY <1>2, <1>4, <1>6 DEF Beheaded
    <2> QED BY <1>3, <1>7, <2>1 DEF Sharing, Backed, States
  <1>22. \A b : /\ Has(queue', IntOf(b)) <=> Has(rest, IntOf(b))
                /\ Has(queue', ReleaseOf(b)) <=> Has(queue, ReleaseOf(b))
                /\ Has(queue', Result) <=> Has(queue, Result)
                /\ Has(queue, ExtOf(b)) => Has(queue', ExtOf(b))
                /\ \A x : LastIs(rest, IntOf(b), x) => LastIs(queue', IntOf(b), x)
    BY <1>2, <1>4, <1>6, <1>14, <1>18, <1>19 DEF Beheaded, Joined
  <1>23. Backed'
    <2>1. \A e \in Held' : entry'[e.addr] # "NONE"
      BY <1>3, <1>20, <1>21, HeldSound DEF Sharing, Backed
    <2>2. ASSUME NEW b \in Addr, Has(queue', IntOf(b)) \/ Has(queue', ReleaseOf(b))
          PROVE  entry'[b] # "NONE"
      <3>1. Has(queue, IntOf(b)) \/ Has(queue, ReleaseOf(b))
        BY <1>4, <1>22, <2>2 DEF Beheaded
      <3> QED BY <1>3, <1>21, <3>1 DEF Sharing, Backed
    <2> QED BY <2>1, <2>2 DEF Backed
  <1>24. Owned'
    BY <1>3, <1>20, <1>21, <1>22 DEF Sharing, Owned
  <1>25. Reported'
    <2> SUFFICES ASSUME NEW b \in Addr, entry'[b] # "NONE"
                 PROVE  /\ ~Has(queue', IntOf(b)) => entry'[b] = sub[b]
                        /\ LastIs(queue', IntOf(b), sub[b])
      BY <1>3 DEF Reported
    <2>1. entry[b] # "NONE"
      BY <1>21
    <2>2. LastIs(queue, IntOf(b), sub[b]) /\ (~Has(queue, IntOf(b)) => entry[b] = sub[b])
      BY <1>3, <2>1 DEF Sharing, Reported
    <2>3. /\ LastIs(rest, IntOf(b), sub[b])
          /\ ~Has(rest, IntOf(b)) /\ w \in IntOf(b) => w.state = sub[b]
          /\ Has(queue, IntOf(b)) <=> w \in IntOf(b) \/ Has(rest, IntOf(b))
      BY <1>2, <1>4, <2>2 DEF Beheaded
    <2> QED BY <1>5, <1>6, <1>21, <1>22, <2>2, <2>3
  <1>26. Delivered'
    <2> SUFFICES ASSUME NEW b \in Addr PROVE LastIs(queue', ExtOf(b), entry'[b])
      BY DEF Delivered
    <2>1. LastIs(queue, ExtOf(b), entry[b])
      BY <1>3 DEF Sharing, Delivered
    <2>2. LastIs(rest, ExtOf(b), entry[b])
      BY <1>4, <2>1 DEF Beheaded
    <2>3. CASE b # a
      BY <1>16, <1>18, <1>19, <1>21, <2>2, <2>3 DEF Joined
    <2>4. CASE b = a
      <3>1. CASE mine # {}
        BY <1>16, <1>17, <1>19, <1>21, <2>4, <3>1 DEF Joined
      <3>2. CASE mine = {}
        <4>1. ~Has(queue, ExtOf(a))
          <5>1. a \notin AddrOf(Held)
            BY <3>2 DEF AddrOf
          <5> QED BY <1>3, <5>1, InQueueSound DEF AddrOf, Held, HeldBy
        <4>2. ~Has(queue', ExtOf(a))
          BY <1>4, <1>16, <1>19, <3>2, <4>1 DEF Beheaded, Joined
        <4> QED BY <2>4, <4>2 DEF Has, LastIs
      <3> QED BY <3>1, <3>2
    <2> QED BY <2>3, <2>4
  <1>27. TypeOK'
    BY <1>3, <1>7, <1>19 DEF TypeOK
  <1>28. \A e \in Held : e.addr \in MaybeReady(queue, entry) => e.addr \in MaybeReady(queue', entry')
    BY <1>16, <1>19, <1>21, <1>22 DEF MaybeReady, Joined
  <1>29. Sharing'
    BY <1>23, <1>24, <1>25, <1>26 DEF Sharing
  <1> QED BY <1>3, <1>22, <1>27, <1>28, <1>29, PolicyRests

\* release_subchannel keeps the invariant: a late release finds the entry in use or not at all.
LEMMA ReleaseSubchannelKeeps ==
    ASSUME IInv, ReleaseSubchannel
    PROVE  IInv'
  <1>1. PICK rest : rest = Tail(queue)
    OBVIOUS
  <1>2. PICK w : w = Head(queue)
    OBVIOUS
  <1>3. /\ queue # <<>> /\ w.kind = "released" /\ TypeOK /\ Sharing /\ queue \in Seq(WorkItem)
        /\ entry \in [Addr -> States \cup {"NONE"}] /\ sub \in [Addr -> States]
        /\ UNCHANGED <<pf, picker, pinned, resolved, asked, panicked, reused>>
    BY <1>2 DEF ReleaseSubchannel, HeadIs, IInv, TypeOK
  <1>4. w \in WorkItem /\ rest \in Seq(WorkItem) /\ \A K : Beheaded(queue, rest, K)
    BY <1>1, <1>2, <1>3, TailSound
  <1>5. PICK a \in Addr : a = w.addr
    BY <1>3, <1>4, KindSound DEF Kinds
  <1>6. \A b : /\ w \notin ExtOf(b) /\ w \notin UpdateOf(b) /\ w \notin IntOf(b)
               /\ w \notin Result /\ (w \in ReleaseOf(b) => b = a)
    BY <1>3, <1>5 DEF ExtOf, UpdateOf, ReleaseOf, Result, IntOf
  <1>7. \A b : /\ Has(rest, IntOf(b)) <=> Has(queue, IntOf(b))
               /\ Has(rest, ExtOf(b)) <=> Has(queue, ExtOf(b))
               /\ Has(rest, UpdateOf(b)) <=> Has(queue, UpdateOf(b))
               /\ Has(rest, Result) <=> Has(queue, Result)
               /\ Has(rest, ReleaseOf(b)) => Has(queue, ReleaseOf(b))
               /\ b # a => (Has(rest, ReleaseOf(b)) <=> Has(queue, ReleaseOf(b)))
               /\ \A x : LastIs(queue, IntOf(b), x) => LastIs(rest, IntOf(b), x)
               /\ \A x : LastIs(queue, ExtOf(b), x) => LastIs(rest, ExtOf(b), x)
    BY <1>2, <1>4, <1>6 DEF Beheaded
  <1>8. ASSUME queue' \in Seq(WorkItem), \A e : Has(queue', UpdateOf(e)) <=> Has(queue, UpdateOf(e))
        PROVE  Held' = Held
    <2>1. \A e : e \in InQueue(queue') <=> e \in InQueue(queue)
      BY <1>3, <1>8, InQueueSound
    <2>2. InQueue(queue') = InQueue(queue)
      BY <2>1
    <2> QED BY <1>3, <2>2 DEF Held, HeldBy
  <1>9. CASE a \in AddrOf(Held)
    <2>1. entry' = entry /\ sub' = sub /\ queue' = rest
      BY <1>1, <1>2, <1>5, <1>9, Zenon DEF ReleaseSubchannel
    <2>2. Held' = Held
      BY <1>4, <1>7, <1>8, <2>1
    <2>3. TypeOK'
      BY <1>3, <1>4, <2>1 DEF TypeOK
    <2>4. Backed'
      BY <1>3, <1>7, <2>1, <2>2 DEF Sharing, Backed
    <2>5. Owned'
      BY <1>3, <1>7, <1>9, <2>1, <2>2 DEF Sharing, Owned
    <2>6. Reported'
      BY <1>3, <1>7, <2>1 DEF Sharing, Reported
    <2>7. Delivered'
      BY <1>3, <1>7, <2>1 DEF Sharing, Delivered
    <2>8. Sharing'
      BY <2>4, <2>5, <2>6, <2>7 DEF Sharing
    <2>9. \A e \in Held : e.addr \in MaybeReady(queue, entry) => e.addr \in MaybeReady(queue', entry')
      BY <1>7, <2>1 DEF MaybeReady
    <2> QED BY <1>3, <1>7, <2>1, <2>3, <2>8, <2>9, PolicyRests
  <1>10. CASE a \notin AddrOf(Held)
    <2> DEFINE keep == {i \in DOMAIN rest :
                            ~(rest[i].kind \in {"internal", "released"} /\ rest[i].addr = a)}
    <2>1. /\ entry' = [entry EXCEPT ![a] = "NONE"] /\ sub' = [sub EXCEPT ![a] = "IDLE"]
          /\ queue' = ItemsAt(rest, keep)
      BY <1>1, <1>2, <1>5, <1>10, Zenon DEF ReleaseSubchannel
    <2>2. keep \in SUBSET DOMAIN rest
      OBVIOUS
    <2>3. \A i \in keep : ~(rest[i].kind \in {"internal", "released"} /\ rest[i].addr = a)
      OBVIOUS
    <2>4. \A i \in DOMAIN rest : i \notin keep =>
              rest[i].kind \in {"internal", "released"} /\ rest[i].addr = a
      OBVIOUS
    <2> HIDE DEF keep
    <2>5. /\ queue' \in Seq(WorkItem)
          /\ \A i \in DOMAIN queue' : \E j \in keep : queue'[i] = rest[j]
      BY <1>4, <2>1, <2>2, ItemsAtKeeps
    <2>6. ASSUME NEW K, \A i \in DOMAIN rest : rest[i] \in K => i \in keep
          PROVE  /\ Has(queue', K) <=> Has(rest, K)
                 /\ \A s : LastIs(rest, K, s) => LastIs(queue', K, s)
      BY <1>4, <2>1, <2>2, <2>6, ItemsAtKeeps
    <2>7. \A i \in DOMAIN rest : rest[i] \in WorkItem
      BY <1>4, LenProperties
    <2>8. \A i \in DOMAIN rest : Kinds(rest[i])
      BY <2>7, KindSound
    <2>9. \A b : /\ Has(queue', ExtOf(b)) <=> Has(rest, ExtOf(b))
                 /\ \A s : LastIs(rest, ExtOf(b), s) => LastIs(queue', ExtOf(b), s)
      <3> SUFFICES ASSUME NEW b
                   PROVE  /\ Has(queue', ExtOf(b)) <=> Has(rest, ExtOf(b))
                          /\ \A s : LastIs(rest, ExtOf(b), s) => LastIs(queue', ExtOf(b), s)
        OBVIOUS
      <3>1. \A i \in DOMAIN rest : rest[i] \in ExtOf(b) => i \in keep
        BY <2>4, <2>8 DEF Kinds
      <3> QED BY <2>6, <3>1
    <2>10. \A b : b # a =>
               /\ Has(queue', IntOf(b)) <=> Has(rest, IntOf(b))
               /\ \A s : LastIs(rest, IntOf(b), s) => LastIs(queue', IntOf(b), s)
      <3> SUFFICES ASSUME NEW b, b # a
                   PROVE  /\ Has(queue', IntOf(b)) <=> Has(rest, IntOf(b))
                          /\ \A s : LastIs(rest, IntOf(b), s) => LastIs(queue', IntOf(b), s)
        OBVIOUS
      <3>1. \A i \in DOMAIN rest : rest[i] \in IntOf(b) => i \in keep
        BY <2>4, <2>8 DEF Kinds
      <3> QED BY <2>6, <3>1
    <2>11. \A b : b # a => (Has(queue', ReleaseOf(b)) <=> Has(rest, ReleaseOf(b)))
      <3> SUFFICES ASSUME NEW b, b # a PROVE Has(queue', ReleaseOf(b)) <=> Has(rest, ReleaseOf(b))
        OBVIOUS
      <3>1. \A i \in DOMAIN rest : rest[i] \in ReleaseOf(b) => i \in keep
        BY <2>4, <2>8 DEF Kinds
      <3> QED BY <2>6, <3>1
    <2>12. \A e : Has(queue', UpdateOf(e)) <=> Has(rest, UpdateOf(e))
      <3> SUFFICES ASSUME NEW e PROVE Has(queue', UpdateOf(e)) <=> Has(rest, UpdateOf(e))
        OBVIOUS
      <3>1. \A i \in DOMAIN rest : rest[i] \in UpdateOf(e) => i \in keep
        BY <2>4, <2>8 DEF Kinds
      <3> QED BY <2>6, <3>1
    <2>13. Has(queue', Result) <=> Has(rest, Result)
      <3>1. \A i \in DOMAIN rest : rest[i] \in Result => i \in keep
        BY <2>4, <2>8 DEF Kinds
      <3> QED BY <2>6, <3>1
    <2>14. ~Has(queue', IntOf(a)) /\ ~Has(queue', ReleaseOf(a))
      BY <2>2, <2>3, <2>5, <2>8 DEF Has, Kinds
    <2>15. Held' = Held
      BY <1>7, <1>8, <2>5, <2>12
    <2>16. /\ entry'[a] = "NONE" /\ \A b \in Addr : b # a => entry'[b] = entry[b] /\ sub'[b] = sub[b]
      BY <1>3, <2>1
    <2>17. \A e \in Held : e.addr # a /\ e.addr \in Addr
      BY <1>3, <1>10, HeldSound DEF AddrOf
    <2>18. TypeOK'
      <3>1. "IDLE" \in States
        BY DEF States
      <3> QED BY <1>3, <2>1, <2>5, <3>1 DEF TypeOK
    <2>19. Backed'
      BY <1>3, <1>7, <2>10, <2>11, <2>14, <2>15, <2>16, <2>17 DEF Sharing, Backed
    <2>20. Owned'
      BY <1>3, <1>7, <2>11, <2>15, <2>16 DEF Sharing, Owned
    <2>21. Reported'
      BY <1>3, <1>7, <2>10, <2>16 DEF Sharing, Reported
    <2>22. ~Has(rest, ExtOf(a))
      BY <1>3, <1>7, <2>17, InQueueSound DEF AddrOf, Held, HeldBy
    <2>23. Delivered'
      <3> SUFFICES ASSUME NEW b \in Addr PROVE LastIs(queue', ExtOf(b), entry'[b])
        BY DEF Delivered
      <3>1. CASE b = a
        BY <2>9, <2>22, <3>1 DEF LastIs, Has
      <3>2. CASE b # a
        BY <1>3, <1>7, <2>9, <2>16, <3>2 DEF Sharing, Delivered
      <3> QED BY <3>1, <3>2
    <2>24. \A e \in Held : e.addr \in MaybeReady(queue, entry) => e.addr \in MaybeReady(queue', entry')
      BY <1>7, <2>9, <2>16, <2>17 DEF MaybeReady
    <2>25. Sharing'
      BY <2>19, <2>20, <2>21, <2>23 DEF Sharing
    <2> QED BY <1>3, <1>7, <2>13, <2>18, <2>24, <2>25, PolicyRests
  <1> QED BY <1>9, <1>10

\* A move of an internal subchannel is queued behind what it reported before.
LEMMA SubchannelMovesKeeps ==
    ASSUME IInv, NEW a \in Addr, NEW s \in States, SubchannelMoves(a, s)
    PROVE  IInv'
  <1>1. /\ TypeOK /\ Sharing /\ queue \in Seq(WorkItem)
        /\ entry[a] # "NONE" /\ sub' = [sub EXCEPT ![a] = s]
        /\ UNCHANGED <<pf, picker, entry, pinned, resolved, asked, panicked, reused>>
        /\ sub \in [Addr -> States]
    BY DEF SubchannelMoves, IInv, TypeOK
  <1>2. PICK w : w = [kind |-> "internal", addr |-> a, state |-> s]
    OBVIOUS
  <1>3. w \in WorkItem /\ w \in IntOf(a) /\ w.state = s /\ w.kind = "internal" /\ w.addr = a
    BY <1>2 DEF WorkItem, IntOf
  <1>4. queue' = Append(queue, w)
    BY <1>2 DEF SubchannelMoves, Enqueue
  <1>5. queue' \in Seq(WorkItem) /\ \A K : Appended(queue, w, queue', K)
    BY <1>1, <1>3, <1>4, AppendSound
  <1>6. \A b : /\ w \notin ExtOf(b) /\ w \notin UpdateOf(b) /\ w \notin ReleaseOf(b)
               /\ w \notin Result /\ (w \in IntOf(b) => b = a)
    BY <1>3 DEF ExtOf, UpdateOf, ReleaseOf, Result, IntOf
  <1>7. Held' = Held
    <2>1. \A e : e \in InQueue(queue') <=> e \in InQueue(queue)
      BY <1>1, <1>5, <1>6, InQueueSound DEF Appended
    <2>2. InQueue(queue') = InQueue(queue)
      BY <2>1
    <2> QED BY <1>1, <2>2 DEF Held, HeldBy
  <1>8. TypeOK'
    BY <1>1, <1>5 DEF TypeOK
  <1>9. Backed'
    BY <1>1, <1>5, <1>6, <1>7 DEF Sharing, Backed, Appended
  <1>10. Owned'
    BY <1>1, <1>5, <1>7 DEF Sharing, Owned, Appended
  <1>11. Reported'
    <2> SUFFICES ASSUME NEW b \in Addr, entry[b] # "NONE"
                 PROVE  /\ ~Has(queue', IntOf(b)) => entry[b] = sub'[b]
                        /\ LastIs(queue', IntOf(b), sub'[b])
      BY <1>1 DEF Reported
    <2>1. CASE b = a
      BY <1>1, <1>3, <1>5, <2>1 DEF Appended
    <2>2. CASE b # a
      BY <1>1, <1>5, <1>6, <2>2 DEF Sharing, Reported, Appended
    <2> QED BY <2>1, <2>2
  <1>12. Delivered'
    BY <1>1, <1>5, <1>6 DEF Sharing, Delivered, Appended
  <1>13. Sharing'
    BY <1>9, <1>10, <1>11, <1>12 DEF Sharing
  <1>14. \A e \in Held : e.addr \in MaybeReady(queue, entry) => e.addr \in MaybeReady(queue', entry')
    BY <1>1, <1>5 DEF MaybeReady, Appended
  <1>15. Has(queue, Result) => Has(queue', Result)
    BY <1>5 DEF Appended
  <1> QED BY <1>1, <1>8, <1>13, <1>14, <1>15, PolicyRests

\* Work is scheduled for the policy or the resolver: it concerns no subchannel.
LEMMA WorkQueued ==
    ASSUME IInv, NEW w \in WorkItem, w.kind \in {"work", "resolver"}, queue' = Append(queue, w),
           UNCHANGED <<entry, sub, pinned>>,
           pf'.list = pf.list, pf'.sel = pf.sel, picker'.ext = picker.ext
    PROVE  /\ Sharing' /\ queue' \in Seq(WorkItem)
           /\ \A a : Has(queue, ExtOf(a)) => Has(queue', ExtOf(a))
           /\ Has(queue, Result) => Has(queue', Result)
           /\ w.kind = "resolver" => Has(queue', Result)
  <1>1. TypeOK /\ Sharing /\ queue \in Seq(WorkItem)
    BY DEF IInv, TypeOK
  <1>2. queue' \in Seq(WorkItem) /\ \A K : Appended(queue, w, queue', K)
    BY <1>1, AppendSound
  <1>3. \A b : /\ w \notin ExtOf(b) /\ w \notin UpdateOf(b) /\ w \notin ReleaseOf(b)
               /\ w \notin IntOf(b)
    BY DEF ExtOf, UpdateOf, ReleaseOf, IntOf
  <1>4. Held' = Held
    <2>1. \A e : e \in InQueue(queue') <=> e \in InQueue(queue)
      BY <1>1, <1>2, <1>3, InQueueSound DEF Appended
    <2>2. InQueue(queue') = InQueue(queue)
      BY <2>1
    <2> QED BY <2>2 DEF Held, HeldBy
  <1>5. Sharing'
    BY <1>1, <1>2, <1>3, <1>4 DEF Sharing, Backed, Owned, Reported, Delivered, Appended
  <1>6. w.kind = "resolver" => w \in Result
    BY KindSound DEF Kinds
  <1> QED BY <1>2, <1>5, <1>6 DEF Appended

\* The items that announce work.
LEMMA WorkItems == [kind |-> "work"] \in WorkItem /\ [kind |-> "resolver"] \in WorkItem
BY DEF WorkItem

\* The happy eyeballs timer keeps the invariant.
LEMMA TimerFiresKeeps ==
    ASSUME IInv, TimerFires
    PROVE  IInv'
  <1>1. /\ TypeOK /\ pf \in Policy /\ pf' = [pf EXCEPT !.timer = "expired"]
        /\ UNCHANGED <<picker, entry, sub, pinned, resolved, asked, panicked, reused>>
    BY DEF TimerFires, IInv, TypeOK
  <1>2. PICK w \in WorkItem : w = [kind |-> "work"] /\ w.kind = "work"
    BY WorkItems
  <1>3. queue' = Append(queue, w)
    BY <1>2 DEF TimerFires, Enqueue
  <1>4. /\ pf' \in Policy /\ pf'.list = pf.list /\ pf'.sel = pf.sel /\ pf'.cache = pf.cache
        /\ pf'.conn = pf.conn
    BY <1>1 DEF Policy
  <1>5. /\ Sharing' /\ queue' \in Seq(WorkItem)
        /\ \A a : Has(queue, ExtOf(a)) => Has(queue', ExtOf(a))
        /\ Has(queue, Result) => Has(queue', Result)
    BY <1>1, <1>2, <1>3, <1>4, WorkQueued
  <1>6. TypeOK'
    BY <1>1, <1>4, <1>5 DEF TypeOK
  <1>7. \A e \in Held : e.addr \in MaybeReady(queue, entry) => e.addr \in MaybeReady(queue', entry')
    BY <1>1, <1>5 DEF MaybeReady
  <1> QED BY <1>1, <1>4, <1>5, <1>6, <1>7, PolicyRests

\* A pick on an IDLE picker keeps the invariant.
LEMMA PickIdleKeeps ==
    ASSUME IInv, PickIdle
    PROVE  IInv'
  <1>1. /\ TypeOK /\ picker \in Pickers /\ picker' = [picker EXCEPT !.triggered = TRUE]
        /\ UNCHANGED <<pf, entry, sub, pinned, resolved, asked, panicked, reused>>
    BY DEF PickIdle, IInv, TypeOK
  <1>2. PICK w \in WorkItem : w = [kind |-> "work"] /\ w.kind = "work"
    BY WorkItems
  <1>3. queue' = Append(queue, w)
    BY <1>2 DEF PickIdle, Enqueue
  <1>4. picker' \in Pickers /\ picker'.state = picker.state /\ picker'.ext = picker.ext
    BY <1>1 DEF Pickers
  <1>5. /\ Sharing' /\ queue' \in Seq(WorkItem)
        /\ \A a : Has(queue, ExtOf(a)) => Has(queue', ExtOf(a))
        /\ Has(queue, Result) => Has(queue', Result)
    BY <1>1, <1>2, <1>3, <1>4, WorkQueued
  <1>6. TypeOK'
    BY <1>1, <1>4, <1>5 DEF TypeOK
  <1>7. \A e \in Held : e.addr \in MaybeReady(queue, entry) => e.addr \in MaybeReady(queue', entry')
    BY <1>1, <1>5 DEF MaybeReady
  <1> QED BY <1>1, <1>4, <1>5, <1>6, <1>7, PolicyRests

\* A new resolver result keeps the invariant.
LEMMA ResolverHasResultKeeps ==
    ASSUME IInv, ResolverHasResult
    PROVE  IInv'
  <1>1. /\ TypeOK /\ resolved < MaxResolver /\ resolved' = resolved + 1 /\ asked' = FALSE
        /\ UNCHANGED <<pf, picker, entry, sub, pinned, panicked, reused>>
    BY DEF ResolverHasResult, IInv, TypeOK
  <1>2. PICK w \in WorkItem : w = [kind |-> "resolver"] /\ w.kind = "resolver"
    BY WorkItems
  <1>3. queue' = Append(queue, w)
    BY <1>2 DEF ResolverHasResult, Enqueue
  <1>5. /\ Sharing' /\ queue' \in Seq(WorkItem)
        /\ \A a : Has(queue, ExtOf(a)) => Has(queue', ExtOf(a))
        /\ Has(queue', Result)
    BY <1>1, <1>2, <1>3, WorkQueued
  <1>6. TypeOK'
    <2>1. resolved' \in 0 .. MaxResolver
      BY <1>1, BoundsAssumption DEF TypeOK
    <2> QED BY <1>1, <1>5, <2>1 DEF TypeOK
  <1>7. \A e \in Held : e.addr \in MaybeReady(queue, entry) => e.addr \in MaybeReady(queue', entry')
    BY <1>1, <1>5 DEF MaybeReady
  <1> QED BY <1>1, <1>5, <1>6, <1>7, PolicyRests

\* A call that takes the READY subchannel keeps the invariant.
LEMMA PickReadyKeeps ==
    ASSUME IInv, PickReady
    PROVE  IInv'
  <1>1. /\ TypeOK /\ Sharing /\ picker \in Pickers /\ pinned = {} /\ pinned' = picker.ext
        /\ UNCHANGED <<pf, picker, entry, sub, queue, resolved, asked, panicked, reused>>
    BY DEF PickReady, IInv, TypeOK
  <1>2. Held' = Held
    BY <1>1 DEF Held, HeldBy
  <1>3. TypeOK'
    BY <1>1 DEF TypeOK, Pickers
  <1>4. Sharing'
    BY <1>1, <1>2 DEF Sharing, Backed, Owned, Reported, Delivered
  <1> QED BY <1>1, <1>3, <1>4, PolicyRests

\* A call that lets go of its subchannel keeps the invariant: the last holder queues the release.
LEMMA CallStartedKeeps ==
    ASSUME IInv, CallStarted
    PROVE  IInv'
  <1> DEFINE after == HeldBy(pf, picker, queue, {})
  <1>1. /\ TypeOK /\ Sharing /\ queue \in Seq(WorkItem) /\ pinned' = {}
        /\ queue' = queue \o Releases(Held, after)
        /\ UNCHANGED <<pf, picker, entry, sub, resolved, asked, panicked, reused>>
    BY DEF CallStarted, IInv, TypeOK
  <1>2. PICK rel \in Seq(WorkItem) :
            /\ rel = Releases(Held, after)
            /\ \A a : Has(rel, ReleaseOf(a)) <=> a \in AddrOf(Held \ after)
            /\ \A i \in DOMAIN rel : rel[i].kind = "released"
    <2> HIDE DEF after
    <2> QED BY <1>1, HeldSound, ReleasesSound
  <1>3. <<>> \in Seq(WorkItem) /\ DOMAIN <<>> = {} /\ \A q \in Seq(WorkItem) : q \o <<>> = q
    BY ConcatEmptySeq
  <1>4. PICK m \in Seq(WorkItem) : m = queue \o rel
    BY <1>1, ConcatProperties
  <1>5. queue' = queue \o rel \o <<>>
    BY <1>1, <1>2, <1>3, <1>4
  <1>6. Extended(queue, rel, <<>>, queue')
    <2>1. PICK rep \in Seq(WorkItem) : rep = <<>> /\ \A i \in DOMAIN rep : rep[i].kind = "internal"
      BY <1>3
    <2> QED BY <1>1, <1>2, <1>5, <2>1, ExtendSound
  <1>7. Held' = after
    BY <1>1, <1>6 DEF Held, HeldBy, Extended
  <1>8. after \subseteq Held
    BY DEF Held, HeldBy
  <1>9. \A a : ~Has(<<>>, IntOf(a)) /\ \A s : LastIs(<<>>, IntOf(a), s)
    BY <1>3 DEF Has, LastIs
  <1> HIDE DEF after
  <1>10. TypeOK'
    <2>1. {} \in MaybeExt
      BY DEF MaybeExt
    <2> QED BY <1>1, <1>6, <2>1 DEF TypeOK, Extended
  <1>11. Backed'
    <2>1. \A e \in Held' : entry[e.addr] # "NONE"
      BY <1>1, <1>7, <1>8 DEF Sharing, Backed
    <2>2. ASSUME NEW a \in Addr, Has(queue', IntOf(a)) \/ Has(queue', ReleaseOf(a))
          PROVE  entry[a] # "NONE"
      <3>1. CASE Has(queue, IntOf(a)) \/ Has(queue, ReleaseOf(a))
        BY <1>1, <3>1 DEF Sharing, Backed
      <3>2. CASE Has(rel, ReleaseOf(a))
        BY <1>1, <1>2, <3>2 DEF Sharing, Backed, AddrOf
      <3> QED BY <1>6, <1>9, <2>2, <3>1, <3>2 DEF Extended
    <2> QED BY <1>1, <2>1, <2>2 DEF Backed
  <1>12. Owned'
    BY <1>1, <1>2, <1>6, <1>7 DEF Sharing, Owned, Extended, AddrOf
  <1>13. Reported'
    BY <1>1, <1>6, <1>9 DEF Sharing, Reported, Extended
  <1>14. Delivered'
    BY <1>1, <1>6 DEF Sharing, Delivered, Extended
  <1>15. Sharing'
    BY <1>11, <1>12, <1>13, <1>14 DEF Sharing
  <1>16. \A e \in Held : e.addr \in MaybeReady(queue, entry) => e.addr \in MaybeReady(queue', entry')
    BY <1>1, <1>6 DEF MaybeReady, Extended
  <1>17. Has(queue, Result) => Has(queue', Result)
    BY <1>6 DEF Extended
  <1> QED BY <1>1, <1>10, <1>15, <1>16, <1>17, PolicyRests

-----------------------------------------------------------------------------
(* The theorems.                                                           *)

\* The invariant holds initially.
LEMMA InitHolds == Init => IInv
  <1> SUFFICES ASSUME Init PROVE IInv
    OBVIOUS
  <1>1. /\ pf = [conn |-> "IDLE", list |-> <<>>, cache |-> [a \in Addr |-> "NONE"],
                 sel |-> {}, frontier |-> 1, err |-> FALSE, timer |-> "none",
                 steady |-> FALSE, fails |-> 0]
        /\ picker = [state |-> "CONNECTING", ext |-> {}, triggered |-> FALSE]
        /\ entry = [a \in Addr |-> "NONE"] /\ sub = [a \in Addr |-> "IDLE"]
        /\ queue = <<>> /\ pinned = {} /\ resolved = 0 /\ asked = FALSE
        /\ panicked = FALSE /\ reused = FALSE
    BY DEF Init
  <1>2. <<>> \in Seq(Ext) /\ <<>> \in Seq(WorkItem) /\ {} \in MaybeExt
    BY DEF MaybeExt
  <1>3. pf \in Policy /\ pf.list = <<>> /\ pf.sel = {} /\ pf.conn = "IDLE"
    BY <1>1, <1>2 DEF Policy, States
  <1>4. picker \in Pickers /\ picker.state = "CONNECTING" /\ picker.ext = {}
    BY <1>1, <1>2 DEF Pickers, States
  <1>5. DOMAIN queue = {} /\ DOMAIN pf.list = {}
    BY <1>1, <1>3
  <1>6. TypeOK
    <2>1. entry \in [Addr -> States \cup {"NONE"}] /\ sub \in [Addr -> States]
      BY <1>1 DEF States
    <2>2. resolved \in 0 .. MaxResolver
      BY <1>1, BoundsAssumption
    <2> QED BY <1>1, <1>2, <1>3, <1>4, <1>5, <2>1, <2>2 DEF TypeOK, Distinct
  <1>7. \A K : ~Has(queue, K) /\ \A s : LastIs(queue, K, s)
    BY <1>5 DEF Has, LastIs
  <1>8. Exts(pf.list) = {} /\ InQueue(queue) = {}
    BY <1>5 DEF Exts, Range, InQueue
  <1>9. Held = {}
    BY <1>1, <1>3, <1>4, <1>8 DEF Held, HeldBy
  <1>10. Sharing
    BY <1>1, <1>7, <1>9 DEF Sharing, Backed, Owned, Reported, Delivered
  <1> QED BY <1>3, <1>4, <1>6, <1>8, <1>10 DEF IInv, ReadyKnown, Offered, AsksAgain

\* Every step keeps the invariant.
LEMMA StepHolds == IInv /\ [Next]_vars => IInv'
  <1> SUFFICES ASSUME IInv, [Next]_vars PROVE IInv'
    OBVIOUS
  <1>1. CASE HandleUpdate
    BY <1>1, HandleUpdateKeeps
  <1>2. CASE HandleWork
    BY <1>2, HandleWorkKeeps
  <1>3. CASE \E l \in AddrLists : HandleAddresses(l)
    BY <1>3, HandleAddressesKeeps
  <1>4. CASE HandleResolverError
    BY <1>4, HandleResolverErrorKeeps
  <1>5. CASE DeliverInternal
    BY <1>5, DeliverInternalKeeps
  <1>6. CASE ReleaseSubchannel
    BY <1>6, ReleaseSubchannelKeeps
  <1>7. CASE \E a \in Addr, s \in States : SubchannelMoves(a, s)
    BY <1>7, SubchannelMovesKeeps
  <1>8. CASE TimerFires
    BY <1>8, TimerFiresKeeps
  <1>9. CASE PickIdle
    BY <1>9, PickIdleKeeps
  <1>10. CASE PickReady
    BY <1>10, PickReadyKeeps
  <1>11. CASE CallStarted
    BY <1>11, CallStartedKeeps
  <1>12. CASE ResolverHasResult
    BY <1>12, ResolverHasResultKeeps
  <1>13. CASE UNCHANGED vars
    BY <1>13 DEF IInv, TypeOK, Sharing, Backed, Owned, Reported, Delivered, ReadyKnown,
                 Offered, AsksAgain, Held, vars
  <1> QED BY <1>1, <1>2, <1>3, <1>4, <1>5, <1>6, <1>7, <1>8, <1>9, <1>10, <1>11, <1>12,
             <1>13 DEF Next, WorkLoop

\* The work queue always carries what the sharing layer and the policy do not know yet,
\* whatever the other threads append to it: the inductive invariant.
THEOREM Invariant == Spec => []IInv
  <1>1. Init => IInv
    BY InitHolds
  <1>2. IInv /\ [Next]_vars => IInv'
    BY StepHolds
  <1> QED BY <1>1, <1>2, PTL DEF Spec

\* The policy, the published picker, the sharing layer's entries and every queued work
\* item are well formed, and the list of subchannels never repeats an address.
THEOREM TypeCorrect == Spec => []TypeOK
  <1>1. IInv => TypeOK
    BY DEF IInv
  <1> QED BY <1>1, Invariant, PTL

\* release_subchannel never removes the entry of a SharedSubchannel still in use, however
\* many older ones of its address were dropped before.
THEOREM UsedIsKept == Spec => []NeverOrphaned
  <1>1. IInv => NeverOrphaned
    BY DEF IInv, Sharing, Backed, NeverOrphaned
  <1> QED BY <1>1, Invariant, PTL

\* With the queue drained, every entry is used and holds the subchannel's own state: no
\* drop of a SharedSubchannel leaks one, and no update is lost between the layers.
THEOREM UnusedIsReleased == Spec => []NoLeak
  <1>1. IInv => NoLeak
    <2> SUFFICES ASSUME IInv, queue = <<>>, NEW a \in Addr, entry[a] # "NONE"
                 PROVE  a \in AddrOf(Held) /\ entry[a] = sub[a]
      BY DEF NoLeak
    <2>1. \A K : ~Has(queue, K)
      BY DEF Has
    <2> QED BY <2>1 DEF IInv, Sharing, Owned, Reported
  <1> QED BY <1>1, Invariant, PTL

\* With the queue drained, a READY picker offers a subchannel that is READY: the update
\* that ends a connection always reaches the picker.
THEOREM ReadyPickerIsTrue == Spec => []ReadyIsReady
  <1>1. IInv => ReadyIsReady
    <2> SUFFICES ASSUME IInv, queue = <<>>, ~panicked, picker.state = "READY",
                        NEW e \in picker.ext
                 PROVE  sub[e.addr] = "READY"
      BY DEF ReadyIsReady
    <2>1. \A K : ~Has(queue, K)
      BY DEF Has
    <2>2. e \in pf.sel
      BY DEF IInv, Offered
    <2>3. e.addr \in Addr /\ entry[e.addr] = "READY"
      BY <2>1, <2>2 DEF IInv, ReadyKnown, MaybeReady
    <2> QED BY <2>1, <2>3 DEF IInv, Sharing, Reported
  <1> QED BY <1>1, Invariant, PTL

\* A policy that fails calls and has nothing selected has asked the resolver for new
\* addresses since its last result, or a result is on its way.
THEOREM FailingAsksAgain == Spec => []AsksAgain
  <1>1. IInv => AsksAgain
    BY DEF IInv
  <1> QED BY <1>1, Invariant, PTL

==============================================================================
