-------------------------- MODULE BitmapCopiesProofs --------------------------
(***************************************************************************)
(* Proofs about bitmap and its copies, for every set of bitmaps, chunks,   *)
(* keys and addresses, and every policy.                                   *)
(***************************************************************************)
EXTENDS BitmapCopies, ChunkHeapProofs

Stores == Tables \cup {Null}

\* How many of the stores f hold the table x.
Holding(f, x) == Cardinality({b \in Bitmaps : f[b] = x})

\* The tables of the stores tb and pl are counted, and a pool is its store's.
Rooted(H, tb, pl) ==
  /\ tb \in [Bitmaps -> Stores] /\ pl \in [Bitmaps -> Stores]
  /\ \A t \in Tables : H.holders[t] = Holding(tb, t) + Holding(pl, t)
  /\ \A b \in Bitmaps : pl[b] \in Tables => H.holders[pl[b]] = 1

SharedNonEmpty(H) == \A t \in Tables : H.holders[t] > 1 => DOMAIN H.entries[t] # {}

\* A call on a store that has the table t and the pool q leaves it n and p: what
\* others hold they keep, and but for the tables U whose handles it copied, so
\* they do what is theirs alone.
Serves(H, G, t, q, n, p, U) ==
  /\ G.policy = H.policy
  /\ n \in Stores /\ p \in Stores
  /\ \A x \in Tables : G.holders[x] = H.holders[x] + Held1(n, x) + Held1(p, x)
                                      - Held1(t, x) - Held1(q, x)
  /\ p \in Tables => G.holders[p] = 1
  /\ \A x \in Tables : H.holders[x] > Held1(t, x) + Held1(q, x) =>
       /\ SameValue(H, G, x)
       /\ x \notin {t, q} => x \notin {n, p} /\ (x \notin U => Untouched(H, G, x))

-----------------------------------------------------------------------------
LEMMA Held1Type ==
  ASSUME NEW t, NEW x
  PROVE  Held1(t, x) \in Nat /\ Held1(t, x) \in {0, 1} /\ (Held1(t, x) = 1 <=> x = t)
BY DEF Held1

\* How many stores hold a table, when one of them changes.
LEMMA CountReplaced ==
  ASSUME NEW f \in [Bitmaps -> Stores], NEW b \in Bitmaps, NEW v \in Stores, NEW x
  PROVE  /\ Holding(f, x) \in Nat /\ Holding([f EXCEPT ![b] = v], x) \in Nat
         /\ Holding([f EXCEPT ![b] = v], x) + Held1(f[b], x) = Holding(f, x) + Held1(v, x)
<1> DEFINE g == [f EXCEPT ![b] = v]
           R == {c \in Bitmaps \ {b} : f[c] = x}
           F == {c \in Bitmaps : f[c] = x}
           K == {c \in Bitmaps : g[c] = x}
<1>1. IsFiniteSet(R) /\ IsFiniteSet(F) /\ IsFiniteSet(K) /\ b \notin R
  BY RoomAssumption, FS_Subset
<1>2. F = IF f[b] = x THEN R \cup {b} ELSE R
  OBVIOUS
<1>3. K = IF v = x THEN R \cup {b} ELSE R
  OBVIOUS
<1> HIDE DEF R, F, K
<1>4. Cardinality(R) \in Nat /\ Cardinality(F) \in Nat /\ Cardinality(R \cup {b}) = Cardinality(R) + 1
  BY <1>1, FS_CardinalityType, FS_AddElement
<1>5. Cardinality(F) = Cardinality(R) + Held1(f[b], x)
  BY <1>2, <1>4 DEF Held1
<1>6. Cardinality(K) = Cardinality(R) + Held1(v, x)
  BY <1>3, <1>4 DEF Held1
<1>7. Cardinality(K) + Held1(f[b], x) = Cardinality(F) + Held1(v, x) /\ Cardinality(F) \in Nat
      /\ Cardinality(K) \in Nat
  BY <1>4, <1>5, <1>6, Held1Type
<1> QED BY <1>7 DEF F, K, Holding

\* The stores g are the stores f but for the table t, exchanged for v.
Exchanged1(f, g, t, v) ==
  \A x : /\ Holding(f, x) \in Nat /\ Holding(g, x) \in Nat
         /\ Holding(g, x) + Held1(t, x) = Holding(f, x) + Held1(v, x)

LEMMA CountMoved ==
  ASSUME NEW f \in [Bitmaps -> Stores], NEW b \in Bitmaps, NEW v \in Stores
  PROVE  Exchanged1(f, [f EXCEPT ![b] = v], f[b], v)
BY CountReplaced DEF Exchanged1

\* The stores that hold a table are counted there, others besides b as well.
LEMMA RootedHolders ==
  ASSUME NEW H, NEW tb, NEW pl, Rooted(H, tb, pl), NEW b \in Bitmaps, NEW c \in Bitmaps \ {b}, NEW x \in Tables
  PROVE  /\ H.holders[x] \in Nat
         /\ H.holders[x] >= Held1(tb[b], x) + Held1(pl[b], x)
         /\ H.holders[x] >= Held1(tb[b], x) + Held1(pl[b], x) + Held1(tb[c], x)
         /\ H.holders[x] >= Held1(tb[b], x) + Held1(pl[b], x) + Held1(pl[c], x)
<1> DEFINE T == {d \in Bitmaps : tb[d] = x}
           P == {d \in Bitmaps : pl[d] = x}
<1>1. IsFiniteSet(T) /\ IsFiniteSet(P)
  BY RoomAssumption, FS_Subset
<1>2. Cardinality(T) \in Nat /\ Cardinality(P) \in Nat
  BY <1>1, FS_CardinalityType
<1>3. H.holders[x] = Cardinality(T) + Cardinality(P)
  BY DEF Rooted, Holding
<1>4. ASSUME NEW S, IsFiniteSet(S), Cardinality(S) \in Nat
      PROVE  /\ b \in S => Cardinality(S) >= 1
             /\ c \in S => Cardinality(S) >= 1
             /\ b \in S /\ c \in S => Cardinality(S) >= 2
  <2>1. {b, c} \subseteq S => Cardinality({b, c}) <= Cardinality(S)
    BY <1>4, FS_Subset
  <2>2. Cardinality({b, c}) = 2
    <3>1. IsFiniteSet({b}) /\ Cardinality({b}) = 1 /\ c \notin {b}
      BY FS_Singleton
    <3>2. Cardinality({b} \cup {c}) = Cardinality({b}) + 1
      BY <3>1, FS_AddElement
    <3> QED BY <3>1, <3>2
  <2>3. S # {} => Cardinality(S) # 0
    BY <1>4, FS_EmptySet
  <2> QED BY <1>4, <2>1, <2>2, <2>3
<1>5. (tb[b] = x <=> b \in T) /\ (tb[c] = x <=> c \in T) /\ (pl[b] = x <=> b \in P) /\ (pl[c] = x <=> c \in P)
  OBVIOUS
<1> HIDE DEF T, P
<1>6. /\ Cardinality(T) >= Held1(tb[b], x) /\ Cardinality(T) >= Held1(tb[b], x) + Held1(tb[c], x)
      /\ Cardinality(P) >= Held1(pl[b], x) /\ Cardinality(P) >= Held1(pl[b], x) + Held1(pl[c], x)
  BY <1>1, <1>2, <1>4, <1>5 DEF Held1
<1> QED BY <1>2, <1>3, <1>6, Held1Type

LEMMA RootedOwn ==
  ASSUME NEW H, NEW tb, NEW pl, Rooted(H, tb, pl), NEW b \in Bitmaps, NEW x \in Tables
  PROVE  H.holders[x] \in Nat /\ H.holders[x] >= Held1(tb[b], x) + Held1(pl[b], x)
<1>1. CASE \E c \in Bitmaps \ {b} : TRUE
  BY <1>1, RootedHolders
<1>2. CASE Bitmaps = {b}
  <2> DEFINE T == {d \in Bitmaps : tb[d] = x}
             P == {d \in Bitmaps : pl[d] = x}
  <2>1. T = (IF tb[b] = x THEN {b} ELSE {}) /\ P = (IF pl[b] = x THEN {b} ELSE {})
    BY <1>2
  <2>2. H.holders[x] = Cardinality(T) + Cardinality(P)
    BY DEF Rooted, Holding
  <2> HIDE DEF T, P
  <2>3. Cardinality(T) = Held1(tb[b], x) /\ Cardinality(P) = Held1(pl[b], x)
    BY <2>1, FS_Singleton, FS_EmptySet DEF Held1
  <2> QED BY <2>2, <2>3, Held1Type
<1> QED BY <1>1, <1>2

LEMMA RootedServes ==
  ASSUME NEW H, NEW tb, NEW pl, Rooted(H, tb, pl), NEW b \in Bitmaps,
         NEW G, NEW n, NEW p, NEW U, Serves(H, G, tb[b], pl[b], n, p, U)
  PROVE  Rooted(G, [tb EXCEPT ![b] = n], [pl EXCEPT ![b] = p])
<1> DEFINE f == [tb EXCEPT ![b] = n]
           g == [pl EXCEPT ![b] = p]
<1>1. /\ tb \in [Bitmaps -> Stores] /\ pl \in [Bitmaps -> Stores] /\ n \in Stores /\ p \in Stores
      /\ f \in [Bitmaps -> Stores] /\ g \in [Bitmaps -> Stores]
  BY DEF Rooted, Serves
<1>2. ASSUME NEW x \in Tables
      PROVE  G.holders[x] = Holding(f, x) + Holding(g, x)
  <2> DEFINE T == Holding(tb, x)
             P == Holding(pl, x)
             F == Holding(f, x)
             Q == Holding(g, x)
  <2>1. T \in Nat /\ F + Held1(tb[b], x) = T + Held1(n, x) /\ F \in Nat
    <3>1. tb \in [Bitmaps -> Stores] /\ n \in Stores
      BY <1>1
    <3> QED BY <3>1, CountReplaced
  <2>2. P \in Nat /\ Q + Held1(pl[b], x) = P + Held1(p, x) /\ Q \in Nat
    <3>1. pl \in [Bitmaps -> Stores] /\ p \in Stores
      BY <1>1
    <3> QED BY <3>1, CountReplaced
  <2>3. H.holders[x] = T + P
    BY DEF Rooted
  <2>4. G.holders[x] = H.holders[x] + Held1(n, x) + Held1(p, x) - Held1(tb[b], x) - Held1(pl[b], x)
    BY DEF Serves
  <2> HIDE DEF T, P, F, Q
  <2>5. /\ Held1(n, x) \in Nat /\ Held1(p, x) \in Nat
        /\ Held1(tb[b], x) \in Nat /\ Held1(pl[b], x) \in Nat
    BY Held1Type
  <2>6. G.holders[x] = F + Q
    BY <2>1, <2>2, <2>3, <2>4, <2>5
  <2> QED BY <2>6 DEF F, Q
<1>3. ASSUME NEW c \in Bitmaps, g[c] \in Tables PROVE G.holders[g[c]] = 1
  <2>1. CASE c = b
    BY <1>1, <1>3, <2>1 DEF Serves
  <2>2. CASE c # b
    <3>1. g[c] = pl[c] /\ pl[c] \in Tables
      BY <1>1, <1>3, <2>2
    <3>2. H.holders[pl[c]] = 1
      BY <3>1 DEF Rooted
    <3>3. H.holders[pl[c]] >= Held1(tb[b], pl[c]) + Held1(pl[b], pl[c]) + Held1(pl[c], pl[c])
      BY <2>2, <3>1, RootedHolders
    <3>4. Held1(tb[b], pl[c]) = 0 /\ Held1(pl[b], pl[c]) = 0
      BY <3>2, <3>3, Held1Type
    <3>5. pl[c] \notin {n, p}
      BY <3>1, <3>2, <3>4, Held1Type DEF Serves
    <3>6. G.holders[pl[c]] = H.holders[pl[c]] + Held1(n, pl[c]) + Held1(p, pl[c])
                             - Held1(tb[b], pl[c]) - Held1(pl[b], pl[c])
      BY <3>1 DEF Serves
    <3>7. Held1(n, pl[c]) = 0 /\ Held1(p, pl[c]) = 0
      BY <3>5 DEF Held1
    <3> QED BY <3>1, <3>2, <3>4, <3>6, <3>7
  <2> QED BY <2>1, <2>2
<1> HIDE DEF f, g
<1>4. Rooted(G, f, g)
  BY <1>1, <1>2, <1>3 DEF Rooted
<1> QED BY <1>4 DEF f, g

LEMMA ServesTransitive ==
  ASSUME NEW H, NEW G, NEW K, NEW t, NEW q, NEW n, NEW p, NEW m, NEW s, NEW U,
         \A x \in Tables : H.holders[x] \in Nat,
         Serves(H, G, t, q, n, p, U), Serves(G, K, n, p, m, s, U)
  PROVE  Serves(H, K, t, q, m, s, U)
<1>1. ASSUME NEW x \in Tables
      PROVE  /\ H.holders[x] \in Nat
             /\ G.holders[x] = H.holders[x] + Held1(n, x) + Held1(p, x) - Held1(t, x) - Held1(q, x)
             /\ K.holders[x] = G.holders[x] + Held1(m, x) + Held1(s, x) - Held1(n, x) - Held1(p, x)
  BY DEF Serves
<1>2. ASSUME NEW x \in Tables
      PROVE  /\ K.holders[x] = H.holders[x] + Held1(m, x) + Held1(s, x) - Held1(t, x) - Held1(q, x)
             /\ H.holders[x] > Held1(t, x) + Held1(q, x) => G.holders[x] > Held1(n, x) + Held1(p, x)
  BY <1>1, Held1Type
<1>3. ASSUME NEW x \in Tables, H.holders[x] > Held1(t, x) + Held1(q, x)
      PROVE  /\ SameValue(H, K, x)
             /\ x \notin {t, q} => x \notin {m, s} /\ (x \notin U => Untouched(H, K, x))
  <2>1. SameValue(H, G, x) /\ (x \notin {t, q} => x \notin {n, p} /\ (x \notin U => Untouched(H, G, x)))
    BY <1>3 DEF Serves
  <2>2. SameValue(G, K, x) /\ (x \notin {n, p} => x \notin {m, s} /\ (x \notin U => Untouched(G, K, x)))
    BY <1>2, <1>3 DEF Serves
  <2> QED BY <2>1, <2>2, UntouchedTransitive
<1> QED BY <1>2, <1>3 DEF Serves

\* There is always room for another table.
LEMMA ImageSize ==
  ASSUME NEW f \in [Bitmaps -> Stores]
  PROVE  LET L == {t \in Tables : \E b \in Bitmaps : f[b] = t}
         IN  IsFiniteSet(L) /\ Cardinality(L) \in Nat /\ Cardinality(L) <= Cardinality(Bitmaps)
<1> DEFINE L == {t \in Tables : \E b \in Bitmaps : f[b] = t}
           E == {b \in Bitmaps : f[b] \in L}
           g == [b \in E |-> f[b]]
<1>1. IsFiniteSet(E) /\ Cardinality(E) <= Cardinality(Bitmaps) /\ Cardinality(Bitmaps) \in Nat
  BY RoomAssumption, FS_Subset, FS_CardinalityType
<1>2. g \in Surjection(E, L)
  BY DEF Surjection
<1> HIDE DEF L, E, g
<1>3. IsFiniteSet(L) /\ Cardinality(L) <= Cardinality(E)
  BY <1>1, <1>2, FS_Surjection
<1>4. Cardinality(L) \in Nat /\ Cardinality(E) \in Nat
  BY <1>1, <1>3, FS_CardinalityType
<1>5. IsFiniteSet(L) /\ Cardinality(L) \in Nat /\ Cardinality(L) <= Cardinality(Bitmaps)
  BY <1>1, <1>3, <1>4
<1> QED BY <1>5 DEF L

LEMMA RootedSpacious ==
  ASSUME NEW H, NEW tb, NEW pl, Rooted(H, tb, pl)
  PROVE  Spacious(H)
<1> DEFINE L == {t \in Tables : \E b \in Bitmaps : tb[b] = t}
           P == {t \in Tables : \E b \in Bitmaps : pl[b] = t}
           B == Cardinality(Bitmaps)
           C == Cardinality(Chunks)
           M == Cardinality(Live(H))
<1>1. /\ IsFiniteSet(L) /\ Cardinality(L) \in Nat /\ Cardinality(L) <= B
      /\ IsFiniteSet(P) /\ Cardinality(P) \in Nat /\ Cardinality(P) <= B
  BY ImageSize DEF Rooted
<1>2. Live(H) \subseteq L \cup P
  <2>1. ASSUME NEW t \in Live(H), t \notin L \cup P PROVE FALSE
    <3>1. t \in Tables /\ H.holders[t] # 0
      BY DEF Live
    <3>2. {b \in Bitmaps : tb[b] = t} = {} /\ {b \in Bitmaps : pl[b] = t} = {}
      BY <2>1, <3>1
    <3>3. H.holders[t] = Cardinality({b \in Bitmaps : tb[b] = t}) + Cardinality({b \in Bitmaps : pl[b] = t})
      BY <3>1 DEF Rooted, Holding
    <3> QED BY <3>1, <3>2, <3>3, FS_EmptySet
  <2> QED BY <2>1
<1>3. B \in Nat /\ C \in Nat /\ Cardinality(Tables) \in Nat /\ Cardinality(Payloads) \in Nat
  BY RoomAssumption, AddressAssumption, FS_CardinalityType
<1> HIDE DEF L, P
<1>4. /\ IsFiniteSet(L \cup P) /\ Cardinality(L \cup P) = Cardinality(L) + Cardinality(P) - Cardinality(L \cap P)
      /\ Cardinality(L \cap P) \in Nat
  BY <1>1, FS_Union, FS_Intersection, FS_CardinalityType
<1>5. M <= Cardinality(L \cup P) /\ M \in Nat /\ Cardinality(L \cup P) \in Nat
  BY <1>2, <1>4, FS_Subset, FS_CardinalityType
<1>6. Cardinality(Tables) > 2 * B /\ Cardinality(Payloads) >= (2 * B + 1) * C
  BY RoomAssumption
<1> HIDE DEF B, C, M
<1>7. M <= 2 * B
  BY <1>1, <1>3, <1>4, <1>5
<1>8. (M + 1) * C <= (2 * B + 1) * C
  <2>1. ASSUME NEW i \in Nat, NEW j \in Nat, i <= j, NEW k \in Nat PROVE i * k <= j * k
    BY <2>1
  <2>2. M + 1 \in Nat /\ 2 * B + 1 \in Nat /\ M + 1 <= 2 * B + 1
    BY <1>3, <1>5, <1>7
  <2> QED BY <1>3, <2>1, <2>2
<1>9. M < Cardinality(Tables) /\ (M + 1) * C <= Cardinality(Payloads)
  <2>1. (M + 1) * C \in Nat /\ (2 * B + 1) * C \in Nat
    BY <1>3, <1>5
  <2> QED BY <1>3, <1>5, <1>6, <1>7, <1>8, <2>1
<1> QED BY <1>9 DEF Spacious, M, C

-----------------------------------------------------------------------------
(***************************************************************************)
(* The keys of a table, and what a call leaves of the bitmaps it is not    *)
(* made on.                                                                *)
(***************************************************************************)
KeysOf(v) == {k \in Chunks \X Lows : k[1] \in DOMAIN v /\ k[2] \in v[k[1]]}
NonEmpty(v) == \A c \in DOMAIN v : v[c] # {}

\* A context x on a bitmap with the table t.
SoundContext(H, t, x) ==
  x # NoContext =>
    /\ x \in Contexts /\ x.table = t
    /\ x.chunk \in DOMAIN EntriesOf(H, t)
    /\ x.index = Below(DOMAIN EntriesOf(H, t), x.chunk)
    /\ x.private => ~IsShared(H, t) /\ Unshared(H, t, x.chunk)

\* A bitmap with the table t, the size m and the context x.
Fits(H, t, m, x) ==
  /\ NonEmpty(ValueIn(H, t))
  /\ m \in Nat /\ m >= Cardinality(KeysOf(ValueIn(H, t)))
  /\ ~(Scratches # {} /\ ~Refcounted(H)) => m = Cardinality(KeysOf(ValueIn(H, t)))
  /\ SoundContext(H, t, x)

Sound(H, tb, pl, sz, cx) ==
  /\ Account(H, None) /\ Rooted(H, tb, pl) /\ SharedNonEmpty(H)
  /\ sz \in [Bitmaps -> Nat] /\ cx \in [Bitmaps -> Contexts \cup {NoContext}]
  /\ \A b \in Bitmaps : Fits(H, tb[b], sz[b], cx[b])

LEMMA KeysOfFinite ==
  ASSUME NEW v
  PROVE  IsFiniteSet(KeysOf(v)) /\ Cardinality(KeysOf(v)) \in Nat
<1>1. IsFiniteSet(Chunks \X Lows)
  BY AddressAssumption, FS_Product
<1>2. IsFiniteSet(KeysOf(v))
  BY <1>1, FS_Subset DEF KeysOf
<1> QED BY <1>2, FS_CardinalityType

\* A bitmap whose table keeps its value, and its own payloads.
LEMMA FitsKept ==
  ASSUME NEW H, Account(H, None), NEW G, G.policy = H.policy, NEW t \in Stores, NEW m, NEW x, Fits(H, t, m, x),
         t \in Tables => SameValue(H, G, t),
         t \in Tables /\ x # NoContext /\ x.private => Untouched(H, G, t) /\ G.holders[t] = H.holders[t]
  PROVE  Fits(G, t, m, x) /\ ValueIn(G, t) = ValueIn(H, t)
<1>1. EntriesOf(G, t) = EntriesOf(H, t)
  BY DEF EntriesOf, SameValue, Stores
<1>2. ValueIn(G, t) = ValueIn(H, t)
  BY SameValueIn DEF Stores
<1>3. ASSUME x # NoContext, x.private, ~IsShared(H, t) /\ Unshared(H, t, x.chunk), x.table = t, x \in Contexts,
             x.chunk \in DOMAIN EntriesOf(H, t)
      PROVE  ~IsShared(G, t) /\ Unshared(G, t, x.chunk)
  <2>1. t \in Tables /\ t # Null
    BY <1>3, NullIsNoTable DEF Contexts
  <2>2. Untouched(H, G, t) /\ G.holders[t] = H.holders[t]
    BY <1>3, <2>1
  <2>3. x.chunk \in DOMAIN H.entries[t]
    BY <1>3, <2>1 DEF EntriesOf
  <2> QED BY <1>3, <2>1, <2>2, <2>3 DEF Untouched, SameValue, StaysAlone, IsShared, Counted, TableSharing, RoomOf, Unshared
<1>4. SoundContext(G, t, x)
  BY <1>1, <1>3 DEF SoundContext, Fits
<1> QED BY <1>2, <1>4 DEF Fits, Refcounted

\* The bitmaps whose handles the call copied have no context.
Operands(tb, cx, b, U) == \A c \in Bitmaps \ {b} : tb[c] \in U /\ tb[c] \in Tables =>
                            \E d \in Bitmaps \ {b} : tb[d] = tb[c] /\ cx[d] = NoContext

LEMMA OthersKept ==
  ASSUME NEW H, NEW tb, NEW pl, NEW sz, NEW cx, Sound(H, tb, pl, sz, cx), NEW b \in Bitmaps,
         NEW G, Account(G, None), NEW n, NEW p, NEW U, Serves(H, G, tb[b], pl[b], n, p, U),
         Operands(tb, cx, b, U),
         NEW m, NEW x \in Contexts \cup {NoContext}, Fits(G, n, m, x)
  PROVE  /\ Sound(G, [tb EXCEPT ![b] = n], [pl EXCEPT ![b] = p], [sz EXCEPT ![b] = m], [cx EXCEPT ![b] = x])
         /\ \A c \in Bitmaps \ {b} : ValueIn(G, tb[c]) = ValueIn(H, tb[c])
<1> DEFINE f == [tb EXCEPT ![b] = n]
           g == [pl EXCEPT ![b] = p]
           h == [sz EXCEPT ![b] = m]
           y == [cx EXCEPT ![b] = x]
           t == tb[b]
           q == pl[b]
<1>1. /\ Account(H, None) /\ Rooted(H, tb, pl) /\ SharedNonEmpty(H) /\ sz \in [Bitmaps -> Nat]
      /\ cx \in [Bitmaps -> Contexts \cup {NoContext}] /\ \A c \in Bitmaps : Fits(H, tb[c], sz[c], cx[c])
      /\ tb \in [Bitmaps -> Stores]
  BY DEF Sound, Rooted
<1>2. Rooted(G, f, g)
  BY <1>1, RootedServes
<1>3. ASSUME NEW c \in Bitmaps \ {b}, tb[c] \in Tables
      PROVE  /\ H.holders[tb[c]] \in Nat
             /\ H.holders[tb[c]] > Held1(t, tb[c]) + Held1(q, tb[c])
             /\ H.holders[tb[c]] = 1 => tb[c] \notin {t, q}
  <2>1. /\ H.holders[tb[c]] \in Nat
        /\ H.holders[tb[c]] >= Held1(t, tb[c]) + Held1(q, tb[c]) + Held1(tb[c], tb[c])
    BY <1>1, <1>3, RootedHolders
  <2> QED BY <2>1, Held1Type
<1>4. ASSUME NEW c \in Bitmaps \ {b}, tb[c] \in Tables
      PROVE  /\ SameValue(H, G, tb[c])
             /\ cx[c] # NoContext /\ cx[c].private => Untouched(H, G, tb[c]) /\ G.holders[tb[c]] = H.holders[tb[c]]
  <2> DEFINE u == tb[c]
  <2>1. SameValue(H, G, u) /\ (u \notin {t, q} => u \notin {n, p} /\ (u \notin U => Untouched(H, G, u)))
    BY <1>3, <1>4 DEF Serves
  <2>2. ASSUME cx[c] # NoContext, cx[c].private
        PROVE  Untouched(H, G, u) /\ G.holders[u] = H.holders[u]
    <3>1. ~IsShared(H, u)
      BY <1>1, <2>2 DEF Fits, SoundContext
    <3>2. H.holders[u] # 0
      BY <1>3, <1>4, Held1Type
    <3>3. H.holders[u] = 1
      BY <1>1, <1>4, <3>1, <3>2, HoldersSharedOrOne
    <3>4. u \notin U
      <4>1. ASSUME NEW d \in Bitmaps \ {b}, tb[d] = u, cx[d] = NoContext PROVE FALSE
        <5>1. c # d /\ d \in Bitmaps /\ c \in Bitmaps \ {d} /\ tb[d] = tb[c]
          BY <2>2, <4>1
        <5>2. H.holders[u] >= Held1(u, u) + Held1(pl[d], u) + Held1(u, u)
          BY <1>1, <1>4, <5>1, RootedHolders
        <5> QED BY <3>3, <5>2, Held1Type
      <4> QED BY <1>4, <4>1 DEF Operands
    <3>5. u \notin {t, q} /\ u \notin {n, p} /\ Untouched(H, G, u)
      BY <1>3, <1>4, <2>1, <3>3, <3>4
    <3>6. G.holders[u] = H.holders[u] + Held1(n, u) + Held1(p, u) - Held1(t, u) - Held1(q, u)
      BY <1>4 DEF Serves
    <3>7. Held1(n, u) = 0 /\ Held1(p, u) = 0 /\ Held1(t, u) = 0 /\ Held1(q, u) = 0
      BY <3>5 DEF Held1
    <3> QED BY <3>3, <3>5, <3>6, <3>7
  <2> QED BY <2>1, <2>2
<1>5. ASSUME NEW c \in Bitmaps \ {b}
      PROVE  Fits(G, tb[c], sz[c], cx[c]) /\ ValueIn(G, tb[c]) = ValueIn(H, tb[c])
  <2>1. tb[c] \in Stores /\ Fits(H, tb[c], sz[c], cx[c]) /\ G.policy = H.policy
    BY <1>1 DEF Serves
  <2> QED BY <1>1, <1>4, <2>1, FitsKept
<1>6. \A c \in Bitmaps : Fits(G, f[c], h[c], y[c])
  BY <1>1, <1>5
<1>7. SharedNonEmpty(G)
  <2> SUFFICES ASSUME NEW u \in Tables, G.holders[u] > 1 PROVE DOMAIN G.entries[u] # {}
    BY DEF SharedNonEmpty
  <2>1. G.holders[u] = H.holders[u] + Held1(n, u) + Held1(p, u) - Held1(t, u) - Held1(q, u)
    BY DEF Serves
  <2>2. H.holders[u] \in Nat /\ H.holders[u] >= Held1(t, u) + Held1(q, u)
    BY <1>1, RootedOwn
  <2>3. p # u
    BY DEF Serves
  <2>4. H.holders[u] > Held1(t, u) + Held1(q, u)
    BY <2>1, <2>2, <2>3, Held1Type
  <2>5. SameValue(H, G, u) /\ (u \notin {t, q} => u \notin {n, p})
    BY <2>4 DEF Serves
  <2>6. H.holders[u] > 1
    <3>1. CASE u \in {t, q}
      BY <2>2, <2>4, <3>1, Held1Type
    <3>2. CASE u \notin {t, q}
      <4>1. Held1(n, u) = 0 /\ Held1(p, u) = 0 /\ Held1(t, u) = 0 /\ Held1(q, u) = 0
        BY <2>5, <3>2 DEF Held1
      <4> QED BY <2>1, <2>2, <4>1
    <3> QED BY <3>1, <3>2
  <2> QED BY <1>1, <2>5, <2>6 DEF SharedNonEmpty, SameValue
<1>8. h \in [Bitmaps -> Nat] /\ y \in [Bitmaps -> Contexts \cup {NoContext}]
  BY <1>1 DEF Fits
<1> HIDE DEF f, g, h, y
<1>9. Sound(G, f, g, h, y)
  BY <1>2, <1>6, <1>7, <1>8 DEF Sound
<1> QED BY <1>5, <1>9 DEF f, g, h, y

-----------------------------------------------------------------------------
(***************************************************************************)
(* The steps of a call, on a bitmap with the table t and the pool q.       *)
(***************************************************************************)
Hosts(H, t, q) ==
  /\ t \in Stores /\ q \in Stores
  /\ \A x \in Tables : H.holders[x] \in Nat
  /\ t \in Tables => H.holders[t] # 0
  /\ q \in Tables => H.holders[q] = 1 /\ q # t

Alone(H, t) == t \in Tables => H.holders[t] = 1

LEMMA HostsServes ==
  ASSUME NEW H, NEW t, NEW q, Hosts(H, t, q), NEW G, NEW n, NEW p, NEW U, Serves(H, G, t, q, n, p, U),
         \A x \in Tables : G.holders[x] \in Nat
  PROVE  Hosts(G, n, p)
<1>1. n \in Stores /\ p \in Stores /\ (p \in Tables => G.holders[p] = 1)
  BY DEF Serves
<1>2. ASSUME NEW x \in Tables
      PROVE  G.holders[x] >= Held1(n, x) + Held1(p, x)
  <2>1. G.holders[x] = H.holders[x] + Held1(n, x) + Held1(p, x) - Held1(t, x) - Held1(q, x)
    BY DEF Serves
  <2>2. H.holders[x] \in Nat /\ H.holders[x] >= Held1(t, x) + Held1(q, x)
    BY DEF Hosts, Held1
  <2> QED BY <2>1, <2>2, Held1Type
<1>3. n \in Tables => G.holders[n] # 0
  BY <1>2, Held1Type
<1>4. p \in Tables => p # n
  BY <1>1, <1>2, Held1Type
<1> QED BY <1>1, <1>3, <1>4 DEF Hosts

LEMMA StaysServes ==
  ASSUME NEW H, NEW t, NEW q, Hosts(H, t, q), NEW U
  PROVE  Serves(H, H, t, q, t, q, U)
<1>1. \A x \in Tables : H.holders[x] = H.holders[x] + Held1(t, x) + Held1(q, x) - Held1(t, x) - Held1(q, x)
  BY Held1Type DEF Hosts
<1>2. \A x \in Tables : SameValue(H, H, x) /\ Untouched(H, H, x)
  BY UntouchedTransitive
<1> QED BY <1>1, <1>2 DEF Serves, Hosts

\* A step in the table and the pool of the bitmap, and in no block besides.
LEMMA LocalServes ==
  ASSUME NEW H, NEW t, NEW q, Hosts(H, t, q), Alone(H, t), NEW G, NEW U,
         G.policy = H.policy, G.holders = H.holders,
         \A x \in Tables \ {t, q} : SameValue(H, G, x) /\ (x \notin U => Untouched(H, G, x))
  PROVE  Serves(H, G, t, q, t, q, U)
<1>1. \A x \in Tables : G.holders[x] = H.holders[x] + Held1(t, x) + Held1(q, x) - Held1(t, x) - Held1(q, x)
  BY Held1Type DEF Hosts
<1>2. ASSUME NEW x \in Tables, H.holders[x] > Held1(t, x) + Held1(q, x)
      PROVE  x \notin {t, q}
  <2>1. H.holders[x] \in Nat /\ (x = t => H.holders[x] = 1) /\ (x = q => H.holders[x] = 1)
    BY DEF Hosts, Alone
  <2> QED BY <1>2, <2>1, Held1Type
<1> QED BY <1>1, <1>2 DEF Serves, Hosts

\* The same where nothing is said of an operand.
LEMMA OwnServes ==
  ASSUME NEW H, NEW t, NEW q, Hosts(H, t, q), Alone(H, t), NEW G, NEW U, SameBlocks(H, G),
         \A x \in Tables \ {t, q} : Untouched(H, G, x)
  PROVE  Serves(H, G, t, q, t, q, U)
<1>1. \A x \in Tables \ {t, q} : SameValue(H, G, x) /\ Untouched(H, G, x)
  BY DEF Untouched
<1> QED BY <1>1, LocalServes DEF SameBlocks

\* The bitmap's table exchanged for the block n, which was free.
LEMMA MoveServes ==
  ASSUME NEW H, NEW t, NEW q, Hosts(H, t, q), NEW G, NEW n \in Tables, NEW U,
         G.policy = H.policy, HolderMoves(H, G, t, n), n # t => H.holders[n] = 0, n # q,
         \A x \in Tables \ {t, n} : Untouched(H, G, x),
         t \in Tables /\ H.holders[t] > 1 => SameValue(H, G, t)
  PROVE  Serves(H, G, t, q, n, q, U)
<1>1. ASSUME NEW x \in Tables
      PROVE  /\ H.holders[x] \in Nat
             /\ G.holders[x] = H.holders[x] + Held1(n, x) - Held1(t, x)
             /\ G.holders[x] = H.holders[x] + Held1(n, x) + Held1(q, x) - Held1(t, x) - Held1(q, x)
  <2>1. H.holders[x] \in Nat /\ G.holders[x] = H.holders[x] + Held1(n, x) - Held1(t, x)
    BY DEF Hosts, HolderMoves
  <2>2. Held1(n, x) \in Nat /\ Held1(q, x) \in Nat /\ Held1(t, x) \in Nat
    BY Held1Type
  <2> QED BY <2>1, <2>2
<1>2. q \in Tables => G.holders[q] = 1
  <2>1. q \in Tables => Held1(n, q) = 0 /\ Held1(t, q) = 0 /\ H.holders[q] = 1
    BY DEF Hosts, Held1
  <2> QED BY <1>1, <2>1
<1>3. ASSUME NEW x \in Tables, H.holders[x] > Held1(t, x) + Held1(q, x)
      PROVE  /\ SameValue(H, G, x)
             /\ x \notin {t, q} => x \notin {n, q} /\ Untouched(H, G, x)
  <2>1. H.holders[x] \in Nat /\ H.holders[x] # 0 /\ (x = t => H.holders[x] > 1)
    BY <1>1, <1>3, Held1Type
  <2>2. x = n => x = t
    BY <2>1
  <2> QED BY <2>1, <2>2 DEF Untouched
<1> QED BY <1>1, <1>2, <1>3 DEF Serves, Hosts, Stores

\* The bitmap's table let go of, or its pool.
LEMMA ReleaseServes ==
  ASSUME NEW H, NEW t, NEW q, Hosts(H, t, q), NEW G, NEW U
  PROVE  /\ Releases(H, G, t) => Serves(H, G, t, q, Null, q, U)
         /\ Releases(H, G, q) => Serves(H, G, t, q, t, Null, U)
<1>1. ASSUME NEW x \in Tables
      PROVE  H.holders[x] \in Nat /\ Held1(Null, x) = 0
             /\ Held1(t, x) \in Nat /\ Held1(q, x) \in Nat
  BY NullIsNoTable, Held1Type DEF Hosts, Held1
<1>2. ASSUME Releases(H, G, t) PROVE Serves(H, G, t, q, Null, q, U)
  <2>1. ASSUME NEW x \in Tables
        PROVE  /\ G.holders[x] = H.holders[x] - Held1(t, x)
               /\ G.holders[x] = H.holders[x] + Held1(Null, x) + Held1(q, x) - Held1(t, x) - Held1(q, x)
    <3>1. G.holders[x] = H.holders[x] - Held1(t, x)
      BY <1>2 DEF Releases
    <3> QED BY <1>1, <3>1
  <2>2. q \in Tables => G.holders[q] = 1
    <3>1. q \in Tables => Held1(t, q) = 0 /\ H.holders[q] = 1
      BY DEF Hosts, Held1
    <3> QED BY <2>1, <3>1
  <2>3. ASSUME NEW x \in Tables, H.holders[x] > Held1(t, x) + Held1(q, x)
        PROVE  /\ SameValue(H, G, x)
               /\ x \notin {t, q} => x \notin {Null, q} /\ Untouched(H, G, x)
    <3>1. x = t => H.holders[t] > 1
      BY <1>1, <2>3, Held1Type
    <3> QED BY <1>2, <3>1, NullIsNoTable DEF Releases, Untouched
  <2> QED BY <1>2, <2>1, <2>2, <2>3 DEF Serves, Hosts, Stores, Releases
<1>3. ASSUME Releases(H, G, q) PROVE Serves(H, G, t, q, t, Null, U)
  <2>1. ASSUME NEW x \in Tables
        PROVE  G.holders[x] = H.holders[x] + Held1(t, x) + Held1(Null, x) - Held1(t, x) - Held1(q, x)
    <3>1. G.holders[x] = H.holders[x] - Held1(q, x)
      BY <1>3 DEF Releases
    <3> QED BY <1>1, <3>1
  <2>2. ASSUME NEW x \in Tables, H.holders[x] > Held1(t, x) + Held1(q, x)
        PROVE  /\ SameValue(H, G, x)
               /\ x \notin {t, q} => x \notin {t, Null} /\ Untouched(H, G, x)
    <3>1. x = q => H.holders[x] = 1
      BY DEF Hosts
    <3>2. x # q
      BY <1>1, <2>2, <3>1, Held1Type
    <3> QED BY <1>3, <3>2, NullIsNoTable DEF Releases, Untouched
  <2> QED BY <1>3, <2>1, <2>2, NullIsNoTable DEF Serves, Hosts, Stores, Releases
<1> QED BY <1>2, <1>3

\* The table and the pool exchanged.
LEMMA ExchangeServes ==
  ASSUME NEW H, NEW t, NEW q, Hosts(H, t, q), Alone(H, t), NEW U
  PROVE  Serves(H, H, t, q, q, t, U)
<1>1. ASSUME NEW x \in Tables
      PROVE  H.holders[x] = H.holders[x] + Held1(q, x) + Held1(t, x) - Held1(t, x) - Held1(q, x)
  <2>1. H.holders[x] \in Nat /\ Held1(q, x) \in Nat /\ Held1(t, x) \in Nat
    BY Held1Type DEF Hosts
  <2> QED BY <2>1
<1>2. \A x \in Tables : SameValue(H, H, x) /\ Untouched(H, H, x)
  BY UntouchedTransitive
<1> QED BY <1>1, <1>2 DEF Serves, Hosts, Alone


-----------------------------------------------------------------------------
(***************************************************************************)
(* A call on b, step by step: it begins with the bitmaps as they are, each *)
(* step leaves b a heap, a table and a pool, and it ends with a size and a *)
(* context that fit them.                                                  *)
(***************************************************************************)
Good == Sound(heap, table, pool, size, context)

Call(b, G, n, p, U) ==
  /\ Account(G, None) /\ Spacious(G) /\ Hosts(G, n, p)
  /\ Serves(heap, G, table[b], pool[b], n, p, U)

Leaves(b, G, n, p, m, x) ==
  /\ heap' = G /\ table' = [table EXCEPT ![b] = n] /\ pool' = [pool EXCEPT ![b] = p]
  /\ size' = [size EXCEPT ![b] = m] /\ context' = [context EXCEPT ![b] = x]

\* What b held, and what others hold.
Value(b) == ValueIn(heap, table[b])
OthersStay(b) == \A c \in Bitmaps \ {b} : ValueIn(heap', table'[c]) = ValueIn(heap, table[c])

LEMMA CallBegins ==
  ASSUME Good, NEW b \in Bitmaps, NEW U
  PROVE  Call(b, heap, table[b], pool[b], U)
<1>1. Account(heap, None) /\ Rooted(heap, table, pool)
  BY DEF Good, Sound
<1>2. Spacious(heap)
  BY <1>1, RootedSpacious
<1>3. \A x \in Tables : heap.holders[x] \in Nat /\ heap.holders[x] >= Held1(table[b], x) + Held1(pool[b], x)
  BY <1>1, RootedOwn
<1>4. /\ table[b] \in Stores /\ pool[b] \in Stores
      /\ pool[b] \in Tables => heap.holders[pool[b]] = 1
  BY <1>1 DEF Rooted
<1>5. table[b] \in Tables => heap.holders[table[b]] # 0
  BY <1>3, Held1Type
<1>6. pool[b] \in Tables => pool[b] # table[b]
  BY <1>3, <1>4, Held1Type
<1>7. Hosts(heap, table[b], pool[b])
  BY <1>3, <1>4, <1>5, <1>6 DEF Hosts
<1> QED BY <1>1, <1>2, <1>7, StaysServes DEF Call

LEMMA CallGoesOn ==
  ASSUME Good, NEW b \in Bitmaps, NEW U, NEW G, NEW n, NEW p, Call(b, G, n, p, U),
         NEW K, Account(K, None), NEW m, NEW s, Serves(G, K, n, p, m, s, U)
  PROVE  Call(b, K, m, s, U)
<1>1. /\ Hosts(G, n, p) /\ Serves(heap, G, table[b], pool[b], n, p, U)
      /\ Rooted(heap, table, pool) /\ \A x \in Tables : heap.holders[x] \in Nat
  <2>1. Rooted(heap, table, pool) /\ \A x \in Tables : heap.holders[x] \in Nat
    BY RootedOwn DEF Good, Sound
  <2> QED BY <2>1 DEF Call
<1>2. Serves(heap, K, table[b], pool[b], m, s, U)
  BY <1>1, ServesTransitive
<1>3. \A x \in Tables : K.holders[x] \in Nat
  BY DEF Account, Heaps
<1>4. Hosts(K, m, s)
  BY <1>1, <1>3, HostsServes
<1>5. Rooted(K, [table EXCEPT ![b] = m], [pool EXCEPT ![b] = s])
  BY <1>1, <1>2, RootedServes
<1>6. Spacious(K)
  BY <1>5, RootedSpacious
<1> QED BY <1>2, <1>4, <1>6 DEF Call

LEMMA CallEnds ==
  ASSUME Good, NEW b \in Bitmaps, NEW U, Operands(table, context, b, U),
         NEW G, NEW n, NEW p, Call(b, G, n, p, U),
         NEW m, NEW x \in Contexts \cup {NoContext}, Fits(G, n, m, x), Leaves(b, G, n, p, m, x)
  PROVE  Good' /\ OthersStay(b) /\ table'[b] = n
<1>1. Sound(heap, table, pool, size, context) /\ Account(G, None) /\ Serves(heap, G, table[b], pool[b], n, p, U)
  BY DEF Good, Call
<1>2. /\ Sound(G, [table EXCEPT ![b] = n], [pool EXCEPT ![b] = p], [size EXCEPT ![b] = m], [context EXCEPT ![b] = x])
      /\ \A c \in Bitmaps \ {b} : ValueIn(G, table[c]) = ValueIn(heap, table[c])
  BY <1>1, OthersKept
<1>3. table \in [Bitmaps -> Stores]
  BY <1>1 DEF Sound, Rooted
<1>4. /\ heap' = G /\ table' = [table EXCEPT ![b] = n] /\ pool' = [pool EXCEPT ![b] = p]
      /\ size' = [size EXCEPT ![b] = m] /\ context' = [context EXCEPT ![b] = x]
  BY DEF Leaves
<1>5. Sound(heap', table', pool', size', context')
  BY <1>2, <1>4
<1>6. Good'
  BY <1>5 DEF Good
<1>7. \A c \in Bitmaps \ {b} : table'[c] = table[c]
  BY <1>3, <1>4
<1>8. table'[b] = n
  BY <1>3, <1>4
<1>9. OthersStay(b)
  BY <1>2, <1>4, <1>7 DEF OthersStay
<1> QED BY <1>6, <1>8, <1>9

\* A call that copies no handle of another's table.
LEMMA NoOperands ==
  ASSUME NEW b PROVE Operands(table, context, b, {})
BY DEF Operands


-----------------------------------------------------------------------------
\* What the call has of b: a table of its own, with what b held.
Owns(b, G, n, U) ==
  /\ Call(b, G, n, pool[b], U) /\ Alone(G, n)
  /\ ValueIn(G, n) = Value(b)
  /\ DOMAIN EntriesOf(G, n) = DOMAIN Held(b)

LEMMA ValueDomain ==
  ASSUME NEW H, NEW t
  PROVE  DOMAIN ValueIn(H, t) = DOMAIN EntriesOf(H, t)
         /\ \A c \in DOMAIN EntriesOf(H, t) : ValueIn(H, t)[c] = H.keys[EntriesOf(H, t)[c]]
BY DEF ValueIn, ValueOf

LEMMA CallType ==
  ASSUME NEW b \in Bitmaps, NEW G, NEW n, NEW p, NEW U, Call(b, G, n, p, U)
  PROVE  /\ G \in Heaps /\ n \in Stores /\ p \in Stores
         /\ n \in Tables => G.holders[n] # 0
         /\ p \in Tables => G.holders[p] = 1 /\ p # n
         /\ EntriesOf(G, n) \in Entries
         /\ n \in Tables => EntriesOf(G, n) = G.entries[n]
         /\ DOMAIN EntriesOf(G, n) # {} => n \in Tables
<1>1. /\ G \in Heaps /\ n \in Stores /\ p \in Stores
      /\ n \in Tables => G.holders[n] # 0
      /\ p \in Tables => G.holders[p] = 1 /\ p # n
  BY DEF Call, Hosts, Account
<1> QED BY <1>1, EntriesOfType DEF Stores

\* detach(), make_unique(): the table is b's own already, or a copy of it.
LEMMA OwnTableCall ==
  ASSUME Good, NEW b \in Bitmaps, NEW U, NEW least \in Nat
  PROVE  LET at == OwnTable(table[b], least)
         IN  /\ Owns(b, at.heap, at.table, U)
             /\ ~IsShared(heap, table[b]) => at.heap = heap /\ at.table = table[b]
             /\ IsShared(heap, table[b]) => at.table # table[b]
<1> DEFINE t == table[b]
           at == OwnTable(t, least)
<1>1. Call(b, heap, t, pool[b], U) /\ t \in Stores /\ pool[b] \in Stores
  BY CallBegins DEF Call, Hosts
<1>2. Account(heap, None) /\ Spacious(heap) /\ Hosts(heap, t, pool[b])
  BY <1>1 DEF Call
<1>3. CASE ~IsShared(heap, t)
  <2>1. at.heap = heap /\ at.table = t
    BY <1>3 DEF OwnTable
  <2>2. Alone(heap, t)
    <3>1. ASSUME t \in Tables PROVE heap.holders[t] = 1
      <4>1. heap.holders[t] # 0
        BY <1>2, <3>1 DEF Hosts
      <4> QED BY <1>2, <1>3, <3>1, <4>1, HoldersSharedOrOne
    <3> QED BY <3>1 DEF Alone
  <2> HIDE DEF at
  <2>3. Owns(b, heap, t, U)
    BY <1>1, <2>2 DEF Owns, Value, Held
  <2> QED BY <1>3, <2>1, <2>3 DEF at
<1>4. CASE IsShared(heap, t)
  <2> DEFINE D == Detached(heap, t, least)
  <2>1. at = D
    BY <1>4 DEF OwnTable
  <2>2. t \in Tables
    BY <1>1, <1>4, NullNotShared DEF Stores
  <2>3. heap.holders[t] # 0
    BY <1>2, <2>2 DEF Hosts
  <2>4. /\ Account(D.heap, None) /\ Rehoused(heap, D.heap, t, D.table)
        /\ D.table \in Tables \ {t} /\ D.heap.holders[D.table] = 1
    BY <1>2, <1>4, <2>2, <2>3, DetachedAccount
  <2> DEFINE G == D.heap
             n == D.table
  <2> HIDE DEF D, G, n
  <2>5. /\ Account(G, None) /\ Rehoused(heap, G, t, n) /\ n \in Tables /\ n # t /\ G.holders[n] = 1
    BY <2>4 DEF G, n
  <2>6. /\ G.policy = heap.policy /\ HolderMoves(heap, G, t, n) /\ heap.holders[n] = 0
        /\ ValueIn(G, n) = ValueIn(heap, t)
        /\ \A x \in Tables \ {t, n} : Untouched(heap, G, x)
        /\ t \in Tables /\ heap.holders[t] > 1 => SameValue(heap, G, t)
    BY <2>5 DEF Rehoused
  <2>7. n # pool[b]
    BY <1>2, <2>5, <2>6 DEF Hosts
  <2>8. Serves(heap, G, t, pool[b], n, pool[b], U)
    BY <1>2, <2>5, <2>6, <2>7, MoveServes
  <2>9. Call(b, G, n, pool[b], U)
    BY <1>1, <2>5, <2>8, CallGoesOn
  <2>10. DOMAIN EntriesOf(G, n) = DOMAIN EntriesOf(heap, t)
    <3>1. DOMAIN ValueIn(G, n) = DOMAIN ValueIn(heap, t)
      BY <2>6
    <3> QED BY <3>1, ValueDomain
  <2>11. Owns(b, G, n, U)
    BY <2>5, <2>6, <2>9, <2>10 DEF Owns, Alone, Value, Held
  <2> HIDE DEF at
  <2> QED BY <1>4, <2>1, <2>5, <2>11 DEF at, G, n
<1> QED BY <1>3, <1>4

\* A context stays good while its table keeps its entries, and its payload is
\* on its own.
Keeps(H, G, t) ==
  /\ SameBlocks(H, G) /\ DOMAIN G.entries[t] = DOMAIN H.entries[t]
  /\ \A d \in DOMAIN H.entries[t] : H.refs[H.entries[t][d]] = 1 => G.refs[G.entries[t][d]] = 1

LEMMA ContextKept ==
  ASSUME NEW H, NEW G, NEW t \in Stores, NEW x, SoundContext(H, t, x), t \in Tables => Keeps(H, G, t)
  PROVE  SoundContext(G, t, x)
<1> SUFFICES ASSUME x # NoContext PROVE SoundContext(G, t, x)
  BY DEF SoundContext
<1>1. /\ x \in Contexts /\ x.table = t /\ x.chunk \in DOMAIN EntriesOf(H, t)
      /\ x.index = Below(DOMAIN EntriesOf(H, t), x.chunk)
      /\ x.private => ~IsShared(H, t) /\ Unshared(H, t, x.chunk)
  BY DEF SoundContext
<1>2. t \in Tables /\ t # Null
  BY <1>1, NullIsNoTable DEF Contexts
<1>3. SameBlocks(H, G) /\ DOMAIN EntriesOf(G, t) = DOMAIN EntriesOf(H, t) /\ EntriesOf(H, t) = H.entries[t]
  BY <1>2 DEF Keeps, EntriesOf
<1>4. x.private => ~IsShared(G, t) /\ Unshared(G, t, x.chunk)
  BY <1>1, <1>2, <1>3 DEF Keeps, SameBlocks, IsShared, Counted, TableSharing, RoomOf, Unshared
<1> QED BY <1>1, <1>3, <1>4 DEF SoundContext

LEMMA NoSoundContext ==
  ASSUME NEW H, NEW t PROVE SoundContext(H, t, NoContext)
BY DEF SoundContext

LEMMA StepKeeps ==
  ASSUME NEW H, NEW G, NEW t, NEW c
  PROVE  /\ Owned(H, G, t, c) => Keeps(H, G, t)
         /\ \A K : Writes(H, G, t, c, K) => Keeps(H, G, t)
         /\ Keeps(H, H, t)
         /\ \A K : Keeps(H, G, t) /\ Keeps(G, K, t) => Keeps(H, K, t)
<1>1. Owned(H, G, t, c) => Keeps(H, G, t)
  BY DEF Owned, Keeps
<1>2. \A K : Writes(H, G, t, c, K) => Keeps(H, G, t)
  BY DEF Writes, Keeps
<1>3. Keeps(H, H, t)
  BY DEF Keeps, SameBlocks
<1>4. \A K : Keeps(H, G, t) /\ Keeps(G, K, t) => Keeps(H, K, t)
  BY DEF Keeps, SameBlocks
<1> QED BY <1>1, <1>2, <1>3, <1>4


-----------------------------------------------------------------------------
(***************************************************************************)
(* The keys of b after a step, and how many there are.                     *)
(***************************************************************************)
LEMMA ValueType ==
  ASSUME NEW H \in Heaps, NEW t \in Stores
  PROVE  ValueIn(H, t) \in Maps
<1>1. EntriesOf(H, t) \in Entries
  BY EntriesOfType DEF Stores
<1> QED BY <1>1, ValueOfType DEF ValueIn

LEMMA KeysMember ==
  ASSUME NEW v, NEW c, NEW k
  PROVE  <<c, k>> \in KeysOf(v) <=> c \in Chunks /\ k \in Lows /\ c \in DOMAIN v /\ k \in v[c]
BY DEF KeysOf

LEMMA KeysAdded ==
  ASSUME NEW v \in Maps, NEW c \in Chunks, NEW k \in Lows, NEW w \in Maps,
         DOMAIN w = {c} \cup DOMAIN v, \A d \in DOMAIN v \ {c} : w[d] = v[d],
         w[c] = {k} \cup (IF c \in DOMAIN v THEN v[c] ELSE {})
  PROVE  KeysOf(w) = KeysOf(v) \cup {<<c, k>>}
<1>1. ASSUME NEW d \in Chunks, NEW l \in Lows
      PROVE  <<d, l>> \in KeysOf(w) <=> <<d, l>> \in KeysOf(v) \/ <<d, l>> = <<c, k>>
  <2>1. CASE d = c
    BY <2>1, KeysMember
  <2>2. CASE d # c
    BY <2>2, KeysMember
  <2> QED BY <2>1, <2>2
<1>2. KeysOf(w) \subseteq Chunks \X Lows /\ KeysOf(v) \subseteq Chunks \X Lows
  BY DEF KeysOf
<1> QED BY <1>1, <1>2

LEMMA KeysCut ==
  ASSUME NEW v \in Maps, NEW c \in DOMAIN v, NEW k \in Lows, NEW w \in Maps,
         \A d \in DOMAIN v \ {c} : d \in DOMAIN w /\ w[d] = v[d],
         DOMAIN w \subseteq DOMAIN v,
         IF v[c] \subseteq {k} THEN c \notin DOMAIN w ELSE c \in DOMAIN w /\ w[c] = v[c] \ {k}
  PROVE  KeysOf(w) = KeysOf(v) \ {<<c, k>>}
<1>1. ASSUME NEW d \in Chunks, NEW l \in Lows
      PROVE  <<d, l>> \in KeysOf(w) <=> <<d, l>> \in KeysOf(v) /\ <<d, l>> # <<c, k>>
  <2>1. CASE d = c
    BY <2>1, KeysMember
  <2>2. CASE d # c
    BY <2>2, KeysMember
  <2> QED BY <2>1, <2>2
<1>2. KeysOf(w) \subseteq Chunks \X Lows /\ KeysOf(v) \subseteq Chunks \X Lows
  BY DEF KeysOf
<1> QED BY <1>1, <1>2

\* One key more, or one less.
LEMMA SizeAdded ==
  ASSUME NEW v, NEW a, NEW w
  PROVE  /\ KeysOf(w) = KeysOf(v) \cup {a} =>
              Cardinality(KeysOf(w)) = Cardinality(KeysOf(v)) + IF a \in KeysOf(v) THEN 0 ELSE 1
         /\ KeysOf(w) = KeysOf(v) \ {a} =>
              Cardinality(KeysOf(w)) = Cardinality(KeysOf(v)) - IF a \in KeysOf(v) THEN 1 ELSE 0
<1>1. /\ IsFiniteSet(KeysOf(v)) /\ Cardinality(KeysOf(v)) \in Nat
      /\ IsFiniteSet(KeysOf(w)) /\ Cardinality(KeysOf(w)) \in Nat
  BY KeysOfFinite
<1>2. ASSUME KeysOf(w) = KeysOf(v) \cup {a}
      PROVE  Cardinality(KeysOf(w)) = Cardinality(KeysOf(v)) + IF a \in KeysOf(v) THEN 0 ELSE 1
  <2>1. Cardinality(KeysOf(v) \cup {a}) =
          IF a \in KeysOf(v) THEN Cardinality(KeysOf(v)) ELSE Cardinality(KeysOf(v)) + 1
    BY <1>1, FS_AddElement
  <2> QED BY <1>1, <1>2, <2>1
<1>3. ASSUME KeysOf(w) = KeysOf(v) \ {a}
      PROVE  Cardinality(KeysOf(w)) = Cardinality(KeysOf(v)) - IF a \in KeysOf(v) THEN 1 ELSE 0
  <2>1. Cardinality(KeysOf(v) \ {a}) =
          IF a \in KeysOf(v) THEN Cardinality(KeysOf(v)) - 1 ELSE Cardinality(KeysOf(v))
    BY <1>1, FS_RemoveElement
  <2> QED BY <1>1, <1>3, <2>1
<1> QED BY <1>2, <1>3

LEMMA GoodBitmap ==
  ASSUME Good, NEW b \in Bitmaps
  PROVE  /\ table[b] \in Stores /\ pool[b] \in Stores /\ heap \in Heaps
         /\ size[b] \in Nat /\ context[b] \in Contexts \cup {NoContext}
         /\ Fits(heap, table[b], size[b], context[b])
         /\ Value(b) \in Maps /\ NonEmpty(Value(b))
         /\ DOMAIN Value(b) = DOMAIN Held(b)
         /\ DOMAIN Held(b) \subseteq Chunks
         /\ table \in [Bitmaps -> Stores] /\ pool \in [Bitmaps -> Stores]
         /\ size \in [Bitmaps -> Nat] /\ context \in [Bitmaps -> Contexts \cup {NoContext}]
<1>1. /\ heap \in Heaps /\ table \in [Bitmaps -> Stores] /\ pool \in [Bitmaps -> Stores]
      /\ size \in [Bitmaps -> Nat] /\ context \in [Bitmaps -> Contexts \cup {NoContext}]
      /\ Fits(heap, table[b], size[b], context[b])
  BY DEF Good, Sound, Account, Rooted
<1>2. Value(b) \in Maps
  BY <1>1, ValueType DEF Value
<1>3. NonEmpty(Value(b))
  BY <1>1 DEF Fits, Value
<1>4. DOMAIN Value(b) = DOMAIN Held(b)
  BY ValueDomain DEF Value, Held
<1>5. DOMAIN Held(b) \subseteq Chunks
  BY <1>2, <1>4, MapsElim
<1> QED BY <1>1, <1>2, <1>3, <1>4, <1>5

\* The size of b, after a step that changes it as it changes the keys.
LEMMA FitsFor ==
  ASSUME Good, NEW b \in Bitmaps, NEW G, NEW n, NEW p, NEW U, Call(b, G, n, p, U),
         NonEmpty(ValueIn(G, n)), NEW m,
         m = size[b] + (Cardinality(KeysOf(ValueIn(G, n))) - Cardinality(KeysOf(Value(b)))),
         NEW x, SoundContext(G, n, x)
  PROVE  Fits(G, n, m, x)
<1>1. Fits(heap, table[b], size[b], context[b]) /\ size[b] \in Nat
  BY GoodBitmap
<1>2. G.policy = heap.policy
  BY DEF Call, Serves
<1>3. Cardinality(KeysOf(ValueIn(G, n))) \in Nat /\ Cardinality(KeysOf(Value(b))) \in Nat
  BY KeysOfFinite
<1>4. /\ size[b] >= Cardinality(KeysOf(Value(b)))
      /\ ~(Scratches # {} /\ ~Refcounted(heap)) => size[b] = Cardinality(KeysOf(Value(b)))
  BY <1>1 DEF Fits, Value
<1>5. m \in Nat /\ m >= Cardinality(KeysOf(ValueIn(G, n)))
  BY <1>1, <1>3, <1>4
<1>6. ~(Scratches # {} /\ ~Refcounted(G)) => m = Cardinality(KeysOf(ValueIn(G, n)))
  BY <1>1, <1>2, <1>3, <1>4 DEF Refcounted
<1> QED BY <1>5, <1>6 DEF Fits

\* The size of b counted anew.
LEMMA FitsCounted ==
  ASSUME NEW G, NEW n, NonEmpty(ValueIn(G, n)), NEW x, SoundContext(G, n, x)
  PROVE  Fits(G, n, Cardinality(KeysOf(ValueIn(G, n))), x)
BY KeysOfFinite DEF Fits

LEMMA SizeInKeys ==
  ASSUME NEW H, NEW t
  PROVE  SizeIn(H, t) = Cardinality(KeysOf(ValueIn(H, t)))
<1>1. {k \in Chunks \X Lows : k[1] \in DOMAIN EntriesOf(H, t) /\ k[2] \in H.keys[EntriesOf(H, t)[k[1]]]}
        = KeysOf(ValueIn(H, t))
  BY ValueDomain DEF KeysOf
<1> QED BY <1>1 DEF SizeIn

LEMMA LowsOfValue ==
  ASSUME NEW b, NEW c
  PROVE  /\ HoldsChunk(b, c) <=> c \in DOMAIN Value(b)
         /\ HoldsChunk(b, c) => LowsOf(b, c) = Value(b)[c]
         /\ ~HoldsChunk(b, c) => LowsOf(b, c) = {}
BY ValueDomain DEF HoldsChunk, LowsOf, Value, Held

LEMMA ContentsKeys ==
  ASSUME NEW b
  PROVE  Contents(b) = KeysOf(Value(b))
<1>1. \A k \in Chunks \X Lows : k[2] \in LowsOf(b, k[1]) <=> k[1] \in DOMAIN Value(b) /\ k[2] \in Value(b)[k[1]]
  BY LowsOfValue
<1> QED BY <1>1 DEF Contents, KeysOf


-----------------------------------------------------------------------------
(***************************************************************************)
(* Entries written, inserted and erased in a table of b's own.             *)
(***************************************************************************)
LEMMA OwnsType ==
  ASSUME NEW b \in Bitmaps, NEW G, NEW n, NEW U, Owns(b, G, n, U), NEW c \in DOMAIN Held(b)
  PROVE  /\ n \in Tables /\ c \in DOMAIN G.entries[n] /\ EntriesOf(G, n) = G.entries[n]
         /\ G.holders[n] = 1 /\ c \in Chunks /\ G.keys[G.entries[n][c]] = Value(b)[c]
<1>1. Call(b, G, n, pool[b], U) /\ DOMAIN EntriesOf(G, n) = DOMAIN Held(b) /\ ValueIn(G, n) = Value(b)
  BY DEF Owns
<1>2. n \in Tables /\ EntriesOf(G, n) = G.entries[n] /\ EntriesOf(G, n) \in Entries
  BY <1>1, CallType
<1>3. G.holders[n] = 1
  BY <1>2 DEF Owns, Alone
<1>4. G.keys[EntriesOf(G, n)[c]] = ValueIn(G, n)[c]
  BY <1>1, ValueDomain
<1> QED BY <1>1, <1>2, <1>3, <1>4, EntriesElim

LEMMA OwnCall ==
  ASSUME Good, NEW b \in Bitmaps, NEW G, NEW n, NEW U, Owns(b, G, n, U), NEW c \in DOMAIN Held(b)
  PROVE  LET own == Own(G, n, c)
         IN  Owns(b, own, n, U) /\ Keeps(G, own, n) /\ Unshared(own, n, c)
<1> DEFINE own == Own(G, n, c)
<1>1. /\ n \in Tables /\ c \in DOMAIN G.entries[n] /\ EntriesOf(G, n) = G.entries[n]
      /\ G.holders[n] = 1 /\ c \in Chunks
  BY OwnsType
<1>2. Call(b, G, n, pool[b], U) /\ Account(G, None) /\ Spacious(G) /\ Hosts(G, n, pool[b]) /\ Alone(G, n)
      /\ ValueIn(G, n) = Value(b) /\ DOMAIN EntriesOf(G, n) = DOMAIN Held(b)
  BY DEF Owns, Call
<1>3. 1 <= Cardinality(Unused(G))
  <2>1. {c} \in SUBSET Chunks
    BY <1>1
  <2>2. HasRoom(G)
    BY <1>2, SpaciousHasRoom
  <2>3. Cardinality({c}) <= Cardinality(Unused(G))
    BY <2>1, <2>2, FitsRoom
  <2> QED BY <2>3, FS_Singleton
<1>4. Account(own, None) /\ Owned(G, own, n, c)
  BY <1>1, <1>2, <1>3, OwnAccount
<1> HIDE DEF own
<1>5. Keeps(G, own, n) /\ Unshared(own, n, c) /\ SameBlocks(G, own)
  BY <1>4, StepKeeps DEF Unshared, Owned
<1>6. Serves(G, own, n, pool[b], n, pool[b], U)
  <2>1. \A x \in Tables \ {n, pool[b]} : Untouched(G, own, x)
    BY <1>4 DEF Owned
  <2> QED BY <1>2, <1>5, <2>1, OwnServes
<1>7. Call(b, own, n, pool[b], U)
  BY <1>2, <1>4, <1>6, CallGoesOn
<1>8. Alone(own, n)
  BY <1>1, <1>5 DEF Alone, SameBlocks
<1>9. EntriesOf(own, n) = own.entries[n]
  BY <1>1, NullIsNoTable DEF EntriesOf
<1>10. DOMAIN EntriesOf(own, n) = DOMAIN Held(b) /\ ValueIn(own, n) = Value(b)
  <2>1. DOMAIN own.entries[n] = DOMAIN G.entries[n]
        /\ \A d \in DOMAIN G.entries[n] : own.keys[own.entries[n][d]] = G.keys[G.entries[n][d]]
    BY <1>4 DEF Owned
  <2>2. ValueIn(own, n) = ValueIn(G, n)
    BY <1>1, <1>9, <2>1 DEF ValueIn, ValueOf
  <2> QED BY <1>1, <1>2, <1>9, <2>1, <2>2
<1>11. Owns(b, own, n, U)
  BY <1>7, <1>8, <1>10 DEF Owns
<1> QED BY <1>5, <1>11 DEF own

LEMMA WrittenCall ==
  ASSUME Good, NEW b \in Bitmaps, NEW G, NEW n, NEW U, Owns(b, G, n, U), NEW c \in DOMAIN Held(b),
         Unshared(G, n, c), NEW K \in SUBSET Lows
  PROVE  LET W == Written(G, n, c, K)
         IN  /\ Call(b, W, n, pool[b], U) /\ Keeps(G, W, n) /\ Alone(W, n) /\ Unshared(W, n, c)
             /\ ValueIn(W, n) \in Maps /\ DOMAIN ValueIn(W, n) = DOMAIN Held(b)
             /\ ValueIn(W, n)[c] = K
             /\ \A d \in DOMAIN Held(b) \ {c} : ValueIn(W, n)[d] = Value(b)[d]
<1> DEFINE W == Written(G, n, c, K)
<1>1. /\ n \in Tables /\ c \in DOMAIN G.entries[n] /\ EntriesOf(G, n) = G.entries[n]
      /\ G.holders[n] = 1 /\ c \in Chunks
  BY OwnsType
<1>2. Call(b, G, n, pool[b], U) /\ Account(G, None) /\ Hosts(G, n, pool[b]) /\ Alone(G, n)
      /\ ValueIn(G, n) = Value(b) /\ DOMAIN EntriesOf(G, n) = DOMAIN Held(b)
  BY DEF Owns, Call
<1>3. Account(W, None) /\ Writes(G, W, n, c, K)
  BY <1>1, <1>2, WrittenAccount
<1> HIDE DEF W
<1>4. Keeps(G, W, n) /\ SameBlocks(G, W)
  BY <1>3, StepKeeps DEF Writes
<1>5. Serves(G, W, n, pool[b], n, pool[b], U)
  <2>1. \A x \in Tables \ {n, pool[b]} : Untouched(G, W, x)
    BY <1>3 DEF Writes
  <2> QED BY <1>2, <1>4, <2>1, OwnServes
<1>6. Call(b, W, n, pool[b], U)
  BY <1>2, <1>3, <1>5, CallGoesOn
<1>7. Alone(W, n) /\ Unshared(W, n, c)
  BY <1>1, <1>3, <1>4 DEF Alone, SameBlocks, Writes, Unshared
<1>8. ValueIn(W, n) \in Maps
  BY <1>3, ValueType, <1>1 DEF Account, Stores
<1>9. EntriesOf(W, n) = G.entries[n]
  BY <1>1, <1>3, NullIsNoTable DEF EntriesOf, Writes
<1>10. /\ DOMAIN ValueIn(W, n) = DOMAIN G.entries[n]
       /\ \A d \in DOMAIN G.entries[n] : ValueIn(W, n)[d] = W.keys[G.entries[n][d]]
  BY <1>9, ValueDomain
<1>11. ValueIn(W, n)[c] = K
  BY <1>1, <1>3, <1>10 DEF Writes
<1>12. ASSUME NEW d \in DOMAIN Held(b) \ {c} PROVE ValueIn(W, n)[d] = Value(b)[d]
  <2>1. d \in DOMAIN G.entries[n] /\ G.keys[G.entries[n][d]] = Value(b)[d]
    BY OwnsType
  <2> QED BY <1>3, <1>10, <2>1 DEF Writes
<1>13. DOMAIN ValueIn(W, n) = DOMAIN Held(b)
  BY <1>1, <1>2, <1>10
<1> QED BY <1>4, <1>6, <1>7, <1>8, <1>11, <1>12, <1>13 DEF W

\* The table n of b has the chunk c no more.
LacksChunk(b, W, n, c) ==
  /\ ValueIn(W, n) \in Maps /\ DOMAIN ValueIn(W, n) = DOMAIN Value(b) \ {c}
  /\ \A d \in DOMAIN Value(b) \ {c} : ValueIn(W, n)[d] = Value(b)[d]

LEMMA CutCall ==
  ASSUME Good, NEW b \in Bitmaps, NEW G, NEW n, NEW U, Owns(b, G, n, U), NEW c \in DOMAIN Held(b)
  PROVE  LET W == Cut(G, n, {c})
         IN  Call(b, W, n, pool[b], U) /\ LacksChunk(b, W, n, c)
<1> DEFINE W == Cut(G, n, {c})
           left == Restrict(G.entries[n], DOMAIN G.entries[n] \ {c})
<1>1. /\ n \in Tables /\ c \in DOMAIN G.entries[n] /\ EntriesOf(G, n) = G.entries[n]
      /\ G.holders[n] = 1 /\ c \in Chunks
  BY OwnsType
<1>2. Call(b, G, n, pool[b], U) /\ Account(G, None) /\ Hosts(G, n, pool[b]) /\ Alone(G, n) /\ G \in Heaps
      /\ ValueIn(G, n) = Value(b) /\ DOMAIN EntriesOf(G, n) = DOMAIN Held(b)
  BY DEF Owns, Call, Account
<1>3. Account(W, None) /\ Exchanges(G, W, n, left)
  <2>1. {c} \in SUBSET DOMAIN G.entries[n]
    BY <1>1
  <2>2. G.holders[n] # 0 /\ G \in Heaps /\ Account(G, None) /\ n \in Tables
    BY <1>1, <1>2
  <2> HIDE DEF W, left
  <2>3. /\ Account(Cut(G, n, {c}), None)
        /\ Exchanges(G, Cut(G, n, {c}), n, Restrict(G.entries[n], DOMAIN G.entries[n] \ {c}))
    BY <2>1, <2>2, CutAccount
  <2> QED BY <2>3 DEF W, left
<1>4. left \in Entries /\ DOMAIN left = DOMAIN G.entries[n] \ {c} /\ \A d \in DOMAIN left : left[d] = G.entries[n][d]
  <2>1. G.entries[n] \in Entries
    BY <1>1, <1>2 DEF Heaps
  <2> QED BY <2>1, RestrictType
<1> HIDE DEF W, left
<1>5. W.entries[n] = left /\ W \in Heaps
  BY <1>1, <1>2, <1>3 DEF Exchanges, Heaps, Account
<1>6. SameBlocks(G, W) /\ \A x \in Tables \ {n, pool[b]} : Untouched(G, W, x)
  <2>1. \A x \in Tables \ {n} : Untouched(G, W, x)
    BY <1>1, <1>2, <1>3, ExchangesElsewhere
  <2> QED BY <1>3, <2>1 DEF Exchanges, SameBlocks
<1>7. Serves(G, W, n, pool[b], n, pool[b], U)
  BY <1>2, <1>6, OwnServes
<1>8. Call(b, W, n, pool[b], U)
  BY <1>2, <1>3, <1>7, CallGoesOn
<1>9. ValueIn(W, n) \in Maps
  BY <1>5, ValueType, <1>1 DEF Stores
<1>10. EntriesOf(W, n) = left
  BY <1>1, <1>5, NullIsNoTable DEF EntriesOf
<1>11. DOMAIN ValueIn(W, n) = DOMAIN Held(b) \ {c}
       /\ \A d \in DOMAIN left : ValueIn(W, n)[d] = W.keys[G.entries[n][d]]
  BY <1>1, <1>2, <1>4, <1>10, ValueDomain
<1>12. ASSUME NEW d \in DOMAIN Held(b) \ {c} PROVE ValueIn(W, n)[d] = Value(b)[d]
  <2>1. d \in DOMAIN G.entries[n] /\ G.keys[G.entries[n][d]] = Value(b)[d]
    BY OwnsType
  <2>2. W.entries[n][d] = G.entries[n][d] /\ d \in DOMAIN W.entries[n]
    BY <1>4, <1>5, <2>1
  <2>3. W.refs[W.entries[n][d]] # 0 /\ W.entries[n][d] \in Payloads
    <3>1. W.refs[W.entries[n][d]] >= 1 /\ W.refs[W.entries[n][d]] \in Nat
      BY <1>1, <1>3, <2>2, InUse
    <3> QED BY <1>1, <1>5, <2>2, <3>1, EntryType
  <2>4. W.keys[G.entries[n][d]] = G.keys[G.entries[n][d]]
    BY <1>3, <2>2, <2>3 DEF Exchanges
  <2> QED BY <1>4, <1>11, <2>1, <2>2, <2>4
<1>13. DOMAIN Value(b) = DOMAIN Held(b)
  BY GoodBitmap
<1>14. LacksChunk(b, W, n, c)
  BY <1>9, <1>11, <1>12, <1>13 DEF LacksChunk
<1> QED BY <1>8, <1>14 DEF W


Single(c, K) == [d \in {c} |-> K]

\* The table m of b has the chunk c besides, with the keys K.
HasChunk(b, G, n, W, m, c, K) ==
  /\ m \in Tables /\ Alone(W, m) /\ Unshared(W, m, c)
  /\ ValueIn(W, m) \in Maps /\ DOMAIN ValueIn(W, m) = {c} \cup DOMAIN Held(b)
  /\ ValueIn(W, m)[c] = K
  /\ \A d \in DOMAIN Held(b) : ValueIn(W, m)[d] = Value(b)[d]
  /\ \A d \in DOMAIN Held(b) :
       G.refs[EntriesOf(G, n)[d]] = 1 => W.refs[W.entries[m][d]] = 1

LEMMA InsertedCall ==
  ASSUME Good, NEW b \in Bitmaps, NEW G, NEW n, NEW U, Owns(b, G, n, U), NEW c \in Chunks \ DOMAIN Held(b),
         NEW K \in SUBSET Lows, NEW required \in Nat, required # 0
  PROVE  LET at == Inserted(G, n, Single(c, K), required)
         IN  Call(b, at.heap, at.table, pool[b], U) /\ HasChunk(b, G, n, at.heap, at.table, c, K)
<1> DEFINE new  == Single(c, K)
           m    == Inserted(G, n, new, required).table
           W    == Inserted(G, n, new, required).heap
           D    == DOMAIN Held(b)
<1>1. /\ Call(b, G, n, pool[b], U) /\ Account(G, None) /\ Spacious(G) /\ Hosts(G, n, pool[b])
      /\ Alone(G, n) /\ n \in Stores
      /\ ValueIn(G, n) = Value(b) /\ DOMAIN EntriesOf(G, n) = D
  BY DEF Owns, Call, Hosts
<1>2. Account(W, None) /\ Inserts(G, W, n, m, new)
  <2>1. n \in Tables \cup {Null} /\ (n \in Tables => G.holders[n] = 1)
    BY <1>1 DEF Alone, Stores
  <2>2. new \in Maps
    BY SingletonMap DEF Single
  <2> HIDE DEF D, new
  <2>3. LET at == Inserted(G, n, new, required)
        IN  Account(at.heap, None) /\ Inserts(G, at.heap, n, at.table, new)
    BY <1>1, <2>1, <2>2, InsertedAccount
  <2> QED BY <2>3
<1>3. DOMAIN new = {c} /\ new[c] = K
  BY DEF Single
<1> HIDE DEF new, m, W
<1>4. /\ Inserts(G, W, n, m, new)
      /\ W.policy = G.policy /\ HolderMoves(G, W, n, m) /\ m \in Tables /\ W.holders[m] = 1
      /\ m # n => G.holders[m] = 0
      /\ DOMAIN W.entries[m] = {c} \cup D
      /\ W.keys[W.entries[m][c]] = K
      /\ \A d \in D : W.keys[W.entries[m][d]] = G.keys[EntriesOf(G, n)[d]]
  <2>1. c \notin D
    OBVIOUS
  <2> HIDE DEF D
  <2> QED BY <1>1, <1>2, <1>3, <2>1 DEF Inserts, Grafts
<1>5. m # pool[b]
  BY <1>1, <1>4 DEF Hosts
<1>6. n \in Tables /\ G.holders[n] > 1 => SameValue(G, W, n)
  BY <1>1 DEF Alone
<1>7. Serves(G, W, n, pool[b], m, pool[b], U)
  <2>1. \A x \in Tables \ {n, m} : Untouched(G, W, x)
    BY <1>2 DEF Inserts
  <2> QED BY <1>1, <1>4, <1>5, <1>6, <2>1, MoveServes
<1>8. Call(b, W, m, pool[b], U)
  BY <1>1, <1>2, <1>7, CallGoesOn
<1>9. Alone(W, m) /\ Unshared(W, m, c)
  BY <1>2, <1>3, <1>4 DEF Inserts, Alone, Unshared
<1>10. EntriesOf(W, m) = W.entries[m]
  BY <1>4, NullIsNoTable DEF EntriesOf
<1>11. ValueIn(W, m) \in Maps
  BY <1>2, <1>4, ValueType DEF Account, Stores
<1>12. DOMAIN ValueIn(W, m) = {c} \cup D /\ \A d \in {c} \cup D : ValueIn(W, m)[d] = W.keys[W.entries[m][d]]
  <2>1. DOMAIN ValueIn(W, m) = DOMAIN W.entries[m]
        /\ \A d \in DOMAIN W.entries[m] : ValueIn(W, m)[d] = W.keys[W.entries[m][d]]
    BY <1>10, ValueDomain
  <2> HIDE DEF D
  <2> QED BY <1>4, <2>1
<1>13. ASSUME NEW d \in D PROVE ValueIn(W, m)[d] = Value(b)[d]
  <2>1. G.keys[EntriesOf(G, n)[d]] = Value(b)[d]
    BY <1>1, ValueDomain
  <2> QED BY <1>4, <1>12, <2>1
<1>14. \A d \in D : G.refs[EntriesOf(G, n)[d]] = 1 => W.refs[W.entries[m][d]] = 1
  BY <1>1, <1>2, <1>3 DEF Inserts
<1>15. ValueIn(W, m)[c] = K
  BY <1>4, <1>12
<1>16. HasChunk(b, G, n, W, m, c, K)
  BY <1>4, <1>9, <1>11, <1>12, <1>13, <1>14, <1>15 DEF HasChunk
<1> QED BY <1>8, <1>16 DEF new, m, W


-----------------------------------------------------------------------------
(***************************************************************************)
(* The calls.  One on b leaves it the given keys, and others what they had.*)
(***************************************************************************)
Done(b, keys) == Good' /\ OthersStay(b) /\ KeysOf(ValueIn(heap', table'[b])) = keys

LEMMA NothingDone ==
  ASSUME Good, NEW b \in Bitmaps, UNCHANGED <<heap, table, pool, size, context>>
  PROVE  Done(b, KeysOf(Value(b)))
<1>1. Good'
  BY DEF Good
<1> QED BY <1>1 DEF Done, OthersStay, Value

LEMMA CallDone ==
  ASSUME Good, NEW b \in Bitmaps, NEW U, Operands(table, context, b, U),
         NEW G, NEW n, NEW p, Call(b, G, n, p, U),
         NEW m, NEW x \in Contexts \cup {NoContext}, Fits(G, n, m, x), Leaves(b, G, n, p, m, x)
  PROVE  Done(b, KeysOf(ValueIn(G, n)))
<1>1. Good' /\ OthersStay(b) /\ table'[b] = n
  BY CallEnds
<1>2. heap' = G
  BY DEF Leaves
<1> QED BY <1>1, <1>2 DEF Done

LEMMA AdvanceOne ==
  ASSUME Good, NEW b \in Bitmaps
  PROVE  Advance({b}) <=> context' = [context EXCEPT ![b] = NoContext]
<1>1. context \in [Bitmaps -> Contexts \cup {NoContext}]
  BY GoodBitmap
<1>2. [d \in Bitmaps |-> IF d \in {b} THEN NoContext ELSE context[d]] = [context EXCEPT ![b] = NoContext]
  BY <1>1
<1> QED BY <1>2 DEF Advance

\* What a call leaves, where it changes less than all of it.
LEMMA LeavesIntro ==
  ASSUME Good, NEW b \in Bitmaps, NEW G, NEW n, NEW m, Becomes(b, G, n, m), UNCHANGED pool,
         NEW x, context' = [context EXCEPT ![b] = x]
  PROVE  Leaves(b, G, n, pool[b], m, x)
<1>1. pool \in [Bitmaps -> Stores]
  BY GoodBitmap
<1>2. pool' = [pool EXCEPT ![b] = pool[b]]
  BY <1>1
<1> QED BY <1>2 DEF Leaves, Becomes

LEMMA SameContext ==
  ASSUME Good, NEW b \in Bitmaps
  PROVE  context = [context EXCEPT ![b] = context[b]]
<1>1. context \in [Bitmaps -> Contexts \cup {NoContext}]
  BY GoodBitmap
<1> QED BY <1>1

LEMMA SlotSound ==
  ASSUME NEW W \in Heaps, NEW n \in Tables, NEW c \in DOMAIN W.entries[n], NEW G,
         DOMAIN G.entries[n] = DOMAIN W.entries[n], NEW private \in BOOLEAN,
         private => W.holders[n] = 1 /\ Unshared(W, n, c)
  PROVE  Slot(G, n, c, private) \in Contexts /\ SoundContext(W, n, Slot(G, n, c, private))
<1> DEFINE x == Slot(G, n, c, private)
           D == DOMAIN W.entries[n]
<1>1. W.entries[n] \in Entries /\ EntriesOf(W, n) = W.entries[n] /\ c \in Chunks
  BY EntryType, NullIsNoTable DEF EntriesOf
<1>2. D \in SUBSET Nat /\ IsFiniteSet(D)
  BY <1>1, EntriesElim, AddressAssumption
<1>3. Below(D, c) \in Nat
  <2> HIDE DEF D
  <2> QED BY <1>2, BelowType
<1>4. x.chunk = c /\ x.table = n /\ x.index = Below(D, c) /\ x.private = private
  BY DEF Slot
<1>5. x \in Contexts
  BY <1>1, <1>3 DEF Slot, Contexts
<1>6. private => ~IsShared(W, n)
  BY DEF IsShared
<1> HIDE DEF x
<1>7. SoundContext(W, n, x)
  BY <1>1, <1>4, <1>5, <1>6 DEF SoundContext
<1> QED BY <1>5, <1>7 DEF x

\* A context that says the payload is private says the table is, too.
LEMMA AddAtOwn ==
  ASSUME Good, NEW b \in Bitmaps, NEW bulk
  PROVE  /\ AddDetaches(b, bulk) <=> IsShared(heap, table[b])
         /\ AddAt(b, bulk) = OwnTable(table[b], Length(heap, table[b]) + 1)
         /\ Length(heap, table[b]) + 1 \in Nat /\ Length(heap, table[b]) + 1 # 0
<1>1. KnownOwn(b, bulk) => ~IsShared(heap, table[b])
  <2>1. Fits(heap, table[b], size[b], context[b])
    BY GoodBitmap
  <2> QED BY <2>1 DEF KnownOwn, Fits, SoundContext
<1>2. Length(heap, table[b]) \in Nat
  BY GoodBitmap, EntriesOfType DEF Stores
<1> QED BY <1>1, <1>2 DEF AddDetaches, AddAt, OwnTable


LEMMA OwnsFits ==
  ASSUME Good, NEW b \in Bitmaps, NEW G, NEW n, NEW U, Owns(b, G, n, U), NEW x, SoundContext(G, n, x)
  PROVE  Fits(G, n, size[b], x) /\ KeysOf(ValueIn(G, n)) = KeysOf(Value(b))
<1>1. Call(b, G, n, pool[b], U) /\ ValueIn(G, n) = Value(b)
  BY DEF Owns
<1>2. NonEmpty(ValueIn(G, n)) /\ size[b] \in Nat
  BY <1>1, GoodBitmap
<1>3. Cardinality(KeysOf(ValueIn(G, n))) = Cardinality(KeysOf(Value(b)))
      /\ Cardinality(KeysOf(Value(b))) \in Nat
  BY <1>1, KeysOfFinite
<1>4. size[b] = size[b] + (Cardinality(KeysOf(ValueIn(G, n))) - Cardinality(KeysOf(Value(b))))
  BY <1>2, <1>3
<1>5. Fits(G, n, size[b], x)
  BY <1>1, <1>2, <1>4, FitsFor
<1> QED BY <1>1, <1>5

\* The context left to b: none where its table was copied, or the one it had.
Remains(b, n) == IF n # table[b] THEN NoContext ELSE context[b]

LEMMA RemainsSound ==
  ASSUME Good, NEW b \in Bitmaps, NEW least \in Nat, NEW W, NEW G, NEW n,
         G = OwnTable(table[b], least).heap, n = OwnTable(table[b], least).table,
         n \in Tables => Keeps(G, W, n)
  PROVE  Remains(b, n) \in Contexts \cup {NoContext} /\ SoundContext(W, n, Remains(b, n))
<1>1. /\ ~IsShared(heap, table[b]) => G = heap /\ n = table[b]
      /\ IsShared(heap, table[b]) => n # table[b]
  BY OwnTableCall
<1>2. table[b] \in Stores /\ Fits(heap, table[b], size[b], context[b]) /\ context[b] \in Contexts \cup {NoContext}
  BY GoodBitmap
<1>3. CASE n # table[b]
  BY <1>3, NoSoundContext DEF Remains
<1>4. CASE n = table[b]
  <2>1. G = heap /\ SoundContext(heap, table[b], context[b])
    BY <1>1, <1>2, <1>4 DEF Fits
  <2>2. SoundContext(W, table[b], context[b])
    BY <1>2, <1>4, <2>1, ContextKept
  <2> QED BY <1>2, <1>4, <2>2 DEF Remains
<1> QED BY <1>3, <1>4

\* What AddImpl and AddBulk leave of b and answer.
Added(b, c, k) ==
  \/ Done(b, KeysOf(Value(b)) \cup {<<c, k>>}) /\ answer' \in {IfSo(<<c, k>> \notin KeysOf(Value(b))), "threw"}
  \/ Done(b, KeysOf(Value(b))) /\ answer' = "threw"

LEMMA HeldKey ==
  ASSUME NEW b, NEW c \in Chunks, NEW k \in Lows
  PROVE  k \in LowsOf(b, c) <=> <<c, k>> \in KeysOf(Value(b))
BY LowsOfValue, KeysMember

LEMMA AddOfHeldAdds ==
  ASSUME Good, NEW b \in Bitmaps, NEW c \in Chunks, NEW k \in Lows, NEW bulk \in BOOLEAN,
         AddOfHeld(b, c, k, bulk)
  PROVE  Added(b, c, k)
<1>1. Done(b, KeysOf(Value(b))) /\ answer' = "false"
  BY NothingDone DEF AddOfHeld, Answers
<1>2. <<c, k>> \in KeysOf(Value(b))
  BY HeldKey DEF AddOfHeld
<1>3. KeysOf(Value(b)) = KeysOf(Value(b)) \cup {<<c, k>>}
  BY <1>2
<1> QED BY <1>1, <1>2, <1>3 DEF Added, IfSo

LEMMA AddFailsAdds ==
  ASSUME Good, NEW b \in Bitmaps, NEW c \in Chunks, NEW k \in Lows, NEW bulk \in BOOLEAN,
         AddFails(b, c, k, bulk)
  PROVE  Added(b, c, k)
<1> DEFINE G == AddAt(b, bulk).heap
           n == AddAt(b, bulk).table
<1>1. answer' = "threw" /\ pool' = pool
      /\ \/ UNCHANGED <<heap, table, size, context>>
         \/ Becomes(b, G, n, size[b]) /\ Advance({b})
  BY DEF AddFails, Answers
<1>2. CASE UNCHANGED <<heap, table, size, context>>
  <2>1. UNCHANGED <<heap, table, pool, size, context>>
    BY <1>1, <1>2
  <2> QED BY <1>1, <2>1, NothingDone DEF Added
<1>3. CASE Becomes(b, G, n, size[b]) /\ Advance({b})
  <2>1. Owns(b, G, n, {})
    BY AddAtOwn, OwnTableCall
  <2> HIDE DEF G, n
  <2>2. Fits(G, n, size[b], NoContext) /\ KeysOf(ValueIn(G, n)) = KeysOf(Value(b))
    BY <2>1, OwnsFits, NoSoundContext
  <2>3. Leaves(b, G, n, pool[b], size[b], NoContext)
    BY <1>1, <1>3, AdvanceOne, LeavesIntro
  <2>4. Call(b, G, n, pool[b], {}) /\ Operands(table, context, b, {})
    BY <2>1, NoOperands DEF Owns
  <2>5. Done(b, KeysOf(ValueIn(G, n)))
    BY <2>2, <2>3, <2>4, CallDone
  <2> QED BY <1>1, <2>2, <2>5 DEF Added
<1> QED BY <1>1, <1>2, <1>3

LEMMA AddChunkAdds ==
  ASSUME Good, NEW b \in Bitmaps, NEW c \in Chunks, NEW k \in Lows, NEW bulk \in BOOLEAN,
         AddChunk(b, c, k, bulk)
  PROVE  Added(b, c, k)
<1> DEFINE G     == AddAt(b, bulk).heap
           n     == AddAt(b, bulk).table
           born  == Born(G, [d \in {c} |-> {k}])
           grown == WithRoom(born.heap, n, Length(heap, table[b]) + 1)
           m     == grown.table
           W     == Put(grown.heap, m, born.entries)
           moved == m # table[b] \/ \E d \in DOMAIN Held(b) : d > c
           x     == Slot(W, m, c, TRUE)
           y     == IF bulk THEN x ELSE IF moved THEN NoContext ELSE context[b]
<1>1. /\ c \in Chunks \ DOMAIN Held(b) /\ Becomes(b, W, m, size[b] + 1)
      /\ context' = [context EXCEPT ![b] = y] /\ answer' = "true" /\ pool' = pool
  <2>1. context \in [Bitmaps -> Contexts \cup {NoContext}]
    BY GoodBitmap
  <2>2. ContextSet(b, bulk, x, moved)
    BY DEF AddChunk
  <2>3. context' = [context EXCEPT ![b] = y]
    <3> HIDE DEF x, moved
    <3> QED BY <2>1, <2>2 DEF ContextSet
  <2> QED BY <2>3 DEF AddChunk, HoldsChunk, Answers
<1>2. /\ Owns(b, G, n, {}) /\ Length(heap, table[b]) + 1 \in Nat /\ Length(heap, table[b]) + 1 # 0
      /\ ~IsShared(heap, table[b]) => G = heap /\ n = table[b]
      /\ IsShared(heap, table[b]) => n # table[b]
  BY AddAtOwn, OwnTableCall
<1> HIDE DEF G, n
<1>3. {k} \in SUBSET Lows
  OBVIOUS
<1>4. /\ Call(b, W, m, pool[b], {}) /\ m \in Tables /\ Alone(W, m) /\ Unshared(W, m, c)
      /\ ValueIn(W, m) \in Maps /\ DOMAIN ValueIn(W, m) = {c} \cup DOMAIN Held(b)
      /\ ValueIn(W, m)[c] = {k}
      /\ \A d \in DOMAIN Held(b) : ValueIn(W, m)[d] = Value(b)[d]
      /\ \A d \in DOMAIN Held(b) :
           G.refs[EntriesOf(G, n)[d]] = 1 => W.refs[W.entries[m][d]] = 1
  <2> DEFINE at == Inserted(G, n, Single(c, {k}), Length(heap, table[b]) + 1)
  <2>1. W = at.heap /\ m = at.table
    BY DEF Inserted, Single
  <2>2. Call(b, at.heap, at.table, pool[b], {}) /\ HasChunk(b, G, n, at.heap, at.table, c, {k})
    <3> HIDE DEF W, m
    <3> QED BY <1>1, <1>2, <1>3, InsertedCall
  <2> HIDE DEF at, W, m
  <2> QED BY <2>1, <2>2 DEF HasChunk
<1> HIDE DEF W, m
<1>5. Value(b) \in Maps /\ NonEmpty(Value(b)) /\ DOMAIN Value(b) = DOMAIN Held(b) /\ size[b] \in Nat
      /\ context[b] \in Contexts \cup {NoContext} /\ Fits(heap, table[b], size[b], context[b])
      /\ DOMAIN Held(b) \subseteq Chunks
  BY GoodBitmap
<1>6. KeysOf(ValueIn(W, m)) = KeysOf(Value(b)) \cup {<<c, k>>} /\ <<c, k>> \notin KeysOf(Value(b))
  <2>1. <<c, k>> \notin KeysOf(Value(b))
    BY <1>1, <1>5, KeysMember
  <2>2. \A d \in DOMAIN Value(b) \ {c} : ValueIn(W, m)[d] = Value(b)[d]
    BY <1>4, <1>5
  <2>3. DOMAIN ValueIn(W, m) = {c} \cup DOMAIN Value(b) /\ c \notin DOMAIN Value(b)
    BY <1>1, <1>4, <1>5
  <2>4. ValueIn(W, m)[c] = {k} \cup (IF c \in DOMAIN Value(b) THEN Value(b)[c] ELSE {})
    BY <1>4, <2>3
  <2> QED BY <1>4, <1>5, <2>1, <2>2, <2>3, <2>4, KeysAdded
<1>7. NonEmpty(ValueIn(W, m))
  BY <1>4, <1>5 DEF NonEmpty
<1>8. EntriesOf(W, m) = W.entries[m] /\ W \in Heaps /\ W.holders[m] = 1 /\ DOMAIN W.entries[m] = {c} \cup DOMAIN Held(b)
  <2>1. EntriesOf(W, m) = W.entries[m] /\ W \in Heaps /\ W.holders[m] = 1
    BY <1>4, CallType DEF Alone
  <2> QED BY <1>4, <2>1, ValueDomain
<1>9. y \in Contexts \cup {NoContext} /\ SoundContext(W, m, y)
  <2>1. CASE bulk
    <3>1. x \in Contexts /\ SoundContext(W, m, x)
      BY <1>4, <1>8, SlotSound
    <3> QED BY <2>1, <3>1
  <2>2. CASE ~bulk /\ moved
    BY <2>2, NoSoundContext
  <2>3. CASE ~bulk /\ ~moved /\ context[b] = NoContext
    BY <2>3, NoSoundContext
  <2>4. CASE ~bulk /\ ~moved /\ context[b] # NoContext
    <3> DEFINE z == context[b]
               D == DOMAIN Held(b)
    <3>1. m = table[b] /\ \A d \in D : ~(d > c)
      BY <2>4
    <3>2. /\ z \in Contexts /\ z.table = table[b] /\ z.chunk \in D /\ z.index = Below(D, z.chunk)
          /\ z.private => ~IsShared(heap, table[b]) /\ Unshared(heap, table[b], z.chunk)
      BY <1>5, <2>4 DEF Fits, SoundContext, Held
    <3>3. z.chunk < c
      <4>1. z.chunk \in Nat /\ c \in Nat /\ z.chunk # c /\ ~(z.chunk > c)
        BY <1>1, <1>5, <3>1, <3>2, AddressAssumption
      <4> QED BY <4>1
    <3>4. Below({c} \cup D, z.chunk) = Below(D, z.chunk)
      <4>1. z.chunk \in Nat /\ c \in Nat /\ ~(c < z.chunk)
        <5>1. z.chunk \in Nat /\ c \in Nat
          BY <1>5, <3>2, AddressAssumption
        <5> HIDE DEF z
        <5> QED BY <3>3, <5>1
      <4>2. {y_0 \in {c} \cup D : y_0 < z.chunk} = {y_0 \in D : y_0 < z.chunk}
        BY <4>1
      <4> QED BY <4>2 DEF Below
    <3>5. ~IsShared(W, m)
      BY <1>8 DEF IsShared
    <3>6. ASSUME z.private PROVE Unshared(W, m, z.chunk)
      <4>1. G = heap /\ n = table[b]
        BY <1>2, <3>2, <3>6
      <4>2. table[b] \in Tables /\ EntriesOf(heap, table[b]) = heap.entries[table[b]]
        BY <1>4, <3>1, NullIsNoTable DEF EntriesOf
      <4> QED BY <1>4, <3>2, <3>6, <4>1, <4>2 DEF Unshared
    <3>7. SoundContext(W, m, z)
      BY <1>8, <3>1, <3>2, <3>4, <3>5, <3>6 DEF SoundContext
    <3> QED BY <2>4, <3>2, <3>7
  <2> QED BY <2>1, <2>2, <2>3, <2>4
<1> HIDE DEF y
<1>10. Fits(W, m, size[b] + 1, y)
  <2>1. Cardinality(KeysOf(ValueIn(W, m))) = Cardinality(KeysOf(Value(b))) + 1
        /\ Cardinality(KeysOf(Value(b))) \in Nat
    BY <1>6, SizeAdded, KeysOfFinite
  <2>2. size[b] + 1 = size[b] + (Cardinality(KeysOf(ValueIn(W, m))) - Cardinality(KeysOf(Value(b))))
    BY <1>5, <2>1
  <2> QED BY <1>4, <1>7, <1>9, <2>2, FitsFor
<1>11. Leaves(b, W, m, pool[b], size[b] + 1, y)
  BY <1>1, LeavesIntro
<1>12. Done(b, KeysOf(ValueIn(W, m)))
  BY <1>4, <1>9, <1>10, <1>11, NoOperands, CallDone
<1> QED BY <1>1, <1>6, <1>12 DEF Added, IfSo


\* A key written into a chunk b holds.
LEMMA KeyWritten ==
  ASSUME Good, NEW b \in Bitmaps, NEW G, NEW n, NEW U, Owns(b, G, n, U), NEW c \in DOMAIN Held(b),
         Unshared(G, n, c), NEW k \in Lows
  PROVE  LET W == Written(G, n, c, LowsOf(b, c) \cup {k})
         IN  /\ Call(b, W, n, pool[b], U) /\ Keeps(G, W, n) /\ Alone(W, n) /\ Unshared(W, n, c)
             /\ KeysOf(ValueIn(W, n)) = KeysOf(Value(b)) \cup {<<c, k>>}
             /\ \A x : SoundContext(W, n, x) =>
                  Fits(W, n, size[b] + IF k \notin LowsOf(b, c) THEN 1 ELSE 0, x)
<1> DEFINE K == LowsOf(b, c) \cup {k}
           W == Written(G, n, c, K)
<1>1. /\ Value(b) \in Maps /\ NonEmpty(Value(b)) /\ DOMAIN Value(b) = DOMAIN Held(b) /\ size[b] \in Nat
      /\ c \in DOMAIN Value(b) /\ c \in Chunks /\ LowsOf(b, c) = Value(b)[c]
  <2>1. Value(b) \in Maps /\ NonEmpty(Value(b)) /\ DOMAIN Value(b) = DOMAIN Held(b) /\ size[b] \in Nat
        /\ DOMAIN Held(b) \subseteq Chunks
    BY GoodBitmap
  <2>2. HoldsChunk(b, c)
    BY DEF HoldsChunk
  <2> QED BY <2>1, <2>2, LowsOfValue
<1>2. K \in SUBSET Lows /\ K # {} /\ K = {k} \cup Value(b)[c]
  <2>1. Value(b)[c] \in SUBSET Lows
    BY <1>1, MapsElim
  <2> QED BY <1>1, <2>1
<1> HIDE DEF K
<1>3. /\ Call(b, W, n, pool[b], U) /\ Keeps(G, W, n) /\ Alone(W, n) /\ Unshared(W, n, c)
      /\ ValueIn(W, n) \in Maps /\ DOMAIN ValueIn(W, n) = DOMAIN Held(b)
      /\ ValueIn(W, n)[c] = K
      /\ \A d \in DOMAIN Held(b) \ {c} : ValueIn(W, n)[d] = Value(b)[d]
  BY <1>2, WrittenCall
<1> HIDE DEF W
<1>4. KeysOf(ValueIn(W, n)) = KeysOf(Value(b)) \cup {<<c, k>>}
  <2>1. DOMAIN ValueIn(W, n) = {c} \cup DOMAIN Value(b) /\ \A d \in DOMAIN Value(b) \ {c} : ValueIn(W, n)[d] = Value(b)[d]
    BY <1>1, <1>3
  <2>2. ValueIn(W, n)[c] = {k} \cup (IF c \in DOMAIN Value(b) THEN Value(b)[c] ELSE {})
    BY <1>1, <1>2, <1>3
  <2> QED BY <1>1, <1>3, <2>1, <2>2, KeysAdded
<1>5. NonEmpty(ValueIn(W, n))
  BY <1>1, <1>2, <1>3 DEF NonEmpty
<1>6. k \in LowsOf(b, c) <=> <<c, k>> \in KeysOf(Value(b))
  BY <1>1, HeldKey
<1>7. size[b] + (IF k \notin LowsOf(b, c) THEN 1 ELSE 0)
        = size[b] + (Cardinality(KeysOf(ValueIn(W, n))) - Cardinality(KeysOf(Value(b))))
  <2>1. Cardinality(KeysOf(ValueIn(W, n))) = Cardinality(KeysOf(Value(b))) + (IF k \in LowsOf(b, c) THEN 0 ELSE 1)
        /\ Cardinality(KeysOf(Value(b))) \in Nat
    BY <1>4, <1>6, SizeAdded, KeysOfFinite
  <2> QED BY <1>1, <2>1
<1>8. ASSUME NEW x, SoundContext(W, n, x)
      PROVE  Fits(W, n, size[b] + IF k \notin LowsOf(b, c) THEN 1 ELSE 0, x)
  <2> DEFINE m == size[b] + IF k \notin LowsOf(b, c) THEN 1 ELSE 0
  <2>1. m = size[b] + (Cardinality(KeysOf(ValueIn(W, n))) - Cardinality(KeysOf(Value(b))))
    BY <1>7
  <2> HIDE DEF m
  <2>2. Fits(W, n, m, x)
    BY <1>3, <1>5, <1>8, <2>1, FitsFor
  <2> QED BY <2>2 DEF m
<1> QED BY <1>3, <1>4, <1>8 DEF W, K

LEMMA AddToChunkAdds ==
  ASSUME ResetsContext = TRUE, Good, NEW b \in Bitmaps, NEW c \in Chunks, NEW k \in Lows, NEW bulk \in BOOLEAN,
         AddToChunk(b, c, k, bulk)
  PROVE  Added(b, c, k)
<1> DEFINE G   == AddAt(b, bulk).heap
           n   == AddAt(b, bulk).table
           own == Own(G, n, c)
           W   == Written(own, n, c, LowsOf(b, c) \cup {k})
           m   == size[b] + IF k \notin LowsOf(b, c) THEN 1 ELSE 0
           x   == Slot(own, n, c, TRUE)
           y   == Remains(b, n)
<1>1. c \in DOMAIN Held(b) /\ Becomes(b, W, n, m) /\ pool' = pool
  BY DEF AddToChunk, HoldsChunk
<1>2. \E z \in {x, y, NoContext} : context' = [context EXCEPT ![b] = z]
  <2>1. context \in [Bitmaps -> Contexts \cup {NoContext}]
    BY GoodBitmap
  <2>2. ContextSet(b, bulk, x, n # table[b]) \/ ContextLeft(b, bulk, x, n # table[b])
    BY DEF AddToChunk
  <2> HIDE DEF x, n
  <2>3. ContextSet(b, bulk, x, n # table[b]) => \E z \in {x, y} : context' = [context EXCEPT ![b] = z]
    <3>1. CASE bulk
      BY <2>1, <3>1 DEF ContextSet
    <3>2. CASE ~bulk
      BY <2>1, <3>2 DEF ContextSet, Remains
    <3> QED BY <3>1, <3>2
  <2>4. ContextLeft(b, bulk, x, n # table[b]) => \/ ContextSet(b, bulk, x, n # table[b])
                                                 \/ context' = [context EXCEPT ![b] = NoContext]
    BY AdvanceOne DEF ContextLeft
  <2> QED BY <2>2, <2>3, <2>4
<1>3. answer' \in {IfSo(k \notin LowsOf(b, c)), "threw"}
  BY DEF AddToChunk, Answers
<1>4. Owns(b, G, n, {})
  BY AddAtOwn, OwnTableCall
<1>5. (n \in Tables => Keeps(G, W, n)) => y \in Contexts \cup {NoContext} /\ SoundContext(W, n, y)
  <2>1. /\ G = OwnTable(table[b], Length(heap, table[b]) + 1).heap
        /\ n = OwnTable(table[b], Length(heap, table[b]) + 1).table
        /\ Length(heap, table[b]) + 1 \in Nat
    BY AddAtOwn
  <2> HIDE DEF G, n, W, y
  <2> QED BY <2>1, RemainsSound DEF y
<1> HIDE DEF G, n, x, y
<1>6. Owns(b, own, n, {}) /\ Keeps(G, own, n) /\ Unshared(own, n, c)
  BY <1>1, <1>4, OwnCall
<1> HIDE DEF own
<1>7. /\ Call(b, W, n, pool[b], {}) /\ Keeps(own, W, n) /\ Alone(W, n) /\ Unshared(W, n, c)
      /\ KeysOf(ValueIn(W, n)) = KeysOf(Value(b)) \cup {<<c, k>>}
      /\ \A z : SoundContext(W, n, z) => Fits(W, n, m, z)
  BY <1>1, <1>6, KeyWritten
<1>8. n \in Tables /\ c \in DOMAIN own.entries[n]
  BY <1>1, <1>6, OwnsType
<1> HIDE DEF W, m
<1>9. y \in Contexts \cup {NoContext} /\ SoundContext(W, n, y)
  BY <1>5, <1>6, <1>7, <1>8, StepKeeps
<1>10. x \in Contexts \cup {NoContext} /\ SoundContext(W, n, x)
  <2>1. DOMAIN W.entries[n] = DOMAIN own.entries[n] /\ W \in Heaps /\ W.holders[n] = 1
    BY <1>7, <1>8, CallType DEF Keeps, Alone
  <2> QED BY <1>7, <1>8, <2>1, SlotSound DEF x
<1>11. PICK z \in {x, y, NoContext} : context' = [context EXCEPT ![b] = z]
  BY <1>2
<1>12. z \in Contexts \cup {NoContext} /\ Fits(W, n, m, z)
  BY <1>7, <1>9, <1>10, <1>11, NoSoundContext
<1>13. Leaves(b, W, n, pool[b], m, z)
  BY <1>1, <1>11, LeavesIntro
<1>14. Done(b, KeysOf(ValueIn(W, n)))
  BY <1>7, <1>12, <1>13, NoOperands, CallDone
<1>15. k \in LowsOf(b, c) <=> <<c, k>> \in KeysOf(Value(b))
  BY HeldKey
<1> QED BY <1>3, <1>7, <1>14, <1>15 DEF Added

LEMMA AddToChunkFailsAdds ==
  ASSUME ResetsContext = TRUE, Good, NEW b \in Bitmaps, NEW c \in Chunks, NEW k \in Lows, NEW bulk \in BOOLEAN,
         AddToChunkFails(b, c, k, bulk)
  PROVE  Added(b, c, k)
<1> DEFINE G   == AddAt(b, bulk).heap
           n   == AddAt(b, bulk).table
           own == Own(G, n, c)
           y   == Remains(b, n)
<1>1. /\ c \in DOMAIN Held(b) /\ pool' = pool /\ answer' = "threw"
      /\ Becomes(b, G, n, size[b]) \/ Becomes(b, own, n, size[b])
  BY DEF AddToChunkFails, HoldsChunk, Answers
<1>2. \E z \in {y, NoContext} : context' = [context EXCEPT ![b] = z]
  <2>1. context \in [Bitmaps -> Contexts \cup {NoContext}]
    BY GoodBitmap
  <2>2. ContextLeft(b, bulk, Slot(own, n, c, TRUE), n # table[b])
    BY DEF AddToChunkFails
  <2> HIDE DEF n, own
  <2>3. CASE bulk
    BY <2>2, <2>3, AdvanceOne DEF ContextLeft
  <2>4. CASE ~bulk
    BY <2>1, <2>2, <2>4 DEF ContextLeft, ContextSet, Remains
  <2> QED BY <2>3, <2>4
<1>3. Owns(b, G, n, {})
  BY AddAtOwn, OwnTableCall
<1>4. ASSUME NEW W, n \in Tables => Keeps(G, W, n)
      PROVE  y \in Contexts \cup {NoContext} /\ SoundContext(W, n, y)
  <2>1. /\ G = OwnTable(table[b], Length(heap, table[b]) + 1).heap
        /\ n = OwnTable(table[b], Length(heap, table[b]) + 1).table
        /\ Length(heap, table[b]) + 1 \in Nat
    BY AddAtOwn
  <2> HIDE DEF G, n, y
  <2> QED BY <1>4, <2>1, RemainsSound DEF y
<1> HIDE DEF G, n, y
<1>5. Owns(b, own, n, {}) /\ Keeps(G, own, n)
  BY <1>1, <1>3, OwnCall
<1> HIDE DEF own
<1>6. ASSUME NEW W, Owns(b, W, n, {}), Keeps(G, W, n), Becomes(b, W, n, size[b])
      PROVE  Done(b, KeysOf(Value(b)))
  <2>1. PICK z \in {y, NoContext} : context' = [context EXCEPT ![b] = z]
    BY <1>2
  <2>2. z \in Contexts \cup {NoContext} /\ SoundContext(W, n, z)
    BY <1>4, <1>6, <2>1, NoSoundContext
  <2>3. Fits(W, n, size[b], z) /\ KeysOf(ValueIn(W, n)) = KeysOf(Value(b))
    BY <1>6, <2>2, OwnsFits
  <2>4. Leaves(b, W, n, pool[b], size[b], z)
    BY <1>1, <1>6, <2>1, LeavesIntro
  <2>5. Call(b, W, n, pool[b], {}) /\ Operands(table, context, b, {})
    BY <1>6, NoOperands DEF Owns
  <2>6. Done(b, KeysOf(ValueIn(W, n)))
    BY <2>2, <2>3, <2>4, <2>5, CallDone
  <2> QED BY <2>3, <2>6
<1>7. Keeps(G, G, n)
  BY StepKeeps
<1>8. Done(b, KeysOf(Value(b)))
  BY <1>1, <1>3, <1>5, <1>6, <1>7
<1> QED BY <1>1, <1>8 DEF Added


\* The slot of a context is its chunk's.
LEMMA ChunkAtSlot ==
  ASSUME Good, NEW b \in Bitmaps, context[b] # NoContext
  PROVE  /\ context[b] \in Contexts /\ context[b].table = table[b] /\ table[b] \in Tables
         /\ context[b].chunk \in DOMAIN Held(b) /\ Held(b) = heap.entries[table[b]]
         /\ ChunkAt(context[b]) = context[b].chunk
         /\ SoundContext(heap, table[b], context[b])
<1> DEFINE x == context[b]
           D == DOMAIN Held(b)
<1>1. SoundContext(heap, table[b], x)
  BY GoodBitmap DEF Fits
<1>2. x \in Contexts /\ x.table = table[b] /\ x.chunk \in D /\ x.index = Below(D, x.chunk)
  BY <1>1 DEF SoundContext, Held
<1>3. table[b] \in Tables /\ Held(b) = heap.entries[table[b]]
  BY <1>2, NullIsNoTable DEF Held, EntriesOf, Contexts
<1>4. D \in SUBSET Nat /\ IsFiniteSet(D)
  <2>1. D \subseteq Chunks
    BY GoodBitmap
  <2> QED BY <2>1, AddressAssumption, FS_Subset
<1>5. ChunkAt(x) = CHOOSE c \in D : Below(D, c) = x.index
  BY <1>2, <1>3 DEF ChunkAt
<1> HIDE DEF x, D
<1>6. \A c \in D : Below(D, c) = x.index => c = x.chunk
  BY <1>2, <1>4, BelowInjective
<1>7. ChunkAt(x) = x.chunk
  BY <1>2, <1>5, <1>6
<1> QED BY <1>1, <1>2, <1>3, <1>7 DEF x, D

LEMMA AddThroughAdds ==
  ASSUME Good, NEW b \in Bitmaps, NEW c \in Chunks, NEW k \in Lows, AddThrough(b, c, k)
  PROVE  Added(b, c, k)
<1> DEFINE x     == context[b]
           t     == table[b]
           d     == ChunkAt(x)
           held  == heap.keys[heap.entries[x.table][d]]
           own   == IF x.private THEN heap ELSE Own(heap, x.table, d)
           isNew == k \notin held
           W     == Written(own, x.table, d, held \cup {k})
           m     == size[b] + IF isNew THEN 1 ELSE 0
           y     == [x EXCEPT !.private = @ \/ isNew]
<1>1. WritesThrough(b, c) /\ pool' = pool
      /\ \/ /\ Becomes(b, W, t, m) /\ context' = [context EXCEPT ![b].private = @ \/ isNew]
            /\ answer' \in {IfSo(isNew), "threw"}
         \/ /\ UNCHANGED heap \/ heap' = own
            /\ UNCHANGED <<table, size, context>> /\ answer' = "threw"
  BY DEF AddThrough, Answers
<1>2. x # NoContext /\ x.chunk = c /\ (TableSharing(heap) => x.private)
  BY <1>1 DEF WritesThrough, Hits
<1>3. /\ x \in Contexts /\ x.table = t /\ t \in Tables /\ c \in DOMAIN Held(b) /\ Held(b) = heap.entries[t]
      /\ d = c /\ SoundContext(heap, t, x)
  BY <1>2, ChunkAtSlot
<1>4. ~IsShared(heap, t) /\ (x.private => Unshared(heap, t, c))
  BY <1>2, <1>3 DEF SoundContext, IsShared, Counted
<1>5. Owns(b, heap, t, {})
  <2>1. /\ Owns(b, OwnTable(t, 0).heap, OwnTable(t, 0).table, {})
        /\ ~IsShared(heap, t) => OwnTable(t, 0).heap = heap /\ OwnTable(t, 0).table = t
    BY OwnTableCall
  <2> QED BY <1>4, <2>1
<1>6. held = LowsOf(b, c)
  BY <1>3 DEF LowsOf, HoldsChunk
<1>7. own = heap \/ own = Own(heap, t, c)
  BY <1>3
<1>8. Owns(b, own, t, {}) /\ Keeps(heap, own, t) /\ Unshared(own, t, c)
  <2>1. CASE x.private
    BY <1>4, <1>5, <2>1, StepKeeps
  <2>2. CASE ~x.private
    <3>1. Owns(b, Own(heap, t, c), t, {}) /\ Keeps(heap, Own(heap, t, c), t) /\ Unshared(Own(heap, t, c), t, c)
      BY <1>3, <1>5, OwnCall
    <3> QED BY <1>3, <2>2, <3>1
  <2> QED BY <2>1, <2>2
<1> HIDE DEF own
<1>9. W = Written(own, t, c, LowsOf(b, c) \cup {k}) /\ (isNew <=> k \notin LowsOf(b, c))
      /\ m = size[b] + IF k \notin LowsOf(b, c) THEN 1 ELSE 0
  BY <1>3, <1>6
<1>10. k \in LowsOf(b, c) <=> <<c, k>> \in KeysOf(Value(b))
  BY HeldKey
<1> HIDE DEF W, m
<1>11. CASE /\ Becomes(b, W, t, m) /\ context' = [context EXCEPT ![b].private = @ \/ isNew]
            /\ answer' \in {IfSo(isNew), "threw"}
  <2>1. context \in [Bitmaps -> Contexts \cup {NoContext}]
    BY GoodBitmap
  <2>2. context' = [context EXCEPT ![b] = y]
    BY <1>11, <2>1
  <2>3. /\ Call(b, W, t, pool[b], {}) /\ Keeps(own, W, t) /\ Alone(W, t) /\ Unshared(W, t, c)
        /\ KeysOf(ValueIn(W, t)) = KeysOf(Value(b)) \cup {<<c, k>>}
        /\ \A z : SoundContext(W, t, z) => Fits(W, t, m, z)
    <3> HIDE DEF isNew
    <3> QED BY <1>3, <1>8, <1>9, KeyWritten
  <2>4. SoundContext(W, t, x)
    <3>1. Keeps(heap, W, t)
      BY <1>8, <2>3, StepKeeps
    <3> QED BY <1>3, <3>1, ContextKept DEF Stores
  <2>5. y \in Contexts /\ y.chunk = c /\ y.table = t /\ y.index = x.index
    <3> HIDE DEF isNew
    <3>1. x.private \in BOOLEAN
      BY <1>3 DEF Contexts
    <3>2. (x.private \/ isNew) \in BOOLEAN
      OBVIOUS
    <3> QED BY <1>2, <1>3, <3>2 DEF Contexts
  <2>6. ~IsShared(W, t)
    BY <1>3, <2>3 DEF Alone, IsShared
  <2> HIDE DEF y
  <2>7. SoundContext(W, t, y)
    BY <1>2, <2>3, <2>4, <2>5, <2>6 DEF SoundContext
  <2>8. Leaves(b, W, t, pool[b], m, y)
    BY <1>1, <1>11, <2>2, LeavesIntro
  <2>9. Done(b, KeysOf(ValueIn(W, t)))
    <3>1. y \in Contexts \cup {NoContext} /\ Fits(W, t, m, y)
      BY <2>3, <2>5, <2>7
    <3> QED BY <2>3, <2>8, <3>1, NoOperands, CallDone
  <2> QED BY <1>9, <1>10, <1>11, <2>3, <2>9 DEF Added
<1>12. CASE UNCHANGED <<heap, table, pool, size, context>> /\ answer' = "threw"
  BY <1>12, NothingDone DEF Added
<1>13. CASE heap' = own /\ UNCHANGED <<table, size, context>> /\ answer' = "threw"
  <2>1. SoundContext(own, t, x)
    BY <1>3, <1>8, ContextKept DEF Stores
  <2>2. Fits(own, t, size[b], x) /\ KeysOf(ValueIn(own, t)) = KeysOf(Value(b))
    BY <1>8, <2>1, OwnsFits
  <2>3. Becomes(b, own, t, size[b])
    <3>1. table \in [Bitmaps -> Stores] /\ size \in [Bitmaps -> Nat]
      BY GoodBitmap
    <3>2. table = [table EXCEPT ![b] = t] /\ size = [size EXCEPT ![b] = size[b]]
      BY <3>1
    <3> QED BY <1>13, <3>2 DEF Becomes
  <2>4. Leaves(b, own, t, pool[b], size[b], x)
    <3>1. context' = [context EXCEPT ![b] = x]
      BY <1>13, SameContext
    <3> QED BY <1>1, <2>3, <3>1, LeavesIntro
  <2>5. Call(b, own, t, pool[b], {})
    BY <1>8 DEF Owns
  <2>6. Done(b, KeysOf(ValueIn(own, t)))
    BY <1>3, <2>2, <2>4, <2>5, NoOperands, CallDone
  <2> QED BY <1>13, <2>2, <2>6 DEF Added
<1> QED BY <1>1, <1>11, <1>12, <1>13

LEMMA AddImplAdds ==
  ASSUME ResetsContext = TRUE, Good, NEW b \in Bitmaps, NEW c \in Chunks, NEW k \in Lows, NEW bulk \in BOOLEAN,
         AddImpl(b, c, k, bulk)
  PROVE  Added(b, c, k)
BY AddOfHeldAdds, AddFailsAdds, AddChunkAdds, AddToChunkAdds, AddToChunkFailsAdds DEF AddImpl

LEMMA AddBulkAdds ==
  ASSUME ResetsContext = TRUE, Good, NEW b \in Bitmaps, NEW c \in Chunks, NEW k \in Lows, AddBulk(b, c, k)
  PROVE  Added(b, c, k)
BY AddImplAdds, AddThroughAdds DEF AddBulk


-----------------------------------------------------------------------------
\* The context of b set, and nothing else.
LEMMA ContextDone ==
  ASSUME Good, NEW b \in Bitmaps, UNCHANGED <<heap, table, pool, size>>,
         NEW x \in Contexts \cup {NoContext}, SoundContext(heap, table[b], x),
         context' = [context EXCEPT ![b] = x]
  PROVE  Done(b, KeysOf(Value(b)))
<1>1. Fits(heap, table[b], size[b], context[b]) /\ table \in [Bitmaps -> Stores] /\ size \in [Bitmaps -> Nat]
  BY GoodBitmap
<1>2. Fits(heap, table[b], size[b], x)
  BY <1>1 DEF Fits
<1>3. Becomes(b, heap, table[b], size[b])
  <2>1. table = [table EXCEPT ![b] = table[b]] /\ size = [size EXCEPT ![b] = size[b]]
    BY <1>1
  <2> QED BY <2>1 DEF Becomes
<1>4. Leaves(b, heap, table[b], pool[b], size[b], x)
  BY <1>3, LeavesIntro
<1>5. Call(b, heap, table[b], pool[b], {})
  BY CallBegins
<1> QED BY <1>2, <1>4, <1>5, NoOperands, CallDone DEF Value

LEMMA ContainsBulkAnswers ==
  ASSUME Good, NEW b \in Bitmaps, NEW c \in Chunks, NEW k \in Lows, ContainsBulk(b, c, k)
  PROVE  Done(b, KeysOf(Value(b))) /\ answer' = IfSo(<<c, k>> \in KeysOf(Value(b)))
<1> DEFINE x == IF Hits(b, c) THEN context[b]
                ELSE IF HoldsChunk(b, c) THEN Slot(heap, table[b], c, FALSE) ELSE NoContext
<1>1. /\ UNCHANGED <<heap, table, pool, size>>
      /\ answer' = IfSo(IF Hits(b, c)
                        THEN k \in heap.keys[heap.entries[context[b].table][ChunkAt(context[b])]]
                        ELSE k \in LowsOf(b, c))
  BY DEF ContainsBulk, Answers
<1>2. context' = [context EXCEPT ![b] = x]
  <2>1. context \in [Bitmaps -> Contexts \cup {NoContext}]
    BY GoodBitmap
  <2> QED BY <2>1 DEF ContainsBulk
<1>3. Hits(b, c) => k \in heap.keys[heap.entries[context[b].table][ChunkAt(context[b])]] <=> k \in LowsOf(b, c)
  <2> SUFFICES ASSUME Hits(b, c)
               PROVE  k \in heap.keys[heap.entries[context[b].table][ChunkAt(context[b])]] <=> k \in LowsOf(b, c)
    OBVIOUS
  <2>1. context[b] # NoContext /\ context[b].chunk = c
    BY DEF Hits
  <2>2. /\ context[b].table = table[b] /\ ChunkAt(context[b]) = c
        /\ c \in DOMAIN Held(b) /\ Held(b) = heap.entries[table[b]]
    BY <2>1, ChunkAtSlot
  <2> QED BY <2>2 DEF LowsOf, HoldsChunk
<1>4. k \in LowsOf(b, c) <=> <<c, k>> \in KeysOf(Value(b))
  BY HeldKey
<1>5. answer' = IfSo(<<c, k>> \in KeysOf(Value(b)))
  BY <1>1, <1>3, <1>4 DEF IfSo
<1>6. x \in Contexts \cup {NoContext} /\ SoundContext(heap, table[b], x)
  <2>1. CASE Hits(b, c)
    <3>1. context[b] # NoContext
      BY <2>1 DEF Hits
    <3> QED BY <2>1, <3>1, ChunkAtSlot
  <2>2. CASE ~Hits(b, c) /\ HoldsChunk(b, c)
    <3>1. table[b] \in Stores /\ heap \in Heaps
      BY GoodBitmap
    <3>2. table[b] \in Tables /\ c \in DOMAIN heap.entries[table[b]]
      BY <2>2, <3>1, EntriesOfType DEF HoldsChunk, Held, Stores
    <3>3. Slot(heap, table[b], c, FALSE) \in Contexts /\ SoundContext(heap, table[b], Slot(heap, table[b], c, FALSE))
      BY <3>1, <3>2, SlotSound
    <3> QED BY <2>2, <3>3
  <2>3. CASE ~Hits(b, c) /\ ~HoldsChunk(b, c)
    BY <2>3, NoSoundContext
  <2> QED BY <2>1, <2>2, <2>3
<1> HIDE DEF x
<1>7. Done(b, KeysOf(Value(b)))
  BY <1>1, <1>2, <1>6, ContextDone
<1> QED BY <1>5, <1>7

LEMMA EndContextEnds ==
  ASSUME Good, NEW b \in Bitmaps, EndContext(b)
  PROVE  Done(b, KeysOf(Value(b))) /\ answer' = "done"
<1>1. UNCHANGED <<heap, table, pool, size>> /\ answer' = "done" /\ context' = [context EXCEPT ![b] = NoContext]
  BY AdvanceOne DEF EndContext, Answers
<1> QED BY <1>1, ContextDone, NoSoundContext

\* What Remove leaves of b and answers.
Removed(b, c, k) ==
  \/ Done(b, KeysOf(Value(b)) \ {<<c, k>>}) /\ answer' = IfSo(<<c, k>> \in KeysOf(Value(b)))
  \/ Done(b, KeysOf(Value(b))) /\ answer' = "threw"

LEMMA RemoveAbsentRemoves ==
  ASSUME Good, NEW b \in Bitmaps, NEW c \in Chunks, NEW k \in Lows, RemoveAbsent(b, c, k)
  PROVE  Removed(b, c, k)
<1>1. Done(b, KeysOf(Value(b))) /\ answer' = "false"
  BY NothingDone DEF RemoveAbsent, Answers
<1>2. k \notin LowsOf(b, c)
  BY LowsOfValue DEF RemoveAbsent
<1>3. <<c, k>> \notin KeysOf(Value(b))
  BY <1>2, HeldKey
<1>4. KeysOf(Value(b)) = KeysOf(Value(b)) \ {<<c, k>>}
  BY <1>3
<1> QED BY <1>1, <1>3, <1>4 DEF Removed, IfSo

\* The erasure of a chunk, as the call writes it.
LEMMA ErasedIsCut ==
  ASSUME NEW H \in Heaps, NEW t \in Tables, NEW c
  PROVE  [Dropped(H, Restrict(H.entries[t], {c})) EXCEPT !.entries[t] = Restrict(@, DOMAIN @ \ {c})]
           = Cut(H, t, {c})
<1> DEFINE D == Dropped(H, Restrict(H.entries[t], {c}))
<1>1. D.entries = H.entries
  BY DEF Dropped, Heaps
<1>2. D.entries[t] = H.entries[t]
  BY <1>1
<1> HIDE DEF D
<1>3. [D EXCEPT !.entries[t] = Restrict(@, DOMAIN @ \ {c})]
        = [D EXCEPT !.entries[t] = Restrict(H.entries[t], DOMAIN H.entries[t] \ {c})]
  BY <1>2
<1> QED BY <1>3 DEF Cut, Exchanged, D

LEMMA RemoveFromChunkRemoves ==
  ASSUME Good, NEW b \in Bitmaps, NEW c \in Chunks, NEW k \in Lows, RemoveFromChunk(b, c, k)
  PROVE  Removed(b, c, k)
<1> DEFINE G    == OwnTable(table[b], 0).heap
           n    == OwnTable(table[b], 0).table
           own  == Own(G, n, c)
           left == LowsOf(b, c) \ {k}
           W    == IF left = {} THEN Cut(own, n, {c}) ELSE Written(own, n, c, left)
           m    == size[b] - IF k \in LowsOf(b, c) THEN 1 ELSE 0
           y    == IF left = {} THEN NoContext ELSE Remains(b, n)
<1>1. c \in DOMAIN Held(b) /\ pool' = pool /\ answer' = IfSo(k \in LowsOf(b, c))
  BY DEF RemoveFromChunk, HoldsChunk, Answers
<1>2. context' = [context EXCEPT ![b] = y]
  <2>1. IF n # table[b] \/ left = {} THEN Advance({b}) ELSE UNCHANGED context
    BY DEF RemoveFromChunk
  <2> HIDE DEF n, left
  <2> QED BY <2>1, AdvanceOne, SameContext DEF Remains
<1>3. Owns(b, G, n, {})
  BY OwnTableCall
<1>4. ASSUME NEW V, n \in Tables => Keeps(G, V, n)
      PROVE  Remains(b, n) \in Contexts \cup {NoContext} /\ SoundContext(V, n, Remains(b, n))
  <2>1. G = OwnTable(table[b], 0).heap /\ n = OwnTable(table[b], 0).table
    OBVIOUS
  <2> HIDE DEF G, n
  <2> QED BY <1>4, <2>1, RemainsSound
<1>5. n \in Tables /\ G \in Heaps
  <2> HIDE DEF G, n
  <2> QED BY <1>1, <1>3, OwnsType, CallType DEF Owns
<1>6. Becomes(b, W, n, m)
  <2>1. Becomes(b, IF left = {}
                   THEN [Dropped(own, Restrict(own.entries[n], {c})) EXCEPT !.entries[n] = Restrict(@, DOMAIN @ \ {c})]
                   ELSE Written(own, n, c, left), n, m)
    BY DEF RemoveFromChunk
  <2>2. own \in Heaps
    <3> HIDE DEF G, n
    <3>1. Owns(b, own, n, {})
      BY <1>1, <1>3, OwnCall
    <3> HIDE DEF own
    <3> QED BY <3>1, CallType DEF Owns
  <2> HIDE DEF G, n, own, left, m
  <2>3. [Dropped(own, Restrict(own.entries[n], {c})) EXCEPT !.entries[n] = Restrict(@, DOMAIN @ \ {c})]
          = Cut(own, n, {c})
    BY <1>5, <2>2, ErasedIsCut
  <2> QED BY <2>1, <2>3
<1> HIDE DEF G, n
<1>7. Owns(b, own, n, {}) /\ Keeps(G, own, n) /\ Unshared(own, n, c)
  BY <1>1, <1>3, OwnCall
<1> HIDE DEF own
<1>8. /\ Value(b) \in Maps /\ NonEmpty(Value(b)) /\ DOMAIN Value(b) = DOMAIN Held(b) /\ size[b] \in Nat
      /\ c \in DOMAIN Value(b) /\ LowsOf(b, c) = Value(b)[c] /\ Value(b)[c] \in SUBSET Lows
  <2>1. Value(b) \in Maps /\ NonEmpty(Value(b)) /\ DOMAIN Value(b) = DOMAIN Held(b) /\ size[b] \in Nat
    BY GoodBitmap
  <2>2. HoldsChunk(b, c)
    BY <1>1 DEF HoldsChunk
  <2> QED BY <2>1, <2>2, LowsOfValue, MapsElim
<1>9. left = Value(b)[c] \ {k} /\ left \in SUBSET Lows /\ (left = {} <=> Value(b)[c] \subseteq {k})
  BY <1>8
<1> HIDE DEF left
<1>10. /\ Call(b, W, n, pool[b], {})
       /\ KeysOf(ValueIn(W, n)) = KeysOf(Value(b)) \ {<<c, k>>} /\ NonEmpty(ValueIn(W, n))
       /\ left # {} => Keeps(own, W, n)
  <2>1. CASE left = {}
    <3>1. W = Cut(own, n, {c})
      BY <2>1
    <3> HIDE DEF W
    <3>2. /\ Call(b, W, n, pool[b], {})
          /\ ValueIn(W, n) \in Maps /\ DOMAIN ValueIn(W, n) = DOMAIN Value(b) \ {c}
          /\ \A d \in DOMAIN Value(b) \ {c} : ValueIn(W, n)[d] = Value(b)[d]
      <4>1. Call(b, W, n, pool[b], {}) /\ LacksChunk(b, W, n, c)
        BY <1>1, <1>7, <3>1, CutCall
      <4> QED BY <4>1 DEF LacksChunk
    <3>3. IF Value(b)[c] \subseteq {k} THEN c \notin DOMAIN ValueIn(W, n)
          ELSE c \in DOMAIN ValueIn(W, n) /\ ValueIn(W, n)[c] = Value(b)[c] \ {k}
      BY <1>9, <2>1, <3>2
    <3>4. DOMAIN ValueIn(W, n) \subseteq DOMAIN Value(b)
          /\ \A d \in DOMAIN Value(b) \ {c} : d \in DOMAIN ValueIn(W, n) /\ ValueIn(W, n)[d] = Value(b)[d]
      BY <3>2
    <3>5. KeysOf(ValueIn(W, n)) = KeysOf(Value(b)) \ {<<c, k>>}
      BY <1>8, <3>2, <3>3, <3>4, KeysCut
    <3>6. NonEmpty(ValueIn(W, n))
      BY <1>8, <3>2 DEF NonEmpty
    <3> QED BY <2>1, <3>2, <3>5, <3>6
  <2>2. CASE left # {}
    <3>1. W = Written(own, n, c, left)
      BY <2>2
    <3> HIDE DEF W
    <3>2. /\ Call(b, W, n, pool[b], {}) /\ Keeps(own, W, n)
          /\ ValueIn(W, n) \in Maps /\ DOMAIN ValueIn(W, n) = DOMAIN Value(b)
          /\ ValueIn(W, n)[c] = left
          /\ \A d \in DOMAIN Value(b) \ {c} : ValueIn(W, n)[d] = Value(b)[d]
      BY <1>1, <1>7, <1>8, <1>9, <3>1, WrittenCall
    <3>3. IF Value(b)[c] \subseteq {k} THEN c \notin DOMAIN ValueIn(W, n)
          ELSE c \in DOMAIN ValueIn(W, n) /\ ValueIn(W, n)[c] = Value(b)[c] \ {k}
      BY <1>8, <1>9, <2>2, <3>2
    <3>4. DOMAIN ValueIn(W, n) \subseteq DOMAIN Value(b)
          /\ \A d \in DOMAIN Value(b) \ {c} : d \in DOMAIN ValueIn(W, n) /\ ValueIn(W, n)[d] = Value(b)[d]
      BY <3>2
    <3>5. KeysOf(ValueIn(W, n)) = KeysOf(Value(b)) \ {<<c, k>>}
      BY <1>8, <3>2, <3>3, <3>4, KeysCut
    <3>6. NonEmpty(ValueIn(W, n))
      BY <1>8, <2>2, <3>2 DEF NonEmpty
    <3> QED BY <3>2, <3>5, <3>6
  <2> QED BY <2>1, <2>2
<1> HIDE DEF W
<1>11. y \in Contexts \cup {NoContext} /\ SoundContext(W, n, y)
  <2>1. CASE left = {}
    BY <2>1, NoSoundContext
  <2>2. CASE left # {}
    <3>1. Keeps(G, W, n)
      BY <1>7, <1>10, <2>2, StepKeeps
    <3> QED BY <1>4, <2>2, <3>1
  <2> QED BY <2>1, <2>2
<1>12. k \in LowsOf(b, c) <=> <<c, k>> \in KeysOf(Value(b))
  BY HeldKey
<1>13. m = size[b] + (Cardinality(KeysOf(ValueIn(W, n))) - Cardinality(KeysOf(Value(b))))
  <2>1. Cardinality(KeysOf(ValueIn(W, n))) = Cardinality(KeysOf(Value(b))) - (IF k \in LowsOf(b, c) THEN 1 ELSE 0)
        /\ Cardinality(KeysOf(Value(b))) \in Nat
    BY <1>10, <1>12, SizeAdded, KeysOfFinite
  <2> QED BY <1>8, <2>1
<1> HIDE DEF m, y
<1>14. Fits(W, n, m, y)
  BY <1>10, <1>11, <1>13, FitsFor
<1>15. Leaves(b, W, n, pool[b], m, y)
  BY <1>1, <1>2, <1>6, LeavesIntro
<1>16. Done(b, KeysOf(ValueIn(W, n)))
  BY <1>10, <1>11, <1>14, <1>15, NoOperands, CallDone
<1> QED BY <1>1, <1>10, <1>12, <1>16 DEF Removed


LEMMA RemoveFailsRemoves ==
  ASSUME Good, NEW b \in Bitmaps, NEW c \in Chunks, NEW k \in Lows, RemoveFails(b, c, k)
  PROVE  Removed(b, c, k)
<1> DEFINE G   == OwnTable(table[b], 0).heap
           n   == OwnTable(table[b], 0).table
           own == Own(G, n, c)
           y   == Remains(b, n)
<1>1. /\ c \in DOMAIN Held(b) /\ pool' = pool /\ answer' = "threw"
      /\ \/ UNCHANGED <<heap, table, size, context>>
         \/ /\ Becomes(b, G, n, size[b]) \/ Becomes(b, own, n, size[b])
            /\ IF n # table[b] THEN Advance({b}) ELSE UNCHANGED context
  BY DEF RemoveFails, HoldsChunk, Answers
<1>2. Owns(b, G, n, {})
  BY OwnTableCall
<1>3. ASSUME NEW V, n \in Tables => Keeps(G, V, n)
      PROVE  y \in Contexts \cup {NoContext} /\ SoundContext(V, n, y)
  <2>1. G = OwnTable(table[b], 0).heap /\ n = OwnTable(table[b], 0).table
    OBVIOUS
  <2> HIDE DEF G, n
  <2> QED BY <1>3, <2>1, RemainsSound
<1> HIDE DEF G, n
<1>4. Owns(b, own, n, {}) /\ Keeps(G, own, n) /\ Keeps(G, G, n)
  BY <1>1, <1>2, OwnCall, StepKeeps
<1> HIDE DEF own, y
<1>5. ASSUME NEW W, Owns(b, W, n, {}), Keeps(G, W, n), Becomes(b, W, n, size[b]),
             IF n # table[b] THEN Advance({b}) ELSE UNCHANGED context
      PROVE  Done(b, KeysOf(Value(b)))
  <2>1. context' = [context EXCEPT ![b] = y]
    BY <1>5, AdvanceOne, SameContext DEF y, Remains
  <2>2. y \in Contexts \cup {NoContext} /\ SoundContext(W, n, y)
    BY <1>3, <1>5
  <2>3. Fits(W, n, size[b], y) /\ KeysOf(ValueIn(W, n)) = KeysOf(Value(b))
    BY <1>5, <2>2, OwnsFits
  <2>4. Leaves(b, W, n, pool[b], size[b], y)
    BY <1>1, <1>5, <2>1, LeavesIntro
  <2>5. Call(b, W, n, pool[b], {}) /\ Operands(table, context, b, {})
    BY <1>5, NoOperands DEF Owns
  <2>6. Done(b, KeysOf(ValueIn(W, n)))
    BY <2>2, <2>3, <2>4, <2>5, CallDone
  <2> QED BY <2>3, <2>6
<1>6. UNCHANGED <<heap, table, size, context>> => Done(b, KeysOf(Value(b)))
  BY <1>1, NothingDone
<1>7. Done(b, KeysOf(Value(b)))
  BY <1>1, <1>2, <1>4, <1>5, <1>6
<1> QED BY <1>1, <1>7 DEF Removed

LEMMA RemoveRemoves ==
  ASSUME Good, NEW b \in Bitmaps, NEW c \in Chunks, NEW k \in Lows, Remove(b, c, k)
  PROVE  Removed(b, c, k)
BY RemoveAbsentRemoves, RemoveFromChunkRemoves, RemoveFailsRemoves DEF Remove

-----------------------------------------------------------------------------
LEMMA EmptyTable ==
  ASSUME NEW H, NEW t, DOMAIN EntriesOf(H, t) = {}
  PROVE  KeysOf(ValueIn(H, t)) = {} /\ Fits(H, t, 0, NoContext)
<1>1. DOMAIN ValueIn(H, t) = {}
  BY ValueDomain
<1>2. KeysOf(ValueIn(H, t)) = {} /\ NonEmpty(ValueIn(H, t))
  BY <1>1 DEF KeysOf, NonEmpty
<1>3. Cardinality(KeysOf(ValueIn(H, t))) = 0
  BY <1>2, FS_EmptySet
<1>4. Fits(H, t, 0, NoContext)
  BY <1>2, <1>3, NoSoundContext DEF Fits
<1> QED BY <1>2, <1>4

\* A step in the pool of the bitmap, which is its own.
LEMMA PoolServes ==
  ASSUME NEW H, NEW t, NEW q, Hosts(H, t, q), NEW G, NEW U, SameBlocks(H, G),
         \A x \in Tables \ {q} : Untouched(H, G, x)
  PROVE  Serves(H, G, t, q, t, q, U)
<1>1. \A x \in Tables : G.holders[x] = H.holders[x] + Held1(t, x) + Held1(q, x) - Held1(t, x) - Held1(q, x)
  BY Held1Type DEF Hosts, SameBlocks
<1>2. ASSUME NEW x \in Tables, H.holders[x] > Held1(t, x) + Held1(q, x)
      PROVE  SameValue(H, G, x) /\ Untouched(H, G, x)
  <2>1. x = q => H.holders[x] = 1
    BY DEF Hosts
  <2>2. x # q
    BY <1>2, <2>1, Held1Type
  <2> QED BY <2>2 DEF Untouched
<1> QED BY <1>1, <1>2 DEF Serves, Hosts, SameBlocks

\* The pool emptied.
LEMMA PoolEmptied ==
  ASSUME Good, NEW b \in Bitmaps, NEW U
  PROVE  LET E == Emptied(heap, pool[b])
         IN  /\ Call(b, E, table[b], pool[b], U)
             /\ DOMAIN EntriesOf(E, pool[b]) = {}
             /\ IsShared(E, table[b]) <=> IsShared(heap, table[b])
             /\ table[b] \in Tables => Untouched(heap, E, table[b])
<1> DEFINE E == Emptied(heap, pool[b])
           t == table[b]
           q == pool[b]
<1>1. Call(b, heap, t, q, U) /\ Account(heap, None) /\ Hosts(heap, t, q) /\ t \in Stores /\ q \in Stores
  BY CallBegins DEF Call, Hosts
<1>2. Account(E, None) /\ Empties(heap, E, q)
  BY <1>1, EmptiedAccount DEF Stores
<1> HIDE DEF E
<1>3. SameBlocks(heap, E) /\ (\A x \in Tables \ {q} : Untouched(heap, E, x))
  BY <1>2 DEF Empties
<1>4. Serves(heap, E, t, q, t, q, U)
  BY <1>1, <1>3, PoolServes
<1>5. Call(b, E, t, q, U)
  BY <1>1, <1>2, <1>4, CallGoesOn
<1>6. DOMAIN EntriesOf(E, q) = {}
  BY <1>1, <1>2, NoEntriesType DEF Empties, EntriesOf, Stores
<1>7. IsShared(E, t) <=> IsShared(heap, t)
  BY <1>3 DEF SameBlocks, IsShared, Counted, TableSharing, RoomOf
<1>8. t \in Tables => Untouched(heap, E, t)
  BY <1>1, <1>3 DEF Hosts
<1> QED BY <1>5, <1>6, <1>7, <1>8 DEF E

\* A table that is not shared is the bitmap's alone.
LEMMA AloneUnshared ==
  ASSUME NEW b \in Bitmaps, NEW G, NEW n, NEW p, NEW U, Call(b, G, n, p, U), ~IsShared(G, n)
  PROVE  Alone(G, n)
<1>1. ASSUME n \in Tables PROVE G.holders[n] = 1
  <2>1. G.holders[n] # 0 /\ Account(G, None)
    BY <1>1, CallType DEF Call
  <2> QED BY <1>1, <2>1, HoldersSharedOrOne
<1> QED BY <1>1 DEF Alone

\* A bitmap left without a key.
LEMMA EmptyDone ==
  ASSUME Good, NEW b \in Bitmaps, NEW G, NEW n, NEW p, Call(b, G, n, p, {}), DOMAIN EntriesOf(G, n) = {},
         Becomes(b, G, n, 0), pool' = [pool EXCEPT ![b] = p], Advance({b})
  PROVE  Done(b, {})
<1>1. Fits(G, n, 0, NoContext) /\ KeysOf(ValueIn(G, n)) = {}
  BY EmptyTable
<1>2. Leaves(b, G, n, p, 0, NoContext)
  BY AdvanceOne DEF Leaves, Becomes
<1>3. Done(b, KeysOf(ValueIn(G, n)))
  BY <1>1, <1>2, NoOperands, CallDone
<1> QED BY <1>1, <1>3

LEMMA ClearClears ==
  ASSUME Good, NEW b \in Bitmaps, Clear(b)
  PROVE  Done(b, {}) /\ answer' = "done"
<1> DEFINE E == Emptied(heap, pool[b])
           t == table[b]
           q == pool[b]
<1>1. /\ Call(b, E, t, q, {}) /\ DOMAIN EntriesOf(E, q) = {}
  BY PoolEmptied
<1>2. /\ IF IsShared(E, t) THEN Becomes(b, Released(E, t), Null, 0) ELSE Becomes(b, Emptied(E, t), t, 0)
      /\ Advance({b}) /\ answer' = "done" /\ pool' = pool
  BY DEF Clear, Answers
<1> HIDE DEF E
<1>3. pool' = [pool EXCEPT ![b] = q]
  <2>1. pool \in [Bitmaps -> Stores]
    BY GoodBitmap
  <2> QED BY <1>2, <2>1
<1>4. Account(E, None) /\ Hosts(E, t, q) /\ t \in Stores /\ (t \in Tables => E.holders[t] # 0)
  BY <1>1 DEF Call, Hosts
<1>5. CASE IsShared(E, t)
  <2> DEFINE R == Released(E, t)
  <2>1. Account(R, None) /\ Releases(E, R, t)
    BY <1>4, ReleasedAccount DEF Stores
  <2>2. Becomes(b, R, Null, 0)
    BY <1>2, <1>5
  <2> HIDE DEF R
  <2>3. Serves(E, R, t, q, Null, q, {})
    BY <1>4, <2>1, ReleaseServes
  <2>4. Call(b, R, Null, q, {})
    BY <1>1, <2>1, <2>3, CallGoesOn
  <2>5. DOMAIN EntriesOf(R, Null) = {}
    BY NoEntriesType DEF EntriesOf
  <2> QED BY <1>2, <1>3, <2>2, <2>4, <2>5, EmptyDone
<1>6. CASE ~IsShared(E, t)
  <2> DEFINE R == Emptied(E, t)
  <2>1. Account(R, None) /\ Empties(E, R, t)
    BY <1>4, EmptiedAccount DEF Stores
  <2>2. Becomes(b, R, t, 0)
    BY <1>2, <1>6
  <2>3. Alone(E, t)
    BY <1>1, <1>6, AloneUnshared
  <2> HIDE DEF R
  <2>4. Serves(E, R, t, q, t, q, {})
    <3>1. SameBlocks(E, R) /\ \A x \in Tables \ {t, q} : Untouched(E, R, x)
      BY <2>1 DEF Empties
    <3> QED BY <1>4, <2>3, <3>1, OwnServes
  <2>5. Call(b, R, t, q, {})
    BY <1>1, <2>1, <2>4, CallGoesOn
  <2>6. DOMAIN EntriesOf(R, t) = {}
    BY <1>4, <2>1, NoEntriesType DEF Empties, EntriesOf, Stores
  <2> QED BY <1>2, <1>3, <2>2, <2>5, <2>6, EmptyDone
<1> QED BY <1>2, <1>5, <1>6

LEMMA ParkedCall ==
  ASSUME Good, NEW b \in Bitmaps, NEW U
  PROVE  LET P == Parked(heap, b)
         IN  /\ Call(b, P.heap, P.table, P.pool, U) /\ Alone(P.heap, P.table)
             /\ DOMAIN EntriesOf(P.heap, P.table) = {}
<1> DEFINE E == Emptied(heap, pool[b])
           t == table[b]
           q == pool[b]
           P == Parked(heap, b)
<1>1. /\ Call(b, E, t, q, U) /\ DOMAIN EntriesOf(E, q) = {}
      /\ IsShared(E, t) <=> IsShared(heap, t)
      /\ t \in Tables => Untouched(heap, E, t)
  BY PoolEmptied
<1>2. /\ Length(E, t) = 0 => P.heap = E /\ P.table = t /\ P.pool = q
      /\ Length(E, t) # 0 /\ IsShared(E, t) => P.heap = Released(E, t) /\ P.table = q /\ P.pool = Null
      /\ Length(E, t) # 0 /\ ~IsShared(E, t) => P.heap = E /\ P.table = q /\ P.pool = t
  BY DEF Parked
<1> HIDE DEF E, P
<1>3. /\ Account(E, None) /\ Hosts(E, t, q) /\ t \in Stores /\ q \in Stores
      /\ t \in Tables => E.holders[t] # 0
      /\ q \in Tables => E.holders[q] = 1 /\ q # t
  BY <1>1 DEF Call, Hosts
<1>4. CASE Length(E, t) = 0
  <2>1. DOMAIN EntriesOf(E, t) = {}
    <3>1. IsFiniteSet(DOMAIN EntriesOf(E, t))
      BY <1>1, CallType, EntriesElim
    <3> QED BY <1>4, <3>1, FS_EmptySet DEF Length
  <2>2. ~IsShared(E, t)
    <3>1. CASE t \in Tables
      <4>1. E.entries[t] = heap.entries[t] /\ EntriesOf(E, t) = E.entries[t]
        BY <1>1, <3>1, NullIsNoTable DEF Untouched, SameValue, EntriesOf
      <4>2. ~(heap.holders[t] > 1)
        BY <2>1, <3>1, <4>1 DEF Good, Sound, SharedNonEmpty
      <4>3. Account(heap, None) /\ heap.holders[t] # 0
        BY <3>1, CallBegins, CallType DEF Good, Sound
      <4> QED BY <1>1, <3>1, <4>2, <4>3, HoldersSharedOrOne
    <3>2. CASE t = Null
      BY <3>2, NullNotShared
    <3> QED BY <1>3, <3>1, <3>2 DEF Stores
  <2>3. Alone(E, t)
    BY <1>1, <2>2, AloneUnshared
  <2> QED BY <1>1, <1>2, <1>4, <2>1, <2>3 DEF P
<1>5. CASE Length(E, t) # 0 /\ IsShared(E, t)
  <2> DEFINE R == Released(E, t)
  <2>1. Account(R, None) /\ Releases(E, R, t)
    BY <1>3, ReleasedAccount DEF Stores
  <2>2. P.heap = R /\ P.table = q /\ P.pool = Null
    BY <1>2, <1>5
  <2> HIDE DEF R
  <2>3. Serves(E, R, t, q, Null, q, U)
    BY <1>3, <2>1, ReleaseServes
  <2>4. Call(b, R, Null, q, U)
    BY <1>1, <2>1, <2>3, CallGoesOn
  <2>5. Hosts(R, Null, q) /\ Alone(R, Null)
    BY <2>4, NullIsNoTable DEF Call, Alone
  <2>6. Call(b, R, q, Null, U)
    BY <2>1, <2>4, <2>5, ExchangeServes, CallGoesOn
  <2>7. Alone(R, q) /\ DOMAIN EntriesOf(R, q) = {}
    <3>1. q \in Tables => R.holders[q] = 1
      BY <2>5 DEF Hosts
    <3>2. q \in Tables => R.entries[q] = E.entries[q]
      BY <1>3, <2>1 DEF Releases, Untouched, SameValue
    <3> QED BY <1>1, <1>3, <3>1, <3>2 DEF Alone, EntriesOf, Stores
  <2> QED BY <2>2, <2>6, <2>7 DEF P
<1>6. CASE Length(E, t) # 0 /\ ~IsShared(E, t)
  <2>1. Alone(E, t)
    BY <1>1, <1>6, AloneUnshared
  <2>2. Call(b, E, q, t, U)
    BY <1>1, <1>3, <2>1, ExchangeServes, CallGoesOn
  <2>3. Alone(E, q)
    BY <1>3 DEF Alone
  <2> QED BY <1>1, <1>2, <1>6, <2>2, <2>3 DEF P
<1> QED BY <1>4, <1>5, <1>6

LEMMA ClearKeepCapacityClears ==
  ASSUME Good, NEW b \in Bitmaps, ClearKeepCapacity(b)
  PROVE  Done(b, {}) /\ answer' = "done"
<1> DEFINE P == Parked(heap, b)
<1>1. /\ Call(b, P.heap, P.table, P.pool, {}) /\ DOMAIN EntriesOf(P.heap, P.table) = {}
  BY ParkedCall
<1>2. /\ Becomes(b, P.heap, P.table, 0) /\ pool' = [pool EXCEPT ![b] = P.pool]
      /\ Advance({b}) /\ answer' = "done"
  BY DEF ClearKeepCapacity, Answers
<1> HIDE DEF P
<1> QED BY <1>1, <1>2, EmptyDone


-----------------------------------------------------------------------------
(***************************************************************************)
(* Assignment: the copy is made, and what b held is let go of.             *)
(***************************************************************************)
\* The heaps on the way: the copy made, the table released, the pool released.
Exchanged3(H, G, t, q, u, n) ==
  /\ G.policy = H.policy /\ n \in Stores
  /\ \A x \in Tables : G.holders[x] = H.holders[x] + Held1(n, x) - Held1(t, x) - Held1(q, x)
  /\ n \in Tables => H.holders[n] = 0 \/ (n = u /\ DOMAIN EntriesOf(H, u) # {})
  /\ ValueIn(G, n) = ValueIn(H, u)
  /\ \A x \in Tables : H.holders[x] > Held1(t, x) + Held1(q, x) =>
       SameValue(H, G, x) /\ (x \notin {t, q, u} => Untouched(H, G, x))

LEMMA AssignHeap ==
  ASSUME Good, NEW b \in Bitmaps, NEW c \in Bitmaps \ {b}
  PROVE  LET copy == Copy(heap, table[c])
             B    == Released(Released(copy.heap, table[b]), pool[b])
         IN  Account(B, None) /\ Exchanged3(heap, B, table[b], pool[b], table[c], copy.table)
<1> DEFINE t == table[b]
           q == pool[b]
           u == table[c]
           C == Copy(heap, u).heap
           n == Copy(heap, u).table
           A == Released(C, t)
           B == Released(A, q)
<1>1. /\ Account(heap, None) /\ Rooted(heap, table, pool) /\ Spacious(heap) /\ Hosts(heap, t, q)
      /\ t \in Stores /\ q \in Stores /\ u \in Stores
      /\ u \in Tables => heap.holders[u] # 0
      /\ heap \in Heaps
  <2>1. Call(b, heap, t, q, {}) /\ Call(c, heap, u, pool[c], {})
    BY CallBegins
  <2> QED BY <2>1, GoodBitmap, CallType DEF Call, Good, Sound
<1>2. Account(C, None) /\ CopyOf(heap, C, u, n)
  BY <1>1, CopyAccount DEF Stores
<1> HIDE DEF C, n
<1>3. ASSUME NEW x \in Tables
      PROVE  /\ heap.holders[x] \in Nat /\ C.holders[x] = heap.holders[x] + Held1(n, x)
             /\ heap.holders[x] >= Held1(t, x) + Held1(q, x) + Held1(u, x)
  <2>1. heap.holders[x] \in Nat /\ heap.holders[x] >= Held1(t, x) + Held1(q, x) + Held1(u, x)
    BY <1>1, RootedHolders
  <2> QED BY <1>2, <2>1 DEF CopyOf
<1>4. t \in Tables => C.holders[t] # 0
  BY <1>3, Held1Type
<1>5. Account(A, None) /\ Releases(C, A, t)
  BY <1>1, <1>2, <1>4, ReleasedAccount DEF Stores
<1> HIDE DEF A
<1>6. ASSUME NEW x \in Tables
      PROVE  A.holders[x] = heap.holders[x] + Held1(n, x) - Held1(t, x)
  <2>1. Held1(n, x) \in Nat /\ Held1(t, x) \in Nat
    BY Held1Type
  <2>2. C.holders[x] = heap.holders[x] + Held1(n, x) /\ heap.holders[x] \in Nat
    BY <1>3
  <2>3. A.holders[x] = C.holders[x] - Held1(t, x)
    BY <1>5 DEF Releases
  <2> QED BY <2>1, <2>2, <2>3
<1>7. q \in Tables => A.holders[q] # 0
  BY <1>3, <1>6, Held1Type
<1>8. Account(B, None) /\ Releases(A, B, q)
  BY <1>1, <1>5, <1>7, ReleasedAccount DEF Stores
<1> HIDE DEF B
<1>9. ASSUME NEW x \in Tables
      PROVE  B.holders[x] = heap.holders[x] + Held1(n, x) - Held1(t, x) - Held1(q, x)
  <2>1. A.holders[x] = heap.holders[x] + Held1(n, x) - Held1(t, x)
    BY <1>6
  <2>2. B.holders[x] = A.holders[x] - Held1(q, x)
    BY <1>8 DEF Releases
  <2>3. heap.holders[x] \in Nat /\ Held1(n, x) \in Nat /\ Held1(t, x) \in Nat /\ Held1(q, x) \in Nat
    BY <1>3, Held1Type
  <2> QED BY <2>1, <2>2, <2>3
<1>10. ASSUME NEW x \in Tables, heap.holders[x] > Held1(t, x) + Held1(q, x)
       PROVE  SameValue(C, B, x) /\ Untouched(C, B, x)
  <2>1. x = t => C.holders[x] > 1
    BY <1>3, <1>10, Held1Type
  <2>2. Untouched(C, A, x)
    BY <1>5, <2>1 DEF Releases
  <2>3. x = q => A.holders[x] > 1
    BY <1>3, <1>6, <1>10, Held1Type
  <2>4. Untouched(A, B, x)
    BY <1>8, <2>3 DEF Releases
  <2> QED BY <2>2, <2>4, UntouchedTransitive DEF Untouched
<1>11. ASSUME NEW x \in Tables, heap.holders[x] > Held1(t, x) + Held1(q, x)
       PROVE  SameValue(heap, B, x) /\ (x \notin {t, q, u} => Untouched(heap, B, x))
  <2>1. SameValue(heap, C, x) /\ (x # u => Untouched(heap, C, x))
    <3>1. heap.holders[x] # 0
      BY <1>3, <1>11, Held1Type
    <3>2. x = n => x = u
      BY <1>2, <3>1 DEF CopyOf
    <3> QED BY <1>2, <3>2 DEF CopyOf, Untouched
  <2> QED BY <1>10, <1>11, <2>1, UntouchedTransitive
<1>12. ValueIn(B, n) = ValueIn(heap, u)
  <2>1. ValueIn(C, n) = ValueIn(heap, u) /\ n \in Tables \cup {Null}
    BY <1>2 DEF CopyOf
  <2>2. ASSUME n \in Tables PROVE SameValue(C, B, n)
    <3>1. CASE heap.holders[n] = 0
      <4>1. n # t /\ n # q
        BY <1>3, <2>2, <3>1, Held1Type
      <4>2. Untouched(C, A, n) /\ Untouched(A, B, n)
        BY <1>5, <1>8, <2>2, <4>1 DEF Releases
      <4> QED BY <4>2, UntouchedTransitive DEF Untouched
    <3>2. CASE heap.holders[n] # 0
      <4>1. n = u
        BY <1>2, <2>2, <3>2 DEF CopyOf
      <4>2. heap.holders[n] > Held1(t, n) + Held1(q, n)
        BY <1>3, <2>2, <4>1, Held1Type
      <4> QED BY <1>10, <2>2, <4>2
    <3> QED BY <3>1, <3>2
  <2>3. ValueIn(B, n) = ValueIn(C, n)
    BY <2>1, <2>2, SameValueIn
  <2> QED BY <2>1, <2>3
<1>13. Exchanged3(heap, B, t, q, u, n)
  <2>1. B.policy = heap.policy /\ n \in Stores
    BY <1>2, <1>5, <1>8 DEF CopyOf, Releases, Stores
  <2>2. n \in Tables => heap.holders[n] = 0 \/ (n = u /\ DOMAIN EntriesOf(heap, u) # {})
    <3>1. n \in Tables => heap.holders[n] = 0 \/ (n = u /\ Length(heap, u) # 0)
      BY <1>2 DEF CopyOf
    <3> QED BY <3>1, FS_EmptySet DEF Length
  <2> QED BY <1>9, <1>11, <1>12, <2>1, <2>2 DEF Exchanged3
<1> QED BY <1>8, <1>13 DEF B, A, C, n


\* What the copy leaves: b has the value of c, everything else is as before.
LEMMA AssignSound ==
  ASSUME Good, NEW b \in Bitmaps, NEW c \in Bitmaps \ {b}, context[c] = NoContext,
         NEW B, Account(B, None), NEW n, Exchanged3(heap, B, table[b], pool[b], table[c], n)
  PROVE  /\ Sound(B, [table EXCEPT ![b] = n], [pool EXCEPT ![b] = Null],
                  [size EXCEPT ![b] = size[c]], [context EXCEPT ![b] = NoContext])
         /\ \A d \in Bitmaps \ {b} : ValueIn(B, table[d]) = ValueIn(heap, table[d])
<1> DEFINE f == [table EXCEPT ![b] = n]
           g == [pool EXCEPT ![b] = Null]
           h == [size EXCEPT ![b] = size[c]]
           y == [context EXCEPT ![b] = NoContext]
           t == table[b]
           q == pool[b]
           u == table[c]
<1>1. /\ Account(heap, None) /\ Rooted(heap, table, pool) /\ SharedNonEmpty(heap)
      /\ table \in [Bitmaps -> Stores] /\ pool \in [Bitmaps -> Stores] /\ size \in [Bitmaps -> Nat]
      /\ context \in [Bitmaps -> Contexts \cup {NoContext}]
      /\ \A d \in Bitmaps : Fits(heap, table[d], size[d], context[d])
      /\ n \in Stores /\ Null \in Stores /\ B.policy = heap.policy
  BY DEF Good, Sound, Rooted, Exchanged3, Stores
<1>2. ASSUME NEW x \in Tables
      PROVE  /\ heap.holders[x] \in Nat /\ heap.holders[x] >= Held1(t, x) + Held1(q, x) + Held1(u, x)
             /\ B.holders[x] = heap.holders[x] + Held1(n, x) - Held1(t, x) - Held1(q, x)
             /\ n = x => heap.holders[x] = 0 \/ (x = u /\ DOMAIN EntriesOf(heap, u) # {})
  BY <1>1, RootedHolders DEF Exchanged3
<1>3. ASSUME NEW x \in Tables
      PROVE  /\ Held1(t, x) \in Nat /\ Held1(q, x) \in Nat /\ Held1(n, x) \in Nat /\ Held1(Null, x) = 0
             /\ Held1(u, x) \in Nat
  BY Held1Type, NullIsNoTable DEF Held1
<1>4. ASSUME NEW x \in Tables
      PROVE  B.holders[x] = Holding(f, x) + Holding(g, x)
  <2> DEFINE T == Holding(table, x)
             P == Holding(pool, x)
             F == Holding(f, x)
             Q == Holding(g, x)
  <2>1. T \in Nat /\ F + Held1(t, x) = T + Held1(n, x) /\ F \in Nat
    <3>1. Exchanged1(table, f, t, n)
      BY <1>1, CountMoved
    <3> HIDE DEF f
    <3> QED BY <3>1 DEF Exchanged1
  <2>2. P \in Nat /\ Q + Held1(q, x) = P + Held1(Null, x) /\ Q \in Nat
    <3>1. Exchanged1(pool, g, q, Null)
      BY <1>1, CountMoved
    <3> HIDE DEF g
    <3> QED BY <3>1 DEF Exchanged1
  <2>3. heap.holders[x] = T + P
    BY <1>1 DEF Rooted
  <2> HIDE DEF T, P, F, Q
  <2>4. B.holders[x] = F + Q
    BY <1>2, <1>3, <2>1, <2>2, <2>3
  <2> QED BY <2>4 DEF F, Q
<1>5. ASSUME NEW d \in Bitmaps \ {b}, pool[d] \in Tables
      PROVE  B.holders[pool[d]] = 1
  <2> DEFINE x == pool[d]
  <2>1. heap.holders[x] = 1
    BY <1>1, <1>5 DEF Rooted
  <2>2. heap.holders[x] >= Held1(t, x) + Held1(q, x) + Held1(x, x)
    BY <1>1, <1>5, RootedHolders
  <2>3. heap.holders[x] >= Held1(u, x) + Held1(x, x)
    <3>1. CASE d = c
      BY <1>1, <1>5, <3>1, RootedOwn
    <3>2. CASE d # c
      <4>1. heap.holders[x] >= Held1(u, x) + Held1(pool[c], x) + Held1(x, x)
        BY <1>1, <1>5, <3>2, RootedHolders
      <4> QED BY <1>2, <1>3, <1>5, <4>1, Held1Type
    <3> QED BY <3>1, <3>2
  <2>4. Held1(t, x) = 0 /\ Held1(q, x) = 0 /\ Held1(u, x) = 0
    BY <2>1, <2>2, <2>3, Held1Type
  <2>5. n # x
    BY <1>2, <1>5, <2>1, <2>4, Held1Type
  <2>6. Held1(n, x) = 0
    BY <2>5, Held1Type
  <2> QED BY <1>2, <1>5, <2>1, <2>4, <2>6
<1>6. Rooted(B, f, g)
  <2>1. f \in [Bitmaps -> Stores] /\ g \in [Bitmaps -> Stores]
    BY <1>1
  <2>2. ASSUME NEW d \in Bitmaps, g[d] \in Tables PROVE B.holders[g[d]] = 1
    <3>1. d # b
      BY <1>1, <2>2, NullIsNoTable
    <3>2. g[d] = pool[d]
      BY <1>1, <3>1
    <3> QED BY <1>5, <2>2, <3>1, <3>2
  <2> HIDE DEF f, g
  <2> QED BY <1>4, <2>1, <2>2 DEF Rooted
<1>7. ASSUME NEW d \in Bitmaps \ {b}
      PROVE  Fits(B, table[d], size[d], context[d]) /\ ValueIn(B, table[d]) = ValueIn(heap, table[d])
  <2> DEFINE x == table[d]
  <2>1. ASSUME x \in Tables
        PROVE  /\ heap.holders[x] > Held1(t, x) + Held1(q, x) /\ heap.holders[x] # 0
               /\ heap.holders[x] = 1 => x \notin {t, q}
    <3>1. heap.holders[x] \in Nat /\ heap.holders[x] >= Held1(t, x) + Held1(q, x) + Held1(x, x)
      BY <1>1, <2>1, RootedHolders
    <3> QED BY <3>1, Held1Type
  <2>2. ASSUME x \in Tables
        PROVE  SameValue(heap, B, x) /\ (x \notin {t, q, u} => Untouched(heap, B, x))
    BY <2>1, <2>2 DEF Exchanged3
  <2>3. ASSUME x \in Tables, context[d] # NoContext, context[d].private
        PROVE  Untouched(heap, B, x) /\ B.holders[x] = heap.holders[x]
    <3>1. ~IsShared(heap, x)
      BY <1>1, <2>3 DEF Fits, SoundContext
    <3>2. heap.holders[x] = 1 /\ x \notin {t, q}
      BY <1>1, <2>1, <2>3, <3>1, HoldersSharedOrOne
    <3>3. x # u
      <4>1. ASSUME x = u PROVE FALSE
        <5>1. d \in Bitmaps \ {c} /\ c \in Bitmaps
          BY <2>3
        <5>2. heap.holders[x] >= Held1(u, x) + Held1(pool[c], x) + Held1(x, x)
          BY <1>1, <2>3, <5>1, RootedHolders
        <5> QED BY <3>2, <4>1, <5>2, Held1Type
      <4> QED BY <4>1
    <3>4. n # x
      BY <1>2, <2>3, <3>2, <3>3
    <3>5. Held1(n, x) = 0 /\ Held1(t, x) = 0 /\ Held1(q, x) = 0
      BY <3>2, <3>4, Held1Type
    <3> QED BY <1>2, <2>2, <2>3, <3>2, <3>3, <3>5
  <2>4. x \in Stores /\ Fits(heap, x, size[d], context[d])
    BY <1>1
  <2> HIDE DEF x
  <2>5. Fits(B, x, size[d], context[d]) /\ ValueIn(B, x) = ValueIn(heap, x)
    BY <1>1, <2>2, <2>3, <2>4, FitsKept
  <2> QED BY <2>5 DEF x
<1>8. Fits(B, n, size[c], NoContext)
  <2>1. ValueIn(B, n) = ValueIn(heap, u)
    BY DEF Exchanged3
  <2>2. Fits(heap, u, size[c], context[c])
    BY <1>1
  <2> QED BY <1>1, <2>1, <2>2, NoSoundContext DEF Fits, Refcounted
<1>9. SharedNonEmpty(B)
  <2> SUFFICES ASSUME NEW x \in Tables, B.holders[x] > 1 PROVE DOMAIN B.entries[x] # {}
    BY DEF SharedNonEmpty
  <2>1. heap.holders[x] > Held1(t, x) + Held1(q, x)
    BY <1>2, <1>3, Held1Type
  <2>2. SameValue(heap, B, x)
    BY <2>1 DEF Exchanged3
  <2>3. heap.holders[x] > 1 \/ n = x
    BY <1>2, <1>3, Held1Type
  <2>4. DOMAIN heap.entries[x] # {}
    <3>1. CASE heap.holders[x] > 1
      BY <1>1, <3>1 DEF SharedNonEmpty
    <3>2. CASE ~(heap.holders[x] > 1)
      <4>1. n = x /\ heap.holders[x] # 0
        BY <1>2, <1>3, <2>1, <2>3, <3>2
      <4>2. x = u /\ DOMAIN EntriesOf(heap, u) # {}
        BY <1>2, <4>1
      <4> QED BY <4>2, NullIsNoTable DEF EntriesOf
    <3> QED BY <3>1, <3>2
  <2> QED BY <2>2, <2>4 DEF SameValue
<1>10. \A d \in Bitmaps : Fits(B, f[d], h[d], y[d])
  BY <1>1, <1>7, <1>8
<1>11. h \in [Bitmaps -> Nat] /\ y \in [Bitmaps -> Contexts \cup {NoContext}]
  BY <1>1
<1> HIDE DEF f, g, h, y
<1>12. Sound(B, f, g, h, y)
  BY <1>6, <1>9, <1>10, <1>11 DEF Sound
<1> QED BY <1>7, <1>12 DEF f, g, h, y

LEMMA AssignAssigns ==
  ASSUME Good, NEW b \in Bitmaps, NEW c \in Bitmaps, Assign(b, c)
  PROVE  \/ Done(b, KeysOf(Value(c))) /\ answer' = "done"
         \/ Done(b, KeysOf(Value(b))) /\ answer' = "threw"
<1> DEFINE copy == Copy(heap, table[c])
           B    == Released(Released(copy.heap, table[b]), pool[b])
           n    == copy.table
<1>1. /\ context[c] = NoContext
      /\ \/ /\ b # c /\ Becomes(b, B, n, size[c]) /\ pool' = [pool EXCEPT ![b] = Null]
            /\ Advance({b}) /\ answer' = "done"
         \/ /\ UNCHANGED <<heap, table, pool, size, context>>
            /\ answer' = IF b = c THEN "done" ELSE "threw"
  BY DEF Assign, MayBeCopied, Answers
<1>2. CASE UNCHANGED <<heap, table, pool, size, context>> /\ answer' = IF b = c THEN "done" ELSE "threw"
  BY <1>2, NothingDone
<1>3. CASE b # c /\ Becomes(b, B, n, size[c]) /\ pool' = [pool EXCEPT ![b] = Null]
           /\ Advance({b}) /\ answer' = "done"
  <2>1. Account(B, None) /\ Exchanged3(heap, B, table[b], pool[b], table[c], n)
    BY <1>3, AssignHeap
  <2> HIDE DEF B, n
  <2>2. /\ Sound(B, [table EXCEPT ![b] = n], [pool EXCEPT ![b] = Null],
                 [size EXCEPT ![b] = size[c]], [context EXCEPT ![b] = NoContext])
        /\ \A d \in Bitmaps \ {b} : ValueIn(B, table[d]) = ValueIn(heap, table[d])
    BY <1>1, <1>3, <2>1, AssignSound
  <2>3. /\ heap' = B /\ table' = [table EXCEPT ![b] = n] /\ pool' = [pool EXCEPT ![b] = Null]
        /\ size' = [size EXCEPT ![b] = size[c]] /\ context' = [context EXCEPT ![b] = NoContext]
    BY <1>3, AdvanceOne DEF Becomes
  <2>4. Good'
    BY <2>2, <2>3 DEF Good
  <2>5. table'[b] = n /\ \A d \in Bitmaps \ {b} : table'[d] = table[d]
    BY <2>3, GoodBitmap
  <2>6. OthersStay(b)
    BY <2>2, <2>3, <2>5 DEF OthersStay
  <2>7. ValueIn(B, n) = Value(c)
    BY <2>1 DEF Exchanged3, Value
  <2>8. KeysOf(ValueIn(heap', table'[b])) = KeysOf(Value(c))
    BY <2>3, <2>5, <2>7
  <2> QED BY <1>3, <2>4, <2>6, <2>8 DEF Done
<1> QED BY <1>1, <1>2, <1>3



-----------------------------------------------------------------------------
(***************************************************************************)
(* A swap, which moves stores and nothing they hold.                       *)
(***************************************************************************)
HoldsAlike(f, g) == \A x : Holding(g, x) = Holding(f, x)

LEMMA HoldingSwapped ==
  ASSUME NEW f \in [Bitmaps -> Stores], NEW b \in Bitmaps, NEW c \in Bitmaps \ {b}
  PROVE  HoldsAlike(f, [f EXCEPT ![b] = f[c], ![c] = f[b]])
<1> DEFINE g == [f EXCEPT ![b] = f[c]]
           h == [g EXCEPT ![c] = f[b]]
<1>1. g \in [Bitmaps -> Stores] /\ g[c] = f[c] /\ h = [f EXCEPT ![b] = f[c], ![c] = f[b]]
  OBVIOUS
<1>2. Exchanged1(f, g, f[b], f[c])
  BY CountMoved
<1>3. Exchanged1(g, h, g[c], f[b])
  BY <1>1, CountMoved
<1>4. Exchanged1(g, h, f[c], f[b])
  BY <1>1, <1>3
<1> HIDE DEF g, h
<1>5. ASSUME NEW x PROVE Holding(h, x) = Holding(f, x)
  <2>1. /\ Holding(f, x) \in Nat /\ Holding(g, x) \in Nat /\ Holding(h, x) \in Nat
        /\ Holding(g, x) + Held1(f[b], x) = Holding(f, x) + Held1(f[c], x)
        /\ Holding(h, x) + Held1(f[c], x) = Holding(g, x) + Held1(f[b], x)
    BY <1>2, <1>4 DEF Exchanged1
  <2>2. Held1(f[b], x) \in Nat /\ Held1(f[c], x) \in Nat
    BY Held1Type
  <2> QED BY <2>1, <2>2
<1>6. HoldsAlike(f, h)
  BY <1>5 DEF HoldsAlike
<1> QED BY <1>1, <1>6

\* Two bitmaps exchange what they hold.
Swapped(b, c) ==
  /\ Good'
  /\ \A d \in Bitmaps : ValueIn(heap', table'[d]) = Value(IF d = b THEN c ELSE IF d = c THEN b ELSE d)

LEMMA SwapSwaps ==
  ASSUME Good, NEW b \in Bitmaps, NEW c \in Bitmaps, Swap(b, c)
  PROVE  Swapped(b, c) /\ b # c /\ answer' = "done"
<1> DEFINE f == [table EXCEPT ![b] = table[c], ![c] = table[b]]
           g == [pool EXCEPT ![b] = pool[c], ![c] = pool[b]]
           h == [size EXCEPT ![b] = size[c], ![c] = size[b]]
           y == [d \in Bitmaps |-> IF d \in {b, c} THEN NoContext ELSE context[d]]
           o(d) == IF d = b THEN c ELSE IF d = c THEN b ELSE d
<1>1. /\ b # c /\ heap' = heap /\ table' = f /\ pool' = g /\ size' = h /\ context' = y /\ answer' = "done"
  BY DEF Swap, Advance, Answers
<1>2. /\ Account(heap, None) /\ Rooted(heap, table, pool) /\ SharedNonEmpty(heap)
      /\ table \in [Bitmaps -> Stores] /\ pool \in [Bitmaps -> Stores] /\ size \in [Bitmaps -> Nat]
      /\ context \in [Bitmaps -> Contexts \cup {NoContext}]
      /\ \A d \in Bitmaps : Fits(heap, table[d], size[d], context[d])
  BY DEF Good, Sound, Rooted
<1>3. HoldsAlike(table, f) /\ HoldsAlike(pool, g)
  BY <1>1, <1>2, HoldingSwapped
<1>4. \A d \in Bitmaps : /\ f[d] = table[o(d)] /\ g[d] = pool[o(d)] /\ h[d] = size[o(d)] /\ o(d) \in Bitmaps
                         /\ y[d] = NoContext \/ (y[d] = context[d] /\ o(d) = d)
  BY <1>1, <1>2
<1>5. /\ f \in [Bitmaps -> Stores] /\ g \in [Bitmaps -> Stores] /\ h \in [Bitmaps -> Nat]
      /\ y \in [Bitmaps -> Contexts \cup {NoContext}]
  BY <1>2
<1> HIDE DEF f, g, h, y
<1>6. Rooted(heap, f, g)
  BY <1>2, <1>3, <1>4, <1>5 DEF Rooted, HoldsAlike
<1>7. ASSUME NEW d \in Bitmaps PROVE Fits(heap, f[d], h[d], y[d])
  <2>1. Fits(heap, table[o(d)], size[o(d)], context[o(d)])
    BY <1>2, <1>4
  <2>2. Fits(heap, f[d], h[d], context[o(d)])
    BY <1>4, <2>1
  <2>3. SoundContext(heap, f[d], y[d])
    BY <1>4, <2>2, NoSoundContext DEF Fits
  <2> QED BY <2>2, <2>3 DEF Fits
<1>8. Sound(heap, f, g, h, y)
  BY <1>2, <1>5, <1>6, <1>7 DEF Sound
<1>9. Good'
  BY <1>1, <1>8 DEF Good
<1>10. \A d \in Bitmaps : ValueIn(heap', table'[d]) = Value(o(d))
  BY <1>1, <1>4 DEF Value
<1> QED BY <1>1, <1>9, <1>10 DEF Swapped



-----------------------------------------------------------------------------
(***************************************************************************)
(* Unions.  The operand keeps what it held, and is no store of the call's. *)
(***************************************************************************)
LEMMA OperandKept ==
  ASSUME Good, NEW b \in Bitmaps, NEW c \in Bitmaps \ {b}, NEW G, NEW n, NEW p, NEW U, Call(b, G, n, p, U)
  PROVE  /\ EntriesOf(G, table[c]) = Held(c) /\ ValueIn(G, table[c]) = Value(c)
         /\ table[c] \in Stores /\ Held(c) \in Entries
         /\ table[c] \in Tables => /\ G.entries[table[c]] = Held(c) /\ table[c] # p
                                   /\ Alone(G, n) => table[c] # n
<1> DEFINE u == table[c]
           f == [table EXCEPT ![b] = n]
           g == [pool EXCEPT ![b] = p]
<1>1. /\ Rooted(heap, table, pool) /\ Serves(heap, G, table[b], pool[b], n, p, U) /\ Hosts(G, n, p)
      /\ table \in [Bitmaps -> Stores] /\ pool \in [Bitmaps -> Stores] /\ heap \in Heaps
      /\ u \in Stores /\ n \in Stores /\ p \in Stores
  <2>1. Rooted(heap, table, pool) /\ heap \in Heaps
    BY DEF Good, Sound, Account
  <2>2. Serves(heap, G, table[b], pool[b], n, p, U) /\ Hosts(G, n, p)
    BY DEF Call
  <2> QED BY <2>1, <2>2 DEF Rooted, Hosts
<1>2. Held(c) \in Entries
  BY <1>1, EntriesOfType DEF Held, Stores
<1>3. ASSUME u \in Tables PROVE SameValue(heap, G, u)
  <2>1. heap.holders[u] \in Nat
        /\ heap.holders[u] >= Held1(table[b], u) + Held1(pool[b], u) + Held1(u, u)
    BY <1>1, <1>3, RootedHolders
  <2>2. heap.holders[u] > Held1(table[b], u) + Held1(pool[b], u)
    BY <2>1, Held1Type
  <2> QED BY <1>1, <1>3, <2>2 DEF Serves
<1>4. ValueIn(G, u) = ValueIn(heap, u)
  BY <1>1, <1>3, SameValueIn DEF Stores
<1>5. EntriesOf(G, u) = EntriesOf(heap, u)
  BY <1>1, <1>3 DEF EntriesOf, SameValue, Stores
<1>6. ASSUME u \in Tables
      PROVE  G.entries[u] = Held(c) /\ u # p /\ (Alone(G, n) => u # n)
  <2>1. Rooted(G, f, g)
    BY <1>1, RootedServes
  <2>2. f[b] = n /\ g[b] = p /\ f[c] = u
    BY <1>1
  <2> HIDE DEF f, g
  <2>3. G.holders[u] \in Nat /\ G.holders[u] >= Held1(f[b], u) + Held1(g[b], u) + Held1(f[c], u)
    BY <1>6, <2>1, RootedHolders
  <2>4. G.holders[u] >= Held1(n, u) + Held1(p, u) + Held1(u, u)
    BY <2>2, <2>3
  <2>5. G.entries[u] = Held(c)
    BY <1>3, <1>6, NullIsNoTable DEF SameValue, Held, EntriesOf
  <2>6. u # p
    BY <1>1, <1>6, <2>3, <2>4, Held1Type DEF Hosts
  <2>7. Alone(G, n) => u # n
    BY <1>6, <2>3, <2>4, Held1Type DEF Alone
  <2> QED BY <2>5, <2>6, <2>7
<1> QED BY <1>1, <1>2, <1>4, <1>5, <1>6 DEF Held, Value

\* The bitmap's table exchanged for a free block, with copies of handles in U.
LEMMA GraftServes ==
  ASSUME NEW H, NEW t, NEW q, Hosts(H, t, q), Alone(H, t), NEW G, NEW n \in Tables, NEW U,
         G.policy = H.policy, HolderMoves(H, G, t, n), n # t => H.holders[n] = 0, n # q,
         \A x \in Tables \ {t, n} : SameValue(H, G, x) /\ (x \notin U => Untouched(H, G, x))
  PROVE  Serves(H, G, t, q, n, q, U)
<1>1. ASSUME NEW x \in Tables
      PROVE  /\ H.holders[x] \in Nat
             /\ G.holders[x] = H.holders[x] + Held1(n, x) - Held1(t, x)
             /\ G.holders[x] = H.holders[x] + Held1(n, x) + Held1(q, x) - Held1(t, x) - Held1(q, x)
  <2>1. H.holders[x] \in Nat /\ G.holders[x] = H.holders[x] + Held1(n, x) - Held1(t, x)
    BY DEF Hosts, HolderMoves
  <2>2. Held1(n, x) \in Nat /\ Held1(q, x) \in Nat /\ Held1(t, x) \in Nat
    BY Held1Type
  <2> QED BY <2>1, <2>2
<1>2. q \in Tables => G.holders[q] = 1
  <2>1. q \in Tables => Held1(n, q) = 0 /\ Held1(t, q) = 0 /\ H.holders[q] = 1
    BY DEF Hosts, Held1
  <2> QED BY <1>1, <2>1
<1>3. ASSUME NEW x \in Tables, H.holders[x] > Held1(t, x) + Held1(q, x)
      PROVE  x # t /\ x # n
  <2>1. H.holders[x] \in Nat /\ H.holders[x] # 0 /\ (x = t => H.holders[x] > 1)
    BY <1>1, <1>3, Held1Type
  <2>2. x # t
    BY <2>1 DEF Alone
  <2> QED BY <2>1, <2>2
<1> QED BY <1>1, <1>2, <1>3 DEF Serves, Hosts, Stores

\* What b holds when the keys of c are united into the chunks S of both, and the
\* chunks A of c are inserted.
Joins(b, c, v, S, A) ==
  /\ v \in Maps /\ DOMAIN v = DOMAIN Value(b) \cup A
  /\ \A d \in DOMAIN Value(b) : v[d] = IF d \in S THEN Value(b)[d] \cup Value(c)[d] ELSE Value(b)[d]
  /\ \A d \in A : v[d] = Value(c)[d]

Shares(b, c, S, A) == S \subseteq Common(b, c) /\ A \subseteq Absent(b, c)

LEMMA JoinsKeys ==
  ASSUME Good, NEW b \in Bitmaps, NEW c \in Bitmaps, NEW v, NEW S, NEW A, Joins(b, c, v, S, A), Shares(b, c, S, A)
  PROVE  /\ NonEmpty(v)
         /\ \E some \in SUBSET KeysOf(Value(c)) : KeysOf(v) = KeysOf(Value(b)) \cup some
         /\ S = Common(b, c) /\ A = Absent(b, c) => KeysOf(v) = KeysOf(Value(b)) \cup KeysOf(Value(c))
<1>1. /\ Value(b) \in Maps /\ NonEmpty(Value(b)) /\ DOMAIN Value(b) = DOMAIN Held(b)
      /\ Value(c) \in Maps /\ NonEmpty(Value(c)) /\ DOMAIN Value(c) = DOMAIN Held(c)
  BY GoodBitmap
<1>2. S \subseteq DOMAIN Value(b) \cap DOMAIN Value(c) /\ A \subseteq DOMAIN Value(c) \ DOMAIN Value(b)
  BY <1>1 DEF Shares, Common, Absent
<1>3. NonEmpty(v)
  BY <1>1, <1>2 DEF NonEmpty, Joins
<1>4. ASSUME NEW d \in Chunks, NEW l \in Lows
      PROVE  /\ <<d, l>> \in KeysOf(v) <=>
                  \/ <<d, l>> \in KeysOf(Value(b))
                  \/ <<d, l>> \in KeysOf(Value(c)) /\ d \in S \cup A
  BY <1>2, KeysMember DEF Joins
<1>5. KeysOf(v) \subseteq Chunks \X Lows /\ KeysOf(Value(b)) \subseteq Chunks \X Lows
      /\ KeysOf(Value(c)) \subseteq Chunks \X Lows
  BY DEF KeysOf
<1> DEFINE some == {k \in KeysOf(Value(c)) : k[1] \in S \cup A}
<1>6. KeysOf(v) = KeysOf(Value(b)) \cup some
  <2>1. ASSUME NEW k \in Chunks \X Lows PROVE k \in KeysOf(v) <=> k \in KeysOf(Value(b)) \cup some
    <3>1. PICK d \in Chunks, l \in Lows : k = <<d, l>>
      OBVIOUS
    <3> QED BY <1>4, <3>1
  <2> QED BY <1>5, <2>1
<1>7. ASSUME S = Common(b, c), A = Absent(b, c)
      PROVE  KeysOf(v) = KeysOf(Value(b)) \cup KeysOf(Value(c))
  <2>1. ASSUME NEW k \in KeysOf(Value(c)) PROVE k[1] \in S \cup A
    BY <1>1, <1>7 DEF KeysOf, Common, Absent
  <2> QED BY <1>6, <2>1
<1> QED BY <1>3, <1>6, <1>7


\* A step of a union: b has the table n, its own, with so much of the union.
Unions(b, c, G, n, S, A) ==
  /\ Call(b, G, n, pool[b], {table[c]}) /\ Alone(G, n)
  /\ Joins(b, c, ValueIn(G, n), S, A)

LEMMA ReusesChosen ==
  ASSUME NEW H, NEW q, NEW S \in SUBSET Chunks, NEW from \in Reuses(H, q, S), q = Null => DOMAIN EntriesOf(H, q) = {}
  PROVE  Chosen(H, q, from) /\ DOMAIN from \subseteq S
<1>1. PICK T \in SUBSET S : from \in Injection(T, Reusable(H, q))
  BY DEF Reuses
<1>2. /\ DOMAIN from = T /\ \A c \in T : from[c] \in Reusable(H, q)
      /\ \A c, d \in T : from[c] = from[d] => c = d
  BY <1>1 DEF Injection, IsInjective
<1>3. ASSUME NEW c \in T
      PROVE  from[c] \in DOMAIN EntriesOf(H, q) /\ H.refs[H.entries[q][from[c]]] = 1
  BY <1>2 DEF Reusable, Unshared
<1> QED BY <1>2, <1>3 DEF Chosen

LEMMA UnitedJoins ==
  ASSUME Good, NEW b \in Bitmaps, NEW c \in Bitmaps \ {b},
         NEW G, NEW n, Owns(b, G, n, {table[c]}), NEW S \in SUBSET Common(b, c), S # {},
         NEW kept \in SUBSET Saturated(G, n, S),
         NEW from, Chosen(G, pool[b], from), DOMAIN from \subseteq {d \in S \ kept : ~Unshared(G, n, d)}
  PROVE  LET H == UnitedIn(G, n, pool[b], Held(c), S \ kept, from)
         IN  Unions(b, c, H, n, S, {}) /\ Keeps(G, H, n)
<1> DEFINE H == UnitedIn(G, n, pool[b], Held(c), S \ kept, from)
           q == pool[b]
           U == {table[c]}
<1>1. /\ Call(b, G, n, q, U) /\ Account(G, None) /\ Spacious(G) /\ Hosts(G, n, q) /\ Alone(G, n)
      /\ G \in Heaps /\ n \in Stores /\ q \in Stores
      /\ n \in Tables => G.holders[n] # 0
      /\ q \in Tables => G.holders[q] = 1 /\ q # n
      /\ ValueIn(G, n) = Value(b) /\ DOMAIN EntriesOf(G, n) = DOMAIN Held(b)
  <2>1. Call(b, G, n, q, U) /\ Alone(G, n) /\ ValueIn(G, n) = Value(b) /\ DOMAIN EntriesOf(G, n) = DOMAIN Held(b)
    BY DEF Owns
  <2>2. Account(G, None) /\ Spacious(G) /\ Hosts(G, n, q)
    BY <2>1 DEF Call
  <2>3. /\ G \in Heaps /\ n \in Stores /\ q \in Stores
        /\ n \in Tables => G.holders[n] # 0
        /\ q \in Tables => G.holders[q] = 1 /\ q # n
    BY <2>1, CallType
  <2> QED BY <2>1, <2>2, <2>3
<1>2. S \subseteq DOMAIN Held(b) /\ S \subseteq DOMAIN Held(c)
  BY DEF Common
<1>3. n \in Tables /\ EntriesOf(G, n) = G.entries[n]
  BY <1>1, <1>2, CallType
<1>4. /\ ValueIn(G, table[c]) = Value(c) /\ EntriesOf(G, table[c]) = Held(c) /\ Held(c) \in Entries
  BY <1>1, OperandKept
<1>5. q # n
  BY <1>1, <1>3, NullIsNoTable DEF Stores
<1>6. S \ kept \subseteq DOMAIN Held(c) \cap DOMAIN G.entries[n]
  BY <1>1, <1>2, <1>3
<1>7. Account(H, None) /\ Unites(G, H, n, q, Held(c), S \ kept)
  BY <1>1, <1>3, <1>4, <1>5, <1>6, UnitedAccount DEF Stores
<1> HIDE DEF H
<1>8. Keeps(G, H, n)
  BY <1>7 DEF Unites, Keeps
<1>9. Serves(G, H, n, q, n, q, U)
  <2>1. SameBlocks(G, H) /\ \A x \in Tables \ {n, q} : Untouched(G, H, x)
    BY <1>7 DEF Unites
  <2> QED BY <1>1, <2>1, OwnServes
<1>10. Call(b, H, n, q, U)
  BY <1>1, <1>7, <1>9, CallGoesOn
<1>11. Alone(H, n)
  BY <1>1, <1>7 DEF Alone, Unites, SameBlocks
<1>12. ValueIn(H, n) \in Maps
  BY <1>10, CallType, ValueType
<1>13. EntriesOf(H, n) = H.entries[n] /\ DOMAIN H.entries[n] = DOMAIN G.entries[n]
  BY <1>3, <1>7, NullIsNoTable DEF EntriesOf, Unites
<1>14. DOMAIN ValueIn(H, n) = DOMAIN Value(b) /\ DOMAIN Value(b) = DOMAIN G.entries[n]
  BY <1>1, <1>3, <1>13, ValueDomain
<1>15. \A d \in DOMAIN G.entries[n] : /\ ValueIn(H, n)[d] = H.keys[H.entries[n][d]]
                                      /\ Value(b)[d] = G.keys[G.entries[n][d]]
  <2>1. \A d \in DOMAIN EntriesOf(H, n) : ValueIn(H, n)[d] = H.keys[EntriesOf(H, n)[d]]
    BY ValueDomain
  <2>2. \A d \in DOMAIN EntriesOf(G, n) : ValueIn(G, n)[d] = G.keys[EntriesOf(G, n)[d]]
    BY ValueDomain
  <2> QED BY <1>1, <1>3, <1>13, <2>1, <2>2
<1>16. \A d \in S : Value(c)[d] = G.keys[Held(c)[d]] /\ d \in DOMAIN Value(c)
  <2>1. \A d \in DOMAIN EntriesOf(G, table[c]) : ValueIn(G, table[c])[d] = G.keys[EntriesOf(G, table[c])[d]]
    BY ValueDomain
  <2>2. DOMAIN Value(c) = DOMAIN Held(c)
    BY GoodBitmap
  <2> QED BY <1>2, <1>4, <2>1, <2>2
<1>17. ASSUME NEW d \in DOMAIN Value(b)
       PROVE  ValueIn(H, n)[d] = IF d \in S THEN Value(b)[d] \cup Value(c)[d] ELSE Value(b)[d]
  <2>1. d \in DOMAIN G.entries[n]
    BY <1>14
  <2>2. H.keys[H.entries[n][d]] = IF d \in S \ kept THEN UnionOf(G, n, Held(c), d) ELSE G.keys[G.entries[n][d]]
    BY <1>7, <2>1 DEF Unites
  <2>3. CASE d \in S \ kept
    BY <1>15, <1>16, <2>1, <2>2, <2>3 DEF UnionOf
  <2>4. CASE d \notin S
    BY <1>15, <2>1, <2>2, <2>4
  <2>5. CASE d \in kept
    <3>1. d \in S /\ G.keys[G.entries[n][d]] = Lows
      BY <2>5 DEF Saturated
    <3>2. Value(c)[d] \subseteq Lows
      <4>1. Value(c) \in Maps /\ d \in DOMAIN Value(c)
        BY <1>16, <3>1, GoodBitmap
      <4> QED BY <4>1, MapsElim
    <3> QED BY <1>15, <2>1, <2>2, <2>5, <3>1, <3>2
  <2> QED BY <2>3, <2>4, <2>5
<1>18. Joins(b, c, ValueIn(H, n), S, {})
  BY <1>12, <1>14, <1>17 DEF Joins
<1>19. Unions(b, c, H, n, S, {})
  BY <1>10, <1>11, <1>18 DEF Unions
<1> QED BY <1>8, <1>19 DEF H

LEMMA UnitedCall ==
  ASSUME Good, NEW b \in Bitmaps, NEW c \in Bitmaps \ {b}, NEW at, Owns(b, at.heap, at.table, {table[c]}),
         NEW S \in SUBSET Common(b, c), NEW H \in United(b, c, at, S)
  PROVE  Unions(b, c, H, at.table, S, {}) /\ Keeps(at.heap, H, at.table)
<1>1. CASE S = {}
  <2>1. H = at.heap
    BY <1>1 DEF United
  <2>2. Value(b) \in Maps
    BY GoodBitmap
  <2>3. Joins(b, c, Value(b), {}, {})
    BY <2>2 DEF Joins
  <2> QED BY <1>1, <2>1, <2>3, StepKeeps DEF Owns, Unions
<1>2. CASE S # {}
  <2> DEFINE G == at.heap
             n == at.table
             Z(kept) == {d \in MayReuse(b, c, S \ kept) : ~Unshared(G, n, d)}
  <2>1. PICK kept \in SUBSET Saturated(G, n, S) : \E from \in Reuses(G, pool[b], Z(kept)) :
          H = UnitedIn(G, n, pool[b], Held(c), S \ kept, from)
    BY <1>2 DEF United
  <2>2. PICK from \in Reuses(G, pool[b], Z(kept)) : H = UnitedIn(G, n, pool[b], Held(c), S \ kept, from)
    BY <2>1
  <2>3. Z(kept) \subseteq {d \in S \ kept : ~Unshared(G, n, d)}
    BY DEF MayReuse
  <2>4. S \subseteq Chunks
    BY GoodBitmap DEF Common
  <2>5. Z(kept) \in SUBSET Chunks
    BY <2>3, <2>4
  <2>6. pool[b] = Null => DOMAIN EntriesOf(G, pool[b]) = {}
    BY NoEntriesType DEF EntriesOf
  <2> HIDE DEF Z
  <2>7. Chosen(G, pool[b], from) /\ DOMAIN from \subseteq Z(kept)
    BY <2>2, <2>5, <2>6, ReusesChosen
  <2>8. DOMAIN from \subseteq {d \in S \ kept : ~Unshared(G, n, d)}
    BY <2>3, <2>7
  <2>9. Owns(b, G, n, {table[c]})
    OBVIOUS
  <2> HIDE DEF G, n
  <2>20. Unions(b, c, H, n, S, {}) /\ Keeps(G, H, n)
    BY <1>2, <2>2, <2>7, <2>8, <2>9, UnitedJoins
  <2> QED BY <2>20 DEF G, n
<1> QED BY <1>1, <1>2



-----------------------------------------------------------------------------
\* The handles of chunks of the operand, copied.
Lent(b, c, H, A, C, f) ==
  /\ Gains(H, C, f, ValueOf(H, Restrict(Held(c), A)))
  /\ Account(C, More(None, f)) /\ Live(C) = Live(H)
  /\ \A x \in Tables \ {table[c]} : Untouched(H, C, x)

LEMMA CopiesLent ==
  ASSUME Good, NEW b \in Bitmaps, NEW c \in Bitmaps \ {b}, NEW H, NEW n, NEW p, NEW U, Call(b, H, n, p, U),
         NEW A \in SUBSET Absent(b, c)
  PROVE  LET copy == Copies(b, c, H, A)
         IN  Lent(b, c, H, A, copy.heap, copy.entries)
<1> DEFINE f == Restrict(Held(c), A)
           U1 == {table[c]}
           copy == Copied(H, f)
<1>1. /\ Account(H, None) /\ Spacious(H) /\ Held(c) \in Entries
      /\ table[c] \in Stores /\ (table[c] \in Tables => H.entries[table[c]] = Held(c))
      /\ EntriesOf(H, table[c]) = Held(c)
  BY OperandKept DEF Call
<1>2. A \subseteq DOMAIN Held(c)
  BY DEF Absent
<1>3. f \in Entries /\ DOMAIN f = A /\ \A d \in A : f[d] = Held(c)[d]
  BY <1>1, <1>2, RestrictType
<1>4. HandlesOf(H, U1, f)
  <2> SUFFICES ASSUME NEW d \in DOMAIN f
               PROVE  \E u \in Tables \cap U1 : \E e \in DOMAIN H.entries[u] : f[d] = H.entries[u][e]
    BY DEF HandlesOf
  <2>1. d \in DOMAIN Held(c) /\ f[d] = Held(c)[d]
    BY <1>2, <1>3
  <2>2. table[c] # Null
    BY <1>1, <2>1, NoEntriesType DEF EntriesOf
  <2>3. table[c] \in Tables
    BY <1>1, <2>2 DEF Stores
  <2> QED BY <1>1, <2>1, <2>3
<1> HIDE DEF f, U1
<1>5. /\ Gains(H, copy.heap, copy.entries, ValueOf(H, f)) /\ Account(copy.heap, More(None, copy.entries))
      /\ Live(copy.heap) = Live(H) /\ \A x \in Tables \ U1 : Untouched(H, copy.heap, x)
  <2>1. Account(H, None) /\ Spacious(H) /\ f \in Entries
    BY <1>1, <1>3
  <2>2. Lends(H, copy.heap, copy.entries, f, U1)
    BY <1>4, <2>1, CopiedFrom
  <2> HIDE DEF copy
  <2> QED BY <2>2 DEF Lends
<1>6. Copies(b, c, H, A) = copy
  BY DEF Copies, f
<1> HIDE DEF copy
<1>7. Lent(b, c, H, A, copy.heap, copy.entries)
  BY <1>5 DEF Lent, f, U1
<1> QED BY <1>6, <1>7

\* They are put in the table once it has the room.
LEMMA GraftJoins ==
  ASSUME Good, NEW b \in Bitmaps, NEW c \in Bitmaps \ {b}, NEW H, NEW t, NEW S, Unions(b, c, H, t, S, {}),
         NEW A \in SUBSET Absent(b, c), NEW C, NEW f, Lent(b, c, H, A, C, f),
         NEW D, NEW n, Relocates(C, D, t, n), Account(D, More(None, f))
  PROVE  Unions(b, c, Put(D, n, f), n, S, A)
<1> DEFINE G == Put(D, n, f)
           q == pool[b]
           u == table[c]
           new == ValueOf(H, Restrict(Held(c), A))
<1>1. /\ Call(b, H, t, q, {u}) /\ Alone(H, t) /\ Joins(b, c, ValueIn(H, t), S, {})
      /\ Account(H, None) /\ Hosts(H, t, q) /\ t \in Stores
  BY DEF Unions, Call, Hosts
<1>2. Gains(H, C, f, new) /\ Account(C, More(None, f)) /\ \A x \in Tables \ {u} : Untouched(H, C, x)
  BY DEF Lent
<1> HIDE DEF new
<1>3. /\ Account(G, None) /\ Grafts(H, G, t, n, new)
      /\ \A x \in Tables \ {t, n} : Untouched(H, C, x) => Untouched(H, G, x)
  BY <1>1, <1>2, GraftAccount DEF Stores
<1> HIDE DEF G
<1>4. /\ G.policy = H.policy /\ HolderMoves(H, G, t, n) /\ n \in Tables /\ G.holders[n] = 1
      /\ n # t => H.holders[n] = 0
      /\ DOMAIN G.entries[n] = DOMAIN new \cup DOMAIN EntriesOf(H, t)
      /\ \A d \in DOMAIN new : G.keys[G.entries[n][d]] = new[d]
      /\ \A d \in DOMAIN EntriesOf(H, t) \ DOMAIN new : G.keys[G.entries[n][d]] = H.keys[EntriesOf(H, t)[d]]
      /\ \A x \in Tables \ {t, n} : SameValue(H, G, x) /\ (x \notin {u} => Untouched(H, G, x))
  BY <1>2, <1>3 DEF Grafts
<1>5. n # q
  BY <1>1, <1>4 DEF Hosts
<1>6. Serves(H, G, t, q, n, q, {u})
  BY <1>1, <1>4, <1>5, GraftServes
<1>7. Call(b, G, n, q, {u})
  BY <1>1, <1>3, <1>6, CallGoesOn
<1>8. Alone(G, n)
  BY <1>4 DEF Alone
<1>9. ValueIn(G, n) \in Maps
  BY <1>7, CallType, ValueType
<1>10. EntriesOf(G, n) = G.entries[n]
  BY <1>4, NullIsNoTable DEF EntriesOf
<1>11. /\ DOMAIN ValueIn(G, n) = DOMAIN G.entries[n]
       /\ \A d \in DOMAIN G.entries[n] : ValueIn(G, n)[d] = G.keys[G.entries[n][d]]
  BY <1>10, ValueDomain
<1>12. /\ DOMAIN ValueIn(H, t) = DOMAIN EntriesOf(H, t)
       /\ \A d \in DOMAIN EntriesOf(H, t) : ValueIn(H, t)[d] = H.keys[EntriesOf(H, t)[d]]
  BY ValueDomain
<1>13. /\ DOMAIN EntriesOf(H, t) = DOMAIN Value(b)
       /\ \A d \in DOMAIN Value(b) : ValueIn(H, t)[d] = IF d \in S THEN Value(b)[d] \cup Value(c)[d] ELSE Value(b)[d]
  BY <1>1, <1>12 DEF Joins
<1>14. DOMAIN new = A /\ \A d \in A : new[d] = Value(c)[d]
  <2>1. /\ EntriesOf(H, u) = Held(c) /\ ValueIn(H, u) = Value(c) /\ Held(c) \in Entries
    BY <1>1, OperandKept
  <2>2. A \subseteq DOMAIN Held(c)
    BY DEF Absent
  <2>3. DOMAIN Restrict(Held(c), A) = A /\ \A d \in A : Restrict(Held(c), A)[d] = Held(c)[d]
    BY <2>1, <2>2, RestrictType
  <2>4. \A d \in DOMAIN Held(c) : Value(c)[d] = H.keys[Held(c)[d]]
    BY <2>1, ValueDomain
  <2>5. DOMAIN new = A /\ \A d \in A : new[d] = H.keys[Restrict(Held(c), A)[d]]
    BY <2>3 DEF new, ValueOf
  <2> QED BY <2>2, <2>3, <2>4, <2>5
<1>15. A \cap DOMAIN Value(b) = {}
  BY GoodBitmap DEF Absent
<1>16. Joins(b, c, ValueIn(G, n), S, A)
  BY <1>4, <1>9, <1>11, <1>12, <1>13, <1>14, <1>15 DEF Joins
<1>17. Unions(b, c, G, n, S, A)
  BY <1>7, <1>8, <1>16 DEF Unions
<1> QED BY <1>17 DEF G


LEMMA LengthType ==
  ASSUME NEW b \in Bitmaps, NEW G, NEW n, NEW p, NEW U, Call(b, G, n, p, U)
  PROVE  Length(G, n) \in Nat
<1>1. EntriesOf(G, n) \in Entries
  BY CallType
<1> QED BY <1>1, EntriesElim, FS_CardinalityType DEF Length

LEMMA AbsentCount ==
  ASSUME Good, NEW b \in Bitmaps, NEW c \in Bitmaps, NEW A \in SUBSET Absent(b, c)
  PROVE  Cardinality(A) \in Nat /\ (A # {} => Cardinality(A) # 0)
<1>1. DOMAIN Held(c) \subseteq Chunks /\ IsFiniteSet(Chunks)
  BY GoodBitmap, AddressAssumption
<1>2. IsFiniteSet(A)
  BY <1>1, FS_Subset DEF Absent
<1> QED BY <1>2, FS_CardinalityType, FS_EmptySet

\* The lent handles leave the blocks as they were.
LEMMA LentBlocks ==
  ASSUME NEW b \in Bitmaps, NEW c, NEW H, NEW n, NEW p, NEW U, Call(b, H, n, p, U), Alone(H, n),
         NEW A, NEW C, NEW f, Lent(b, c, H, A, C, f)
  PROVE  /\ Account(C, More(None, f)) /\ Cardinality(Live(C)) < Cardinality(Tables)
         /\ n \in Stores /\ (n \in Tables => C.holders[n] = 1) /\ C.room = H.room
<1>1. C.holders = H.holders /\ C.room = H.room
  BY DEF Lent, Gains, SameTables
<1>2. Cardinality(Live(C)) < Cardinality(Tables)
  BY DEF Lent, Call, Spacious
<1> QED BY <1>1, <1>2 DEF Lent, Call, Hosts, Alone

LEMMA WithAbsentJoins ==
  ASSUME Good, NEW b \in Bitmaps, NEW c \in Bitmaps \ {b}, NEW H, NEW t, NEW S, Unions(b, c, H, t, S, {}),
         Absent(b, c) # {}
  PROVE  LET all == WithAbsent(b, c, H, t)
             p   == IF IsFew(b, c) THEN pool[b] ELSE Null
         IN  Call(b, all.heap, all.table, p, {table[c]}) /\ Joins(b, c, ValueIn(all.heap, all.table), S, Absent(b, c))
<1> DEFINE A == Absent(b, c)
           q == pool[b]
           C == Copies(b, c, H, A).heap
           f == Copies(b, c, H, A).entries
           more == Length(H, t) + Cardinality(A)
           both == Length(H, t) + Length(H, table[c])
           D == IF IsFew(b, c) THEN WithRoom(C, t, more).heap ELSE Relocated(C, t, both).heap
           n == IF IsFew(b, c) THEN WithRoom(C, t, more).table ELSE Relocated(C, t, both).table
           G == Put(D, n, f)
           all == WithAbsent(b, c, H, t)
<1>1. /\ all.heap = IF IsFew(b, c) THEN G ELSE Released(G, q)
      /\ all.table = n
  BY DEF WithAbsent
<1>2. Call(b, H, t, q, {table[c]}) /\ Alone(H, t)
  BY DEF Unions
<1>3. Lent(b, c, H, A, C, f)
  BY <1>2, CopiesLent
<1>4. more \in Nat /\ more # 0 /\ both \in Nat
  <2>1. Length(H, t) \in Nat
    BY <1>2, LengthType
  <2>2. Cardinality(A) \in Nat /\ Cardinality(A) # 0
    BY AbsentCount
  <2>3. Length(H, table[c]) \in Nat
    <3>1. EntriesOf(H, table[c]) = Held(c) /\ Held(c) \in Entries
      BY <1>2, OperandKept
    <3> QED BY <3>1, EntriesElim, FS_CardinalityType DEF Length
  <2> QED BY <2>1, <2>2, <2>3
<1> HIDE DEF A, C, f, more, both, all
<1>5. /\ Account(C, More(None, f)) /\ Cardinality(Live(C)) < Cardinality(Tables)
      /\ t \in Tables \cup {Null} /\ (t \in Tables => C.holders[t] = 1)
  BY <1>2, <1>3, LentBlocks DEF Stores
<1>6. Account(D, More(None, f)) /\ Relocates(C, D, t, n)
  <2>1. CASE IsFew(b, c)
    <3>1. Account(WithRoom(C, t, more).heap, More(None, f))
          /\ Relocates(C, WithRoom(C, t, more).heap, t, WithRoom(C, t, more).table)
      BY <1>4, <1>5, WithRoomAccount
    <3> QED BY <2>1, <3>1
  <2>2. CASE ~IsFew(b, c)
    <3>1. Account(Relocated(C, t, both).heap, More(None, f))
          /\ Relocates(C, Relocated(C, t, both).heap, t, Relocated(C, t, both).table)
      BY <1>4, <1>5, RelocatedAccount
    <3> QED BY <2>2, <3>1
  <2> QED BY <2>1, <2>2
<1> HIDE DEF D, n
<1>7. Unions(b, c, G, n, S, A)
  BY <1>3, <1>6, GraftJoins DEF A
<1> HIDE DEF G
<1>8. /\ Call(b, G, n, q, {table[c]}) /\ Joins(b, c, ValueIn(G, n), S, A) /\ Account(G, None) /\ Hosts(G, n, q)
      /\ n \in Stores /\ q \in Stores /\ (q \in Tables => G.holders[q] = 1 /\ q # n)
  BY <1>7 DEF Unions, Call, Hosts
<1>9. CASE IsFew(b, c)
  BY <1>1, <1>8, <1>9 DEF A, all
<1>10. CASE ~IsFew(b, c)
  <2> DEFINE R == Released(G, q)
  <2>1. Account(R, None) /\ Releases(G, R, q)
    BY <1>8, ReleasedAccount DEF Stores
  <2>2. all.heap = R
    BY <1>1, <1>10
  <2> HIDE DEF R
  <2>3. Serves(G, R, n, q, n, Null, {table[c]})
    BY <1>8, <2>1, ReleaseServes
  <2>4. Call(b, R, n, Null, {table[c]})
    BY <1>8, <2>1, <2>3, CallGoesOn
  <2>5. n \in Tables => SameValue(G, R, n)
    BY <1>8, <2>1 DEF Releases, Untouched
  <2>6. ValueIn(R, n) = ValueIn(G, n)
    BY <1>8, <2>5, SameValueIn DEF Stores
  <2> QED BY <1>1, <1>8, <1>10, <2>2, <2>4, <2>6 DEF A, all
<1> QED BY <1>9, <1>10



\* A union gives b the keys of both; one that fails, some of those of c.
United2(b, c) ==
  \/ answer' = "done" /\ Done(b, KeysOf(Value(b)) \cup KeysOf(Value(c)))
  \/ /\ answer' = "threw"
     /\ \E some \in SUBSET KeysOf(Value(c)) : Done(b, KeysOf(Value(b)) \cup some)

LEMMA UnionEnds ==
  ASSUME Good, NEW b \in Bitmaps, NEW c \in Bitmaps \ {b}, context[c] = NoContext,
         NEW G, NEW n, NEW p, Call(b, G, n, p, {table[c]}),
         NEW S, NEW A, Joins(b, c, ValueIn(G, n), S, A), Shares(b, c, S, A),
         NEW y \in Contexts \cup {NoContext}, SoundContext(G, n, y),
         Becomes(b, G, n, SizeIn(G, n)), pool' = [pool EXCEPT ![b] = p], context' = [context EXCEPT ![b] = y]
  PROVE  /\ \E some \in SUBSET KeysOf(Value(c)) : Done(b, KeysOf(Value(b)) \cup some)
         /\ S = Common(b, c) /\ A = Absent(b, c) => Done(b, KeysOf(Value(b)) \cup KeysOf(Value(c)))
<1>1. /\ NonEmpty(ValueIn(G, n))
      /\ \E some \in SUBSET KeysOf(Value(c)) : KeysOf(ValueIn(G, n)) = KeysOf(Value(b)) \cup some
      /\ S = Common(b, c) /\ A = Absent(b, c) => KeysOf(ValueIn(G, n)) = KeysOf(Value(b)) \cup KeysOf(Value(c))
  <2>1. c \in Bitmaps
    OBVIOUS
  <2> QED BY <2>1, JoinsKeys
<1> DEFINE m == SizeIn(G, n)
<1>2. Fits(G, n, m, y)
  BY <1>1, FitsCounted, SizeInKeys
<1>3. Leaves(b, G, n, p, m, y)
  BY DEF Leaves, Becomes
<1>4. Operands(table, context, b, {table[c]})
  BY DEF Operands
<1> HIDE DEF m
<1>5. Done(b, KeysOf(ValueIn(G, n)))
  BY <1>2, <1>3, <1>4, CallDone
<1>6. PICK some \in SUBSET KeysOf(Value(c)) : KeysOf(ValueIn(G, n)) = KeysOf(Value(b)) \cup some
  BY <1>1
<1>7. Done(b, KeysOf(Value(b)) \cup some)
  BY <1>5, <1>6
<1> QED BY <1>1, <1>5, <1>7

LEMMA SamePool ==
  ASSUME Good, NEW b \in Bitmaps, UNCHANGED pool
  PROVE  pool' = [pool EXCEPT ![b] = pool[b]]
<1>1. pool \in [Bitmaps -> Stores]
  BY GoodBitmap
<1> QED BY <1>1

LEMMA UniteSameUnites ==
  ASSUME Good, NEW b \in Bitmaps, NEW c \in Bitmaps, table[b] = table[c], UniteSame(b, c)
  PROVE  United2(b, c)
<1>1. Done(b, KeysOf(Value(b))) /\ answer' = "done"
  BY NothingDone DEF UniteSame, Answers
<1>2. KeysOf(Value(b)) \cup KeysOf(Value(c)) = KeysOf(Value(b))
  BY DEF Value
<1>3. Done(b, KeysOf(Value(b)) \cup KeysOf(Value(c)))
  BY <1>1, <1>2
<1> QED BY <1>1, <1>3 DEF United2

LEMMA UniteAllUnites ==
  ASSUME Good, NEW b \in Bitmaps, NEW c \in Bitmaps \ {b}, context[c] = NoContext, UniteAll(b, c)
  PROVE  United2(b, c)
<1> DEFINE at == OwnTable(table[b], 0)
           G  == at.heap
           n  == at.table
           U  == {table[c]}
           y  == Remains(b, n)
           T  == Common(b, c)
           A  == Absent(b, c)
<1>1. Owns(b, G, n, U)
  BY OwnTableCall
<1>2. ASSUME NEW V, n \in Tables => Keeps(G, V, n)
      PROVE  y \in Contexts \cup {NoContext} /\ SoundContext(V, n, y)
  <2>1. G = OwnTable(table[b], 0).heap /\ n = OwnTable(table[b], 0).table
    OBVIOUS
  <2> HIDE DEF G, n
  <2> QED BY <1>2, <2>1, RemainsSound
<1>3. PICK same \in United(b, c, at, T) :
        LET all == IF A = {} THEN [heap |-> same, table |-> n] ELSE WithAbsent(b, c, same, n)
        IN  /\ Becomes(b, all.heap, all.table, SizeIn(all.heap, all.table))
            /\ pool' = [pool EXCEPT ![b] = IF A # {} /\ ~IsFew(b, c) THEN Null ELSE @]
            /\ IF n # table[b] \/ A # {} THEN Advance({b}) ELSE UNCHANGED context
  BY DEF UniteAll
<1>4. answer' = "done"
  BY DEF UniteAll, Answers
<1>5. Unions(b, c, same, n, T, {}) /\ Keeps(G, same, n)
  <2>1. T \in SUBSET Common(b, c) /\ same \in United(b, c, at, T) /\ Owns(b, at.heap, at.table, {table[c]})
    BY <1>1, <1>3
  <2> HIDE DEF at, T
  <2> QED BY <2>1, UnitedCall
<1>6. Shares(b, c, T, A) /\ c \in Bitmaps
  BY DEF Shares
<1> HIDE DEF at, G, n, y, T, A
<1>7. CASE A = {}
  <2>1. /\ Becomes(b, same, n, SizeIn(same, n))
        /\ IF n # table[b] THEN Advance({b}) ELSE UNCHANGED context
    BY <1>3, <1>7
  <2>2. pool' = [pool EXCEPT ![b] = pool[b]]
    BY <1>3, <1>7
  <2>3. context' = [context EXCEPT ![b] = y]
    BY <2>1, AdvanceOne, SameContext DEF y, Remains
  <2>4. y \in Contexts \cup {NoContext} /\ SoundContext(same, n, y)
    BY <1>2, <1>5
  <2>5. Call(b, same, n, pool[b], {table[c]}) /\ Joins(b, c, ValueIn(same, n), T, A)
    BY <1>5, <1>7 DEF Unions
  <2>6. Done(b, KeysOf(Value(b)) \cup KeysOf(Value(c)))
    BY <1>6, <2>1, <2>2, <2>3, <2>4, <2>5, UnionEnds DEF T, A
  <2> QED BY <1>4, <2>6 DEF United2
<1>8. CASE A # {}
  <2> DEFINE all == WithAbsent(b, c, same, n)
             p == IF IsFew(b, c) THEN pool[b] ELSE Null
             H == all.heap
             m == all.table
  <2>1. Call(b, H, m, p, {table[c]}) /\ Joins(b, c, ValueIn(H, m), T, A)
    BY <1>5, <1>8, WithAbsentJoins DEF A
  <2>2. Becomes(b, H, m, SizeIn(H, m)) /\ Advance({b})
    BY <1>3, <1>8
  <2>3. pool' = [pool EXCEPT ![b] = p]
    BY <1>3, <1>8
  <2>4. context' = [context EXCEPT ![b] = NoContext]
    BY <2>2, AdvanceOne
  <2>5. NoContext \in Contexts \cup {NoContext} /\ SoundContext(H, m, NoContext)
    BY NoSoundContext
  <2> HIDE DEF all, p, H, m
  <2>6. Done(b, KeysOf(Value(b)) \cup KeysOf(Value(c)))
    BY <1>6, <2>1, <2>2, <2>3, <2>4, <2>5, UnionEnds DEF T, A
  <2> QED BY <1>4, <2>6 DEF United2
<1> QED BY <1>7, <1>8


\* A table of its own whose few new chunks fit is no empty one.
LEMMA FitsInTable ==
  ASSUME Good, NEW b \in Bitmaps, NEW c \in Bitmaps, NEW G, NEW n, NEW p, NEW U, Call(b, G, n, p, U),
         Absent(b, c) # {}, FitsInPlace(n, b, c, G)
  PROVE  n \in Tables
<1>1. Length(G, n) \in Nat
  BY LengthType
<1>2. Cardinality(Absent(b, c)) \in Nat /\ Cardinality(Absent(b, c)) # 0
  BY AbsentCount
<1>3. n \in Stores
  BY DEF Call, Hosts
<1>4. ASSUME n = Null PROVE FALSE
  <2>1. Length(G, n) + Cardinality(Absent(b, c)) <= 0
    BY <1>4 DEF FitsInPlace, RoomOf
  <2> QED BY <1>1, <1>2, <2>1
<1> QED BY <1>3, <1>4 DEF Stores

LEMMA UniteFailsUnites ==
  ASSUME ResetsContext = TRUE, Good, NEW b \in Bitmaps, NEW c \in Bitmaps \ {b}, context[c] = NoContext,
         UniteFails(b, c)
  PROVE  United2(b, c)
<1> DEFINE at == OwnTable(table[b], 0)
           G  == at.heap
           n  == at.table
           q  == pool[b]
           y  == Remains(b, n)
           inPlace == IsFew(b, c) /\ FitsInPlace(n, b, c, G)
           Fails(H) == Becomes(b, H, n, SizeIn(H, n))
           Stops == IF n # table[b] THEN Advance({b}) ELSE UNCHANGED context
<1>1. Owns(b, G, n, {table[c]})
  BY OwnTableCall
<1>2. ASSUME NEW V, n \in Tables => Keeps(G, V, n)
      PROVE  y \in Contexts \cup {NoContext} /\ SoundContext(V, n, y)
  <2>1. G = OwnTable(table[b], 0).heap /\ n = OwnTable(table[b], 0).table
    OBVIOUS
  <2> HIDE DEF G, n
  <2> QED BY <1>2, <2>1, RemainsSound
<1>3. /\ answer' = "threw" /\ pool' = pool
      /\ \/ UNCHANGED <<heap, table, size, context>>
         \/ /\ \/ \E S \in LowSets(Common(b, c)) \ {Common(b, c)} :
                    \E same \in United(b, c, at, S) : \E H \in Wasted(same, q) : Fails(H)
               \/ \E same \in United(b, c, at, Common(b, c)) : Fails(same)
            /\ Stops
         \/ /\ inPlace
            /\ \E T \in HighSets(Absent(b, c)) \ {{}, Absent(b, c)} :
               \E same \in United(b, c, at, Common(b, c)) :
                 Fails(Put(Copies(b, c, same, T).heap, n, Copies(b, c, same, T).entries))
            /\ Advance({b})
  BY DEF UniteFails, Answers
<1>4. ASSUME NEW S \in SUBSET Common(b, c), NEW same \in United(b, c, at, S)
      PROVE  Unions(b, c, same, n, S, {}) /\ Keeps(G, same, n) /\ Shares(b, c, S, {})
  <2>1. same \in United(b, c, at, S) /\ Owns(b, at.heap, at.table, {table[c]})
    BY <1>1, <1>4
  <2> HIDE DEF at
  <2>2. Unions(b, c, same, at.table, S, {}) /\ Keeps(at.heap, same, at.table)
    BY <2>1, UnitedCall
  <2> QED BY <2>2 DEF at, Shares
<1>5. q \in Stores /\ pool' = [pool EXCEPT ![b] = q]
  BY <1>3, SamePool, GoodBitmap
<1>6. Stops => context' = [context EXCEPT ![b] = y]
  BY AdvanceOne, SameContext DEF Remains
<1> HIDE DEF at, G, n, y, Stops
\* Nothing done; a part of the chunks of both united, or all of them.
<1>7. CASE UNCHANGED <<heap, table, size, context>>
  <2>1. Done(b, KeysOf(Value(b)) \cup {})
    BY <1>3, <1>7, NothingDone
  <2> QED BY <1>3, <2>1 DEF United2
<1>8. ASSUME NEW S \in SUBSET Common(b, c), NEW same \in United(b, c, at, S),
             NEW H, H = same \/ H \in Wasted(same, q), Fails(H), Stops
      PROVE  United2(b, c)
  <2>1. Call(b, same, n, q, {table[c]}) /\ Alone(same, n) /\ Joins(b, c, ValueIn(same, n), S, {})
        /\ Keeps(G, same, n) /\ Shares(b, c, S, {})
    BY <1>4, <1>8 DEF Unions
  <2>2. /\ Account(same, None) /\ Hosts(same, n, q) /\ n \in Stores
        /\ q \in Tables => same.holders[q] = 1 /\ q # n
    BY <2>1 DEF Call, Hosts
  <2>3. Account(H, None) /\ SameBlocks(same, H) /\ (\A x \in Tables \ {q} : Untouched(same, H, x))
    <3>1. CASE H = same
      BY <2>2, <3>1, UntouchedTransitive DEF SameBlocks
    <3>2. CASE H \in Wasted(same, q)
      <4>1. Account(H, None) /\ Wastes(same, H, q)
        BY <1>5, <2>2, <3>2, WastedAccount DEF Stores
      <4> QED BY <4>1 DEF Wastes
    <3> QED BY <1>8, <3>1, <3>2
  <2>4. Serves(same, H, n, q, n, q, {table[c]})
    BY <2>2, <2>3, PoolServes
  <2>5. Call(b, H, n, q, {table[c]})
    BY <2>1, <2>3, <2>4, CallGoesOn
  <2>6. n \in Tables => Untouched(same, H, n)
    BY <2>2, <2>3
  <2>7. ValueIn(H, n) = ValueIn(same, n)
    BY <2>2, <2>6, SameValueIn DEF Stores, Untouched
  <2>8. n \in Tables => Keeps(G, H, n)
    <3>1. ASSUME n \in Tables PROVE Keeps(same, H, n)
      BY <2>3, <2>6, <3>1 DEF Keeps, Untouched, SameValue, StaysAlone
    <3> QED BY <2>1, <3>1, StepKeeps
  <2>9. y \in Contexts \cup {NoContext} /\ SoundContext(H, n, y)
    BY <1>2, <2>8
  <2>10. Joins(b, c, ValueIn(H, n), S, {})
    BY <2>1, <2>7
  <2>11. Becomes(b, H, n, SizeIn(H, n)) /\ context' = [context EXCEPT ![b] = y]
    BY <1>6, <1>8
  <2>12. \E some \in SUBSET KeysOf(Value(c)) : Done(b, KeysOf(Value(b)) \cup some)
    BY <1>5, <2>1, <2>5, <2>9, <2>10, <2>11, UnionEnds
  <2> QED BY <1>3, <2>12 DEF United2
\* All of them united, and the last of the others inserted.
<1>9. ASSUME NEW A \in SUBSET Absent(b, c), A # {}, NEW same \in United(b, c, at, Common(b, c)), inPlace,
             Fails(Put(Copies(b, c, same, A).heap, n, Copies(b, c, same, A).entries)), Advance({b})
      PROVE  United2(b, c)
  <2> DEFINE S == Common(b, c)
             C == Copies(b, c, same, A).heap
             f == Copies(b, c, same, A).entries
             H == Put(C, n, f)
  <2>1. Unions(b, c, same, n, S, {}) /\ Call(b, same, n, q, {table[c]}) /\ Alone(same, n)
    BY <1>4, <1>9 DEF Unions
  <2>2. Lent(b, c, same, A, C, f)
    BY <2>1, CopiesLent
  <2>3. n \in Tables
    <3>1. Absent(b, c) # {}
      BY <1>9
    <3>2. Call(b, G, n, q, {table[c]}) /\ FitsInPlace(n, b, c, G)
      BY <1>1, <1>9 DEF Owns
    <3> QED BY <3>1, <3>2, FitsInTable
  <2> HIDE DEF C, f
  <2>4. Account(C, More(None, f)) /\ C.holders[n] = 1
    BY <2>1, <2>2, <2>3, LentBlocks
  <2>5. Relocates(C, C, n, n)
    BY <2>3, <2>4, RelocatesNothing
  <2> HIDE DEF S
  <2>6. Unions(b, c, H, n, S, A)
    BY <2>1, <2>2, <2>4, <2>5, GraftJoins
  <2>7. Becomes(b, H, n, SizeIn(H, n)) /\ context' = [context EXCEPT ![b] = NoContext]
    BY <1>9, AdvanceOne DEF C, f
  <2> HIDE DEF H
  <2>8. Call(b, H, n, q, {table[c]}) /\ Joins(b, c, ValueIn(H, n), S, A) /\ Shares(b, c, S, A)
        /\ NoContext \in Contexts \cup {NoContext} /\ SoundContext(H, n, NoContext)
    BY <2>6, NoSoundContext DEF Unions, Shares, S
  <2>9. \E some \in SUBSET KeysOf(Value(c)) : Done(b, KeysOf(Value(b)) \cup some)
    BY <1>5, <2>7, <2>8, UnionEnds
  <2> QED BY <1>3, <2>9 DEF United2
<1>10. \A S \in LowSets(Common(b, c)) : S \in SUBSET Common(b, c)
  BY DEF LowSets
<1>11. \A T \in HighSets(Absent(b, c)) : T \in SUBSET Absent(b, c)
  BY DEF HighSets
<1> HIDE DEF Fails, inPlace
<1> QED BY <1>3, <1>7, <1>8, <1>9, <1>10, <1>11

LEMMA UniteUnites ==
  ASSUME ResetsContext = TRUE, Good, NEW b \in Bitmaps, NEW c \in Bitmaps, Unite(b, c)
  PROVE  United2(b, c)
<1>1. /\ c \in Bitmaps \ {b} /\ context[c] = NoContext
      /\ \/ table[b] = table[c] /\ UniteSame(b, c)
         \/ UniteAll(b, c)
         \/ UniteFails(b, c)
  BY DEF Unite, MayBeCopied
<1> QED BY <1>1, UniteSameUnites, UniteAllUnites, UniteFailsUnites



-----------------------------------------------------------------------------
(***************************************************************************)
(* union_into: what s holds when it holds the chunks S of a and b.         *)
(***************************************************************************)
Gathers(a, b, v, S) ==
  /\ v \in Maps /\ DOMAIN v = S
  /\ \A d \in S : v[d] = UnionAt(a, b, d)

LEMMA GathersKeys ==
  ASSUME Good, NEW a \in Bitmaps, NEW b \in Bitmaps, NEW v, NEW S \in SUBSET Both(a, b), Gathers(a, b, v, S)
  PROVE  /\ NonEmpty(v)
         /\ KeysOf(v) \in SUBSET (KeysOf(Value(a)) \cup KeysOf(Value(b)))
         /\ S = Both(a, b) => KeysOf(v) = KeysOf(Value(a)) \cup KeysOf(Value(b))
<1>1. /\ Value(a) \in Maps /\ NonEmpty(Value(a)) /\ DOMAIN Value(a) = DOMAIN Held(a)
      /\ Value(b) \in Maps /\ NonEmpty(Value(b)) /\ DOMAIN Value(b) = DOMAIN Held(b)
  BY GoodBitmap
<1>2. ASSUME NEW d \in S PROVE UnionAt(a, b, d) # {}
  <2>1. HoldsChunk(a, d) \/ HoldsChunk(b, d)
    BY DEF Both, HoldsChunk
  <2>2. HoldsChunk(a, d) => LowsOf(a, d) # {}
    BY <1>1, LowsOfValue DEF NonEmpty
  <2>3. HoldsChunk(b, d) => LowsOf(b, d) # {}
    BY <1>1, LowsOfValue DEF NonEmpty
  <2> QED BY <2>1, <2>2, <2>3 DEF UnionAt
<1>3. NonEmpty(v)
  BY <1>2 DEF NonEmpty, Gathers
<1>4. ASSUME NEW d \in Chunks, NEW l \in Lows
      PROVE  <<d, l>> \in KeysOf(v) <=>
               d \in S /\ (<<d, l>> \in KeysOf(Value(a)) \/ <<d, l>> \in KeysOf(Value(b)))
  <2>1. <<d, l>> \in KeysOf(v) <=> d \in S /\ l \in UnionAt(a, b, d)
    BY KeysMember DEF Gathers
  <2>2. /\ l \in LowsOf(a, d) <=> <<d, l>> \in KeysOf(Value(a))
        /\ l \in LowsOf(b, d) <=> <<d, l>> \in KeysOf(Value(b))
    BY HeldKey
  <2> QED BY <2>1, <2>2 DEF UnionAt
<1>5. /\ KeysOf(v) \subseteq Chunks \X Lows /\ KeysOf(Value(a)) \subseteq Chunks \X Lows
      /\ KeysOf(Value(b)) \subseteq Chunks \X Lows
  BY DEF KeysOf
<1>6. ASSUME NEW k \in Chunks \X Lows
      PROVE  k \in KeysOf(v) <=> k[1] \in S /\ k \in KeysOf(Value(a)) \cup KeysOf(Value(b))
  <2>1. PICK d \in Chunks, l \in Lows : k = <<d, l>>
    OBVIOUS
  <2> QED BY <1>4, <2>1
<1>7. ASSUME NEW k \in KeysOf(Value(a)) \cup KeysOf(Value(b)) PROVE k[1] \in Both(a, b)
  BY <1>1 DEF KeysOf, Both
<1> QED BY <1>3, <1>5, <1>6, <1>7

LEMMA ClearedCall ==
  ASSUME Good, NEW a \in Bitmaps, NEW b \in Bitmaps, NEW s \in Bitmaps, NEW U
  PROVE  LET at == Cleared(a, b, s)
         IN  /\ Call(s, at.heap, at.table, at.pool, U) /\ Alone(at.heap, at.table)
             /\ DOMAIN EntriesOf(at.heap, at.table) = {}
             /\ Both(a, b) # {} => at.table \in Tables
             /\ at.pool = Parked(heap, s).pool
<1> DEFINE P    == Parked(heap, s)
           need == Length(heap, table[a]) + Length(heap, table[b])
           R    == Relocated(P.heap, P.table, need)
           at   == Cleared(a, b, s)
<1>1. Call(s, P.heap, P.table, P.pool, U) /\ Alone(P.heap, P.table) /\ DOMAIN EntriesOf(P.heap, P.table) = {}
  BY ParkedCall
<1>2. /\ at.pool = P.pool
      /\ need <= RoomOf(P.heap, P.table) => at.heap = P.heap /\ at.table = P.table
      /\ ~(need <= RoomOf(P.heap, P.table)) => at.heap = R.heap /\ at.table = R.table
  BY DEF Cleared
<1>3. need \in Nat /\ (Both(a, b) # {} => need # 0)
  <2>1. ASSUME NEW d \in Bitmaps
        PROVE  Length(heap, table[d]) \in Nat /\ (DOMAIN Held(d) # {} => Length(heap, table[d]) # 0)
    <3>1. Held(d) \in Entries
      BY CallBegins, CallType DEF Held
    <3> QED BY <3>1, EntriesElim, FS_CardinalityType, FS_EmptySet DEF Length, Held
  <2> QED BY <2>1 DEF Both
<1> HIDE DEF P, R, at, need
<1>4. /\ Account(P.heap, None) /\ Spacious(P.heap) /\ Hosts(P.heap, P.table, P.pool) /\ P.table \in Stores
  BY <1>1 DEF Call, Hosts
<1>5. CASE need <= RoomOf(P.heap, P.table)
  <2>1. ASSUME Both(a, b) # {} PROVE P.table # Null
    BY <1>3, <1>5, <2>1 DEF RoomOf
  <2> QED BY <1>1, <1>2, <1>4, <1>5, <2>1 DEF at, P, Stores
<1>6. CASE ~(need <= RoomOf(P.heap, P.table))
  <2>1. Account(R.heap, None) /\ Relocates(P.heap, R.heap, P.table, R.table)
    <3>1. /\ P.table \in Tables \cup {Null} /\ (P.table \in Tables => P.heap.holders[P.table] = 1)
          /\ Cardinality(Live(P.heap)) < Cardinality(Tables)
      BY <1>1, <1>4 DEF Alone, Stores, Spacious
    <3> QED BY <1>3, <1>4, <3>1, RelocatedAccount DEF R
  <2> DEFINE n == R.table
  <2>2. /\ R.heap.policy = P.heap.policy /\ HolderMoves(P.heap, R.heap, P.table, n) /\ n \in Tables
        /\ R.heap.holders[n] = 1 /\ (n # P.table => P.heap.holders[n] = 0)
        /\ R.heap.entries[n] = EntriesOf(P.heap, P.table)
        /\ \A x \in Tables \ {P.table, n} : Untouched(P.heap, R.heap, x)
    BY <2>1 DEF Relocates
  <2> HIDE DEF n
  <2>3. \A x \in Tables \ {P.table, n} : SameValue(P.heap, R.heap, x) /\ (x \notin U => Untouched(P.heap, R.heap, x))
    BY <2>2 DEF Untouched
  <2>4. n # P.pool
    BY <1>4, <2>2 DEF Hosts
  <2>5. Serves(P.heap, R.heap, P.table, P.pool, n, P.pool, U)
    BY <1>1, <1>4, <2>2, <2>3, <2>4, GraftServes
  <2>6. Call(s, R.heap, n, P.pool, U)
    BY <1>1, <2>1, <2>5, CallGoesOn
  <2>7. Alone(R.heap, n) /\ DOMAIN EntriesOf(R.heap, n) = {}
    BY <1>1, <2>2, NullIsNoTable DEF Alone, EntriesOf
  <2> QED BY <1>2, <1>6, <2>2, <2>6, <2>7 DEF at, P, n
<1> QED BY <1>5, <1>6

\* Of the chunks S, those of one side, whose handles are copied, and the
\* containers of the others.
Single1(a, b, S) == {d \in S : d \notin Common(a, b)}
LentTo(a, b, S)  == [d \in Single1(a, b, S) |-> IF HoldsChunk(a, d) THEN Held(a)[d] ELSE Held(b)[d]]
Anew(a, b, S)    == [d \in S \ Single1(a, b, S) |-> UnionAt(a, b, d)]
Lenders(a, b)    == Tables \cap {table[a], table[b]}

\* The handles and the containers that fill the table of s, as the heap G has them.
Supplies(a, b, G, S, f, new) ==
  /\ f \in Entries /\ HandlesOf(G, Lenders(a, b), f)
  /\ new \in Maps /\ DOMAIN f \cap DOMAIN new = {} /\ DOMAIN f \cup DOMAIN new = S
  /\ \A d \in DOMAIN f : G.keys[f[d]] = UnionAt(a, b, d)
  /\ \A d \in DOMAIN new : new[d] = UnionAt(a, b, d)

LEMMA SupplyCall ==
  ASSUME Good, NEW s \in Bitmaps, NEW a \in Bitmaps \ {s}, NEW b \in Bitmaps \ {s},
         NEW G, NEW n, NEW p, NEW U, Call(s, G, n, p, U), NEW S \in SUBSET Both(a, b)
  PROVE  Supplies(a, b, G, S, LentTo(a, b, S), Anew(a, b, S))
<1> DEFINE f   == LentTo(a, b, S)
           new == Anew(a, b, S)
           one == Single1(a, b, S)
<1>1. ASSUME NEW x \in {a, b}
      PROVE  /\ EntriesOf(G, table[x]) = Held(x) /\ Held(x) \in Entries
             /\ table[x] \in Stores /\ ValueIn(G, table[x]) = Value(x)
             /\ DOMAIN Held(x) \subseteq Chunks
             /\ Value(x) \in Maps
             /\ \A d \in DOMAIN Held(x) : /\ Held(x)[d] \in Payloads /\ LowsOf(x, d) = G.keys[Held(x)[d]]
                                          /\ table[x] \in Tables /\ G.entries[table[x]] = Held(x)
  <2>1. x \in Bitmaps \ {s}
    OBVIOUS
  <2>2. /\ EntriesOf(G, table[x]) = Held(x) /\ ValueIn(G, table[x]) = Value(x)
        /\ table[x] \in Stores /\ Held(x) \in Entries
        /\ table[x] \in Tables => G.entries[table[x]] = Held(x)
    BY <2>1, OperandKept
  <2>3. Value(x) \in Maps /\ DOMAIN Held(x) \subseteq Chunks
    BY <2>1, GoodBitmap
  <2>4. ASSUME NEW d \in DOMAIN Held(x)
        PROVE  /\ Held(x)[d] \in Payloads /\ LowsOf(x, d) = G.keys[Held(x)[d]] /\ table[x] \in Tables
    <3>1. Held(x)[d] \in Payloads
      BY <2>2, EntriesElim
    <3>2. ValueIn(G, table[x])[d] = G.keys[Held(x)[d]]
      BY <2>2, ValueDomain
    <3>3. LowsOf(x, d) = Value(x)[d]
      BY LowsOfValue DEF HoldsChunk
    <3>4. table[x] # Null
      BY NoEntriesType DEF Held, EntriesOf
    <3> QED BY <2>2, <3>1, <3>2, <3>3, <3>4 DEF Stores
  <2> QED BY <2>2, <2>3, <2>4
<1>2. /\ DOMAIN f = one /\ one \subseteq S /\ S \subseteq Chunks
      /\ \A d \in one : f[d] = IF d \in DOMAIN Held(a) THEN Held(a)[d] ELSE Held(b)[d]
      /\ \A d \in one : d \in DOMAIN Held(a) <=> d \notin DOMAIN Held(b)
  BY <1>1 DEF LentTo, Single1, Both, Common, HoldsChunk
<1>3. /\ DOMAIN new = S \ one /\ \A d \in S \ one : new[d] = UnionAt(a, b, d)
  BY DEF Anew
<1> HIDE DEF f, new, one
<1>4. f \in Entries
  <2>1. \A d \in one : f[d] \in Payloads
    BY <1>1, <1>2
  <2>2. f \in [DOMAIN f -> Payloads]
    <3>1. f = [d \in DOMAIN f |-> f[d]]
      BY DEF f, LentTo
    <3> QED BY <1>2, <2>1, <3>1
  <2> QED BY <1>2, <2>2, EntriesIntro
<1>5. HandlesOf(G, Lenders(a, b), f)
  <2>1. ASSUME NEW d \in one
        PROVE  \E u \in Tables \cap Lenders(a, b) : \E e \in DOMAIN G.entries[u] : f[d] = G.entries[u][e]
    <3>1. CASE d \in DOMAIN Held(a)
      <4>1. table[a] \in Tables \cap Lenders(a, b) /\ G.entries[table[a]] = Held(a) /\ f[d] = Held(a)[d]
        BY <1>1, <1>2, <3>1 DEF Lenders
      <4> QED BY <3>1, <4>1
    <3>2. CASE d \notin DOMAIN Held(a)
      <4>1. d \in DOMAIN Held(b) /\ f[d] = Held(b)[d]
        BY <1>2, <3>2
      <4>2. table[b] \in Tables \cap Lenders(a, b) /\ G.entries[table[b]] = Held(b)
        BY <1>1, <4>1 DEF Lenders
      <4> QED BY <4>1, <4>2
    <3> QED BY <3>1, <3>2
  <2> QED BY <1>2, <2>1 DEF HandlesOf
<1>6. ASSUME NEW d \in Chunks PROVE UnionAt(a, b, d) \in SUBSET Lows
  <2>1. ASSUME NEW x \in {a, b} PROVE LowsOf(x, d) \subseteq Lows
    <3>1. CASE HoldsChunk(x, d)
      <4>1. LowsOf(x, d) = Value(x)[d] /\ d \in DOMAIN Value(x)
        BY <3>1, LowsOfValue
      <4>2. Value(x)[d] \in SUBSET Lows
        BY <1>1, <4>1, MapsElim
      <4> QED BY <4>1, <4>2
    <3> QED BY <3>1 DEF LowsOf
  <2> QED BY <2>1 DEF UnionAt
<1>7. new \in Maps
  <2>1. new = [d \in DOMAIN new |-> new[d]]
    BY DEF new, Anew
  <2>2. new \in [DOMAIN new -> SUBSET Lows]
    BY <1>2, <1>3, <1>6, <2>1
  <2> QED BY <1>2, <1>3, <2>2, MapsIntro
<1>8. ASSUME NEW d \in one PROVE G.keys[f[d]] = UnionAt(a, b, d)
  <2>1. CASE d \in DOMAIN Held(a)
    <3>1. f[d] = Held(a)[d] /\ LowsOf(a, d) = G.keys[Held(a)[d]] /\ LowsOf(b, d) = {}
      BY <1>1, <1>2, <2>1 DEF LowsOf, HoldsChunk
    <3> QED BY <3>1 DEF UnionAt
  <2>2. CASE d \notin DOMAIN Held(a)
    <3>1. f[d] = Held(b)[d] /\ LowsOf(b, d) = G.keys[Held(b)[d]] /\ LowsOf(a, d) = {}
      <4>1. d \in DOMAIN Held(b)
        BY <1>2, <2>2
      <4> QED BY <1>1, <1>2, <2>2, <4>1 DEF LowsOf, HoldsChunk
    <3> QED BY <3>1 DEF UnionAt
  <2> QED BY <2>1, <2>2
<1>9. Supplies(a, b, G, S, f, new)
  BY <1>2, <1>3, <1>4, <1>5, <1>7, <1>8 DEF Supplies
<1> QED BY <1>9 DEF f, new

\* The context given up by the callers, the operands can be copied.
LEMMA LendersKnown ==
  ASSUME NEW s \in Bitmaps, NEW a \in Bitmaps \ {s}, NEW b \in Bitmaps \ {s},
         context[a] = NoContext, context[b] = NoContext
  PROVE  Operands(table, context, s, Lenders(a, b))
  BY DEF Operands, Lenders

\* The table of s has the chunks S of both.
Gathered(a, b, s, H, n, p, S) ==
  /\ Call(s, H, n, p, Lenders(a, b)) /\ Alone(H, n)
  /\ Gathers(a, b, ValueIn(H, n), S)

LEMMA FilledGathers ==
  ASSUME Good, NEW s \in Bitmaps, NEW a \in Bitmaps \ {s}, NEW b \in Bitmaps \ {s},
         NEW G, NEW n \in Tables, NEW p, Call(s, G, n, p, Lenders(a, b)), Alone(G, n),
         DOMAIN EntriesOf(G, n) = {}, NEW S \in SUBSET Both(a, b),
         NEW f, NEW new, Supplies(a, b, G, S, f, new),
         NEW from, Chosen(G, p, from), DOMAIN from \subseteq DOMAIN new
  PROVE  Gathered(a, b, s, FilledFrom(G, n, p, f, new, from), n, p, S)
<1> DEFINE H == FilledFrom(G, n, p, f, new, from)
           U == Lenders(a, b)
<1>1. /\ Account(G, None) /\ Spacious(G) /\ Hosts(G, n, p) /\ G \in Heaps
      /\ G.holders[n] # 0 /\ p \in Stores /\ p # n
      /\ p \in Tables => G.holders[p] # 0
      /\ EntriesOf(G, n) = G.entries[n]
  <2>1. Account(G, None) /\ Spacious(G) /\ Hosts(G, n, p)
    BY DEF Call
  <2>2. /\ G \in Heaps /\ G.holders[n] # 0 /\ p \in Stores /\ EntriesOf(G, n) = G.entries[n]
        /\ p \in Tables => G.holders[p] = 1 /\ p # n
    BY CallType
  <2>3. p # n
    BY <2>2, NullIsNoTable DEF Stores
  <2>4. p \in Tables => G.holders[p] # 0
    BY <2>2
  <2> QED BY <2>1, <2>2, <2>3, <2>4
<1>2. p \notin U
  BY OperandKept DEF Lenders
<1>3. /\ f \in Entries /\ HandlesOf(G, U, f) /\ new \in Maps /\ DOMAIN f \cap DOMAIN new = {}
      /\ DOMAIN f \cup DOMAIN new = S
      /\ \A d \in DOMAIN f : G.keys[f[d]] = UnionAt(a, b, d)
      /\ \A d \in DOMAIN new : new[d] = UnionAt(a, b, d)
  BY DEF Supplies
<1> HIDE DEF U
<1>4. /\ Account(H, None) /\ Fills(G, H, n, p, f, new)
      /\ \A x \in Tables \ {n, p} : x \notin U => Untouched(G, H, x)
  <2>1. G.holders[n] # 0 /\ DOMAIN G.entries[n] = {} /\ p \in Tables \cup {Null} /\ p # n
        /\ (p \in Tables => G.holders[p] # 0)
    BY <1>1 DEF Stores
  <2> QED BY <1>1, <1>2, <1>3, <2>1, FilledAccount
<1> HIDE DEF H
<1>5. Call(s, H, n, p, U)
  <2>1. H.policy = G.policy /\ H.holders = G.holders
    BY <1>4 DEF Fills, SameBlocks
  <2>2. \A x \in Tables \ {n, p} : SameValue(G, H, x) /\ (x \notin U => Untouched(G, H, x))
    BY <1>4 DEF Fills
  <2>3. Serves(G, H, n, p, n, p, U)
    BY <1>1, <2>1, <2>2, LocalServes
  <2> QED BY <1>4, <2>3, CallGoesOn DEF U
<1>6. Alone(H, n)
  BY <1>4 DEF Alone, Fills, SameBlocks
<1>7. Gathers(a, b, ValueIn(H, n), S)
  <2>1. ValueIn(H, n) \in Maps /\ EntriesOf(H, n) = H.entries[n]
    BY <1>5, CallType, ValueType
  <2>2. DOMAIN ValueIn(H, n) = S
        /\ \A d \in S : ValueIn(H, n)[d] = H.keys[H.entries[n][d]]
    <3>1. DOMAIN H.entries[n] = S
      BY <1>3, <1>4 DEF Fills
    <3> QED BY <2>1, <3>1, ValueDomain
  <2>3. ASSUME NEW d \in S PROVE H.keys[H.entries[n][d]] = UnionAt(a, b, d)
    <3>1. CASE d \in DOMAIN f
      BY <1>3, <1>4, <3>1 DEF Fills
    <3>2. CASE d \in DOMAIN new
      BY <1>3, <1>4, <3>2 DEF Fills
    <3> QED BY <1>3, <3>1, <3>2
  <2> QED BY <2>1, <2>2, <2>3 DEF Gathers
<1> QED BY <1>5, <1>6, <1>7 DEF Gathered, H, U

LEMMA FilledCall ==
  ASSUME Good, NEW s \in Bitmaps, NEW a \in Bitmaps \ {s}, NEW b \in Bitmaps \ {s},
         NEW S \in SUBSET Both(a, b), NEW H \in Filled(a, b, Cleared(a, b, s), S)
  PROVE  LET at == Cleared(a, b, s)
         IN  Gathered(a, b, s, H, at.table, at.pool, S)
<1> DEFINE at  == Cleared(a, b, s)
           f   == LentTo(a, b, S)
           new == Anew(a, b, S)
<1>1. /\ Call(s, at.heap, at.table, at.pool, Lenders(a, b)) /\ Alone(at.heap, at.table)
      /\ DOMAIN EntriesOf(at.heap, at.table) = {}
      /\ Both(a, b) # {} => at.table \in Tables
  BY ClearedCall
<1>2. CASE S = {}
  <2>1. H = at.heap
    BY <1>2 DEF Filled
  <2>2. ValueIn(at.heap, at.table) \in Maps /\ DOMAIN ValueIn(at.heap, at.table) = {}
    BY <1>1, CallType, ValueType, ValueDomain
  <2> QED BY <1>1, <1>2, <2>1, <2>2 DEF Gathered, Gathers
<1>3. CASE S # {}
  <2>1. PICK from \in Reuses(at.heap, at.pool, S \ Single1(a, b, S)) :
            H = FilledFrom(at.heap, at.table, at.pool, f, new, from)
    BY <1>3 DEF Filled, FilledFrom, LentTo, Anew, Single1
  <2>2. Supplies(a, b, at.heap, S, f, new) /\ DOMAIN new = S \ Single1(a, b, S)
    <3>1. PICK G, n, p : G = at.heap /\ n = at.table /\ p = at.pool
      OBVIOUS
    <3>2. Call(s, G, n, p, Lenders(a, b))
      BY <1>1, <3>1
    <3>3. Supplies(a, b, G, S, LentTo(a, b, S), Anew(a, b, S))
      BY <3>2, SupplyCall
    <3>4. DOMAIN new = S \ Single1(a, b, S)
      BY DEF Anew
    <3> QED BY <3>1, <3>3, <3>4
  <2>3. at.table \in Tables
    BY <1>1, <1>3
  <2> HIDE DEF at, f, new
  <2>4. Chosen(at.heap, at.pool, from) /\ DOMAIN from \subseteq DOMAIN new
    <3>1. S \ Single1(a, b, S) \in SUBSET Chunks
      BY GoodBitmap DEF Both
    <3>2. at.pool = Null => DOMAIN EntriesOf(at.heap, at.pool) = {}
      BY NoEntriesType DEF EntriesOf
    <3> QED BY <2>1, <2>2, <3>1, <3>2, ReusesChosen
  <2> QED BY <1>1, <2>1, <2>2, <2>3, <2>4, FilledGathers DEF at
<1> QED BY <1>2, <1>3

\* union_into gives s the keys of both; one that fails leaves it some of them.
Built(a, b, s) ==
  \/ answer' = "done" /\ Done(s, KeysOf(Value(a)) \cup KeysOf(Value(b)))
  \/ /\ answer' = "threw"
     /\ \E some \in SUBSET (KeysOf(Value(a)) \cup KeysOf(Value(b))) : Done(s, some)

\* The size m of what is gathered, right or not below it where it may be too high.
Measures(H, n, m) ==
  /\ m \in Nat /\ m >= SizeIn(H, n)
  /\ m = SizeIn(H, n) \/ (Scratches # {} /\ ~Refcounted(H))

LEMMA GatheredDone ==
  ASSUME Good, NEW s \in Bitmaps, NEW a \in Bitmaps \ {s}, NEW b \in Bitmaps \ {s},
         context[a] = NoContext, context[b] = NoContext,
         NEW H, NEW n, NEW p, NEW S \in SUBSET Both(a, b), Gathered(a, b, s, H, n, p, S),
         NEW m, Measures(H, n, m),
         Becomes(s, H, n, m), pool' = [pool EXCEPT ![s] = p], Advance({s})
  PROVE  /\ \E some \in SUBSET (KeysOf(Value(a)) \cup KeysOf(Value(b))) : Done(s, some)
         /\ S = Both(a, b) => Done(s, KeysOf(Value(a)) \cup KeysOf(Value(b)))
<1>1. /\ Call(s, H, n, p, Lenders(a, b)) /\ Gathers(a, b, ValueIn(H, n), S)
      /\ a \in Bitmaps /\ b \in Bitmaps
  BY DEF Gathered
<1>2. /\ NonEmpty(ValueIn(H, n))
      /\ KeysOf(ValueIn(H, n)) \in SUBSET (KeysOf(Value(a)) \cup KeysOf(Value(b)))
      /\ S = Both(a, b) => KeysOf(ValueIn(H, n)) = KeysOf(Value(a)) \cup KeysOf(Value(b))
  BY <1>1, GathersKeys
<1>3. Fits(H, n, m, NoContext)
  <2>1. SizeIn(H, n) = Cardinality(KeysOf(ValueIn(H, n)))
    BY SizeInKeys
  <2> QED BY <1>2, <2>1, NoSoundContext DEF Fits, Measures
<1>4. Leaves(s, H, n, p, m, NoContext)
  BY AdvanceOne DEF Leaves, Becomes
<1>5. Operands(table, context, s, Lenders(a, b))
  BY LendersKnown
<1>6. Done(s, KeysOf(ValueIn(H, n)))
  BY <1>1, <1>3, <1>4, <1>5, CallDone
<1> QED BY <1>2, <1>6

LEMMA SizeInType ==
  ASSUME NEW H, NEW n
  PROVE  SizeIn(H, n) \in Nat /\ Measures(H, n, SizeIn(H, n))
  BY SizeInKeys, KeysOfFinite DEF Measures

LEMMA UnionIntoBuilds ==
  ASSUME Good, NEW s \in Bitmaps, NEW a \in Bitmaps \ {s}, NEW b \in Bitmaps \ {s},
         context[a] = NoContext, context[b] = NoContext, UnionInto(a, b, s)
  PROVE  Built(a, b, s)
<1> DEFINE at == Cleared(a, b, s)
<1>1. PICK H \in Filled(a, b, at, Both(a, b)) :
        /\ Becomes(s, H, at.table, SizeIn(H, at.table))
        /\ pool' = [pool EXCEPT ![s] = at.pool]
        /\ Advance({s})
        /\ answer' = "done"
  BY DEF UnionInto, Answers
<1>2. Gathered(a, b, s, H, at.table, at.pool, Both(a, b))
  BY <1>1, FilledCall
<1>3. Measures(H, at.table, SizeIn(H, at.table))
  BY SizeInType
<1> HIDE DEF at
<1>4. Done(s, KeysOf(Value(a)) \cup KeysOf(Value(b)))
  BY <1>1, <1>2, <1>3, GatheredDone
<1> QED BY <1>1, <1>4 DEF Built

\* A payload of the pool lost, which leaves s its table.
LEMMA WastedGathered ==
  ASSUME Good, NEW s \in Bitmaps, NEW a, NEW b, NEW H, NEW n, NEW p, NEW S, Gathered(a, b, s, H, n, p, S),
         NEW W \in Wasted(H, p)
  PROVE  Gathered(a, b, s, W, n, p, S)
<1>1. /\ Call(s, H, n, p, Lenders(a, b)) /\ Alone(H, n) /\ Gathers(a, b, ValueIn(H, n), S)
  BY DEF Gathered
<1>2. Account(H, None) /\ Hosts(H, n, p)
  BY <1>1 DEF Call
<1>3. n \in Stores /\ p \in Stores /\ (p \in Tables => H.holders[p] # 0 /\ p # n)
  <2>1. n \in Stores /\ p \in Stores /\ (p \in Tables => H.holders[p] = 1 /\ p # n)
    BY <1>1, CallType
  <2> QED BY <2>1
<1>4. Account(W, None) /\ SameBlocks(H, W) /\ \A x \in Tables \ {p} : Untouched(H, W, x)
  BY <1>2, <1>3, WastedAccount DEF Wastes, Stores
<1>5. Call(s, W, n, p, Lenders(a, b))
  BY <1>1, <1>2, <1>4, PoolServes, CallGoesOn
<1>6. ValueIn(W, n) = ValueIn(H, n)
  <2>1. n = Null \/ SameValue(H, W, n)
    BY <1>3, <1>4 DEF Stores, Untouched
  <2> QED BY <1>3, <2>1, SameValueIn DEF Stores
<1>7. Alone(W, n)
  BY <1>1, <1>4 DEF Alone, SameBlocks
<1> QED BY <1>1, <1>5, <1>6, <1>7 DEF Gathered

LEMMA UnionAtCount ==
  ASSUME Good, NEW a \in Bitmaps, NEW b \in Bitmaps, NEW d
  PROVE  Cardinality(UnionAt(a, b, d)) \in Nat
<1>1. ASSUME NEW x \in {a, b} PROVE LowsOf(x, d) \subseteq Lows
  <2>1. CASE HoldsChunk(x, d)
    <3>1. Value(x) \in Maps /\ d \in DOMAIN Value(x) /\ LowsOf(x, d) = Value(x)[d]
      BY <2>1, GoodBitmap, LowsOfValue
    <3> QED BY <3>1, MapsElim
  <2> QED BY <2>1 DEF LowsOf
<1>2. UnionAt(a, b, d) \subseteq Lows
  BY <1>1 DEF UnionAt
<1> QED BY <1>2, AddressAssumption, FS_Subset, FS_CardinalityType

LEMMA UnionIntoFailsBuilds ==
  ASSUME Good, NEW s \in Bitmaps, s \in Scratches, NEW a \in Bitmaps \ {s}, NEW b \in Bitmaps \ {s},
         context[a] = NoContext, context[b] = NoContext, UnionIntoFails(a, b, s)
  PROVE  Built(a, b, s)
<1> DEFINE at     == Cleared(a, b, s)
           parked == Parked(heap, s)
           n      == at.table
           p      == at.pool
<1>1. /\ pool' = [pool EXCEPT ![s] = p] /\ Advance({s}) /\ answer' = "threw"
  BY DEF UnionIntoFails, Answers
<1>2. SUFFICES \E some \in SUBSET (KeysOf(Value(a)) \cup KeysOf(Value(b))) : Done(s, some)
  BY <1>1 DEF Built
<1>3. CASE Becomes(s, parked.heap, parked.table, 0)
  <2>1. p = parked.pool
    BY ClearedCall
  <2>2. Call(s, parked.heap, parked.table, parked.pool, {}) /\ DOMAIN EntriesOf(parked.heap, parked.table) = {}
    BY ParkedCall
  <2> HIDE DEF parked, at
  <2>3. Done(s, {})
    BY <1>1, <1>3, <2>1, <2>2, EmptyDone
  <2> QED BY <2>3
<1>4. ASSUME NEW S \in SUBSET Both(a, b), NEW d, NEW H \in Filled(a, b, at, S), ~Refcounted(heap),
             Becomes(s, H, n, SizeIn(H, n) + Cardinality(UnionAt(a, b, d)))
      PROVE  \E some \in SUBSET (KeysOf(Value(a)) \cup KeysOf(Value(b))) : Done(s, some)
  <2>1. Gathered(a, b, s, H, n, p, S)
    BY FilledCall
  <2> DEFINE m == SizeIn(H, n) + Cardinality(UnionAt(a, b, d))
  <2>2. Measures(H, n, m)
    <3>1. H.policy = heap.policy
      BY <2>1 DEF Gathered, Call, Serves
    <3>2. Scratches # {} /\ ~Refcounted(H)
      BY <1>4, <3>1 DEF Refcounted
    <3>3. Cardinality(UnionAt(a, b, d)) \in Nat /\ SizeIn(H, n) \in Nat
      BY UnionAtCount, SizeInType
    <3> QED BY <3>2, <3>3 DEF Measures
  <2>3. Becomes(s, H, n, m)
    BY <1>4
  <2> HIDE DEF m, n, p, at
  <2> QED BY <1>1, <2>1, <2>2, <2>3, GatheredDone
<1>5. ASSUME NEW S \in SUBSET Both(a, b), NEW H \in Filled(a, b, at, S), NEW W \in Wasted(H, p),
             Becomes(s, W, n, SizeIn(W, n))
      PROVE  \E some \in SUBSET (KeysOf(Value(a)) \cup KeysOf(Value(b))) : Done(s, some)
  <2>1. Gathered(a, b, s, H, n, p, S)
    BY FilledCall
  <2> HIDE DEF n, p, at
  <2>2. Gathered(a, b, s, W, n, p, S)
    BY <1>5, <2>1, WastedGathered
  <2>3. Measures(W, n, SizeIn(W, n))
    BY SizeInType
  <2> QED BY <1>1, <1>5, <2>2, <2>3, GatheredDone
<1>6. \/ Becomes(s, parked.heap, parked.table, 0)
      \/ \E S \in LowSets(Both(a, b)) : \E d \in Both(a, b) \ S : \E filled \in Filled(a, b, at, S) :
           \/ /\ ~Refcounted(heap)
              /\ Becomes(s, filled, n, SizeIn(filled, n) + Cardinality(UnionAt(a, b, d)))
           \/ \E H \in Wasted(filled, p) : Becomes(s, H, n, SizeIn(H, n))
  BY DEF UnionIntoFails
<1>7. LowSets(Both(a, b)) \subseteq SUBSET Both(a, b)
  BY DEF LowSets
<1> HIDE DEF at, parked, n, p
<1> QED BY <1>3, <1>4, <1>5, <1>6, <1>7

LEMMA UniteIntoBuilds ==
  ASSUME Good, NEW a \in Bitmaps, NEW b \in Bitmaps, NEW s \in Bitmaps \cap Scratches, UniteInto(a, b, s)
  PROVE  Built(a, b, s) /\ s # a /\ s # b
<1>1. s # a /\ s # b /\ context[a] = NoContext /\ context[b] = NoContext
  BY DEF UniteInto, MayBeCopied
<1>2. UnionInto(a, b, s) \/ UnionIntoFails(a, b, s)
  BY DEF UniteInto
<1>3. a \in Bitmaps \ {s} /\ b \in Bitmaps \ {s} /\ s \in Bitmaps /\ s \in Scratches
  BY <1>1
<1> QED BY <1>1, <1>2, <1>3, UnionIntoBuilds, UnionIntoFailsBuilds

-----------------------------------------------------------------------------
(***************************************************************************)
(* The invariant: whatever call the program makes, on whatever bitmap.     *)
(***************************************************************************)
IInv == Good /\ answer \in {"done", "true", "false", "threw"}

\* One call, what it answers and what it leaves of the bitmaps.
Outcome ==
  \/ \E b \in Bitmaps : Done(b, {}) /\ answer' = "done"
  \/ \E b \in Bitmaps : Done(b, KeysOf(Value(b))) /\ answer' = "done"
  \/ \E b, c \in Bitmaps :
       \/ Done(b, KeysOf(Value(c))) /\ answer' = "done"
       \/ Done(b, KeysOf(Value(b))) /\ answer' = "threw"
       \/ b # c /\ Swapped(b, c) /\ answer' = "done"
       \/ United2(b, c)
       \/ \E s \in Bitmaps : Built(b, c, s)
  \/ \E b \in Bitmaps : \E k \in Keys :
       \/ Added(b, k[1], k[2])
       \/ Removed(b, k[1], k[2])
       \/ Done(b, KeysOf(Value(b))) /\ answer' = IfSo(k \in KeysOf(Value(b)))

LEMMA KeyType ==
  ASSUME NEW k \in Keys
  PROVE  k[1] \in Chunks /\ k[2] \in Lows /\ k = <<k[1], k[2]>>
  BY KeyAssumption

LEMMA NextOutcome ==
  ASSUME ResetsContext = TRUE, Good, Next
  PROVE  Outcome
<1>1. PICK b \in Bitmaps :
        \/ Clear(b) \/ ClearKeepCapacity(b) \/ EndContext(b)
        \/ \E c \in Bitmaps : \/ Assign(b, c) \/ Swap(b, c) \/ Unite(b, c)
                              \/ \E s \in Bitmaps \cap Scratches : UniteInto(b, c, s)
        \/ \E k \in Keys : \/ Add(b, k[1], k[2]) \/ AddBulk(b, k[1], k[2])
                           \/ ContainsBulk(b, k[1], k[2]) \/ Remove(b, k[1], k[2])
  BY DEF Next, Step
<1>2. CASE Clear(b)
  BY <1>2, ClearClears DEF Outcome
<1>3. CASE ClearKeepCapacity(b)
  BY <1>3, ClearKeepCapacityClears DEF Outcome
<1>4. CASE EndContext(b)
  BY <1>4, EndContextEnds DEF Outcome
<1>5. ASSUME NEW c \in Bitmaps, Assign(b, c) PROVE Outcome
  BY <1>5, AssignAssigns DEF Outcome
<1>6. ASSUME NEW c \in Bitmaps, Swap(b, c) PROVE Outcome
  BY <1>6, SwapSwaps DEF Outcome
<1>7. ASSUME NEW c \in Bitmaps, Unite(b, c) PROVE Outcome
  BY <1>7, UniteUnites DEF Outcome
<1>8. ASSUME NEW c \in Bitmaps, NEW s \in Bitmaps \cap Scratches, UniteInto(b, c, s) PROVE Outcome
  BY <1>8, UniteIntoBuilds DEF Outcome
<1>9. ASSUME NEW k \in Keys, Add(b, k[1], k[2]) PROVE Outcome
  <2>1. Added(b, k[1], k[2])
    BY <1>9, KeyType, AddImplAdds DEF Add
  <2> QED BY <2>1 DEF Outcome
<1>10. ASSUME NEW k \in Keys, AddBulk(b, k[1], k[2]) PROVE Outcome
  <2>1. Added(b, k[1], k[2])
    BY <1>10, KeyType, AddBulkAdds
  <2> QED BY <2>1 DEF Outcome
<1>11. ASSUME NEW k \in Keys, ContainsBulk(b, k[1], k[2]) PROVE Outcome
  <2>1. Done(b, KeysOf(Value(b))) /\ answer' = IfSo(<<k[1], k[2]>> \in KeysOf(Value(b)))
    BY <1>11, KeyType, ContainsBulkAnswers
  <2>2. k = <<k[1], k[2]>>
    BY KeyType
  <2> QED BY <2>1, <2>2 DEF Outcome
<1>12. ASSUME NEW k \in Keys, Remove(b, k[1], k[2]) PROVE Outcome
  <2>1. Removed(b, k[1], k[2])
    BY <1>12, KeyType, RemoveRemoves
  <2> QED BY <2>1 DEF Outcome
<1> QED BY <1>1, <1>2, <1>3, <1>4, <1>5, <1>6, <1>7, <1>8, <1>9, <1>10, <1>11, <1>12

LEMMA OutcomeKeeps ==
  ASSUME Outcome PROVE IInv'
<1>1. \A b, keys : Done(b, keys) => Good'
  BY DEF Done
<1>2. \A b, c : Swapped(b, c) => Good'
  BY DEF Swapped
<1>3. \A p : IfSo(p) \in {"true", "false"}
  BY DEF IfSo
<1>4. ASSUME NEW b, NEW c, United2(b, c) PROVE Good' /\ answer' \in {"done", "threw"}
  BY <1>1, <1>4 DEF United2
<1>5. ASSUME NEW b, NEW c, NEW s, Built(b, c, s) PROVE Good' /\ answer' \in {"done", "threw"}
  BY <1>1, <1>5 DEF Built
<1>6. ASSUME NEW b, NEW c, NEW k, Added(b, c, k) PROVE Good' /\ answer' \in {"true", "false", "threw"}
  BY <1>1, <1>3, <1>6 DEF Added
<1>7. ASSUME NEW b, NEW c, NEW k, Removed(b, c, k) PROVE Good' /\ answer' \in {"true", "false", "threw"}
  BY <1>1, <1>3, <1>7 DEF Removed
<1>8. Good' /\ answer' \in {"done", "true", "false", "threw"}
  BY <1>1, <1>2, <1>3, <1>4, <1>5, <1>6, <1>7 DEF Outcome
<1> QED BY <1>8 DEF IInv

LEMMA EmptyAccount ==
  ASSUME NEW policy \in Policies
  PROVE  Account(EmptyHeap(policy), None)
<1> DEFINE H == EmptyHeap(policy)
<1>1. H \in Heaps
  BY NoEntriesType DEF EmptyHeap, Heaps
<1>2. /\ \A t \in Tables : H.holders[t] = 0 /\ H.entries[t] = NoEntries
      /\ \A p \in Payloads : H.refs[p] = 0 /\ H.keys[p] = {}
  BY DEF EmptyHeap
<1> HIDE DEF H
<1>3. ASSUME NEW p \in Payloads PROVE Uses(H.entries, p) = 0
  <2>1. On(H.entries, p) = {}
    BY <1>2, NoEntriesType DEF On
  <2> QED BY <2>1, FS_EmptySet DEF Uses
<1>4. Account(H, None)
  <2>1. None \in [Payloads -> Nat] /\ \A p \in Payloads : None[p] = 0
    BY DEF None
  <2> QED BY <1>1, <1>2, <1>3, <2>1 DEF Account
<1> QED BY <1>4 DEF H

LEMMA InitIInv == Init => IInv
<1> SUFFICES ASSUME Init PROVE IInv
  OBVIOUS
<1>1. PICK policy \in Policies : heap = EmptyHeap(policy)
  BY DEF Init
<1>2. Account(heap, None)
  BY <1>1, EmptyAccount
<1>3. \A t \in Tables : heap.holders[t] = 0
  BY <1>1 DEF EmptyHeap
<1>4. \A b \in Bitmaps : table[b] = Null /\ pool[b] = Null /\ size[b] = 0 /\ context[b] = NoContext
  BY DEF Init
<1>5. /\ table \in [Bitmaps -> Stores] /\ pool \in [Bitmaps -> Stores] /\ size \in [Bitmaps -> Nat]
      /\ context \in [Bitmaps -> Contexts \cup {NoContext}]
  BY DEF Init, Stores
<1>6. Rooted(heap, table, pool)
  <2>1. ASSUME NEW t \in Tables PROVE Holding(table, t) = 0 /\ Holding(pool, t) = 0
    <3>1. {b \in Bitmaps : table[b] = t} = {} /\ {b \in Bitmaps : pool[b] = t} = {}
      BY <1>4, NullIsNoTable
    <3> QED BY <3>1, FS_EmptySet DEF Holding
  <2> QED BY <1>3, <1>4, <1>5, <2>1, NullIsNoTable DEF Rooted
<1>7. SharedNonEmpty(heap)
  BY <1>3 DEF SharedNonEmpty
<1>8. \A b \in Bitmaps : Fits(heap, table[b], size[b], context[b])
  <2>1. DOMAIN EntriesOf(heap, Null) = {}
    BY NoEntriesType DEF EntriesOf
  <2> QED BY <1>4, <2>1, EmptyTable
<1>9. Good
  BY <1>2, <1>5, <1>6, <1>7, <1>8 DEF Good, Sound
<1> QED BY <1>9 DEF IInv, Init

LEMMA NextIInv == ResetsContext = TRUE => (IInv /\ [Next]_vars => IInv')
<1> SUFFICES ASSUME ResetsContext = TRUE, IInv, [Next]_vars PROVE IInv'
  OBVIOUS
<1>1. CASE Next
  BY <1>1, NextOutcome, OutcomeKeeps DEF IInv
<1>2. CASE UNCHANGED vars
  BY <1>2 DEF vars, IInv, Good
<1> QED BY <1>1, <1>2

\* The accounts of tables and payloads, which stores hold which table, and what a
\* bitmap's table, size and context are worth: every call keeps them, and leaves
\* them where it throws (the whole of bitmap.hpp's calls over chunk_store.hpp).
THEOREM Invariant == ASSUME ResetsContext = TRUE PROVE Spec => []IInv
<1>1. IInv /\ [Next]_vars => IInv'
  BY NextIInv
<1> QED BY <1>1, InitIInv, PTL DEF Spec

LEMMA SoundBitmaps == IInv => BitmapsAreSound
<1> SUFFICES ASSUME IInv PROVE BitmapsAreSound
  OBVIOUS
<1>1. /\ Account(heap, None) /\ Rooted(heap, table, pool)
      /\ size \in [Bitmaps -> Nat] /\ context \in [Bitmaps -> Contexts \cup {NoContext}]
      /\ \A b \in Bitmaps : Fits(heap, table[b], size[b], context[b])
  BY DEF IInv, Good, Sound
<1>2. TypeOK
  <2>1. heap \in Heaps /\ table \in [Bitmaps -> Stores] /\ pool \in [Bitmaps -> Stores]
    BY <1>1 DEF Account, Rooted
  <2>2. answer \in {"done", "true", "false", "threw"}
    BY DEF IInv
  <2> QED BY <1>1, <2>1, <2>2 DEF TypeOK, Heaps, Stores
<1>3. CountsAreHolders
  <2>1. ASSUME NEW t \in Tables
        PROVE  /\ heap.holders[t] = HoldersOf(t)
               /\ heap.holders[t] = 0 => heap.entries[t] = NoEntries
               /\ heap.holders[t] > 1 => Counted(heap, t)
    BY <1>1 DEF Rooted, Holding, HoldersOf, Account
  <2>2. ASSUME NEW p \in Payloads
        PROVE  heap.refs[p] = Cardinality(EntriesOn(p)) /\ (heap.refs[p] > 1 => Refcounted(heap))
    <3>1. Uses(heap.entries, p) = Cardinality(EntriesOn(p))
      BY DEF Uses, On, EntriesOn
    <3>2. Uses(heap.entries, p) \in Nat
      BY <1>1, OnFinite DEF Account, Heaps
    <3>3. heap.refs[p] = Uses(heap.entries, p) + None[p] /\ (heap.refs[p] > 1 => Refcounted(heap))
      BY <1>1 DEF Account
    <3>4. None[p] = 0
      BY DEF None
    <3> QED BY <3>1, <3>2, <3>3, <3>4
  <2> QED BY <2>1, <2>2 DEF CountsAreHolders
<1>4. NoEmptyChunk
  <2>1. ASSUME NEW b \in Bitmaps, NEW c \in Chunks, HoldsChunk(b, c) PROVE LowsOf(b, c) # {}
    <3>1. NonEmpty(Value(b))
      BY <1>1 DEF Fits, Value
    <3> QED BY <2>1, <3>1, LowsOfValue DEF NonEmpty
  <2> QED BY <2>1 DEF NoEmptyChunk
<1>5. SizeIsCardinality
  <2>1. ASSUME ~CopiesIntoScratch, NEW b \in Bitmaps PROVE size[b] = Cardinality(Contents(b))
    BY <1>1, <2>1, ContentsKeys DEF CopiesIntoScratch, Fits, Value
  <2> QED BY <2>1 DEF SizeIsCardinality, SizesRight
<1> QED BY <1>2, <1>3, <1>4, <1>5 DEF BitmapsAreSound

LEMMA SoundPools == IInv => PoolsAreOwn
<1> SUFFICES ASSUME IInv, NEW b \in Bitmaps, pool[b] # Null PROVE heap.holders[pool[b]] = 1
  BY DEF PoolsAreOwn
<1>1. Rooted(heap, table, pool)
  BY DEF IInv, Good, Sound
<1> QED BY <1>1 DEF Rooted, Stores

LEMMA SoundContexts == IInv => ContextIsSound
<1> SUFFICES ASSUME IInv, NEW b \in Bitmaps, context[b] # NoContext
             PROVE  /\ context[b].table = table[b]
                    /\ HoldsChunk(b, context[b].chunk)
                    /\ context[b].index = Below(DOMAIN Held(b), context[b].chunk)
                    /\ context[b].private => /\ ~IsShared(heap, table[b])
                                             /\ Unshared(heap, table[b], context[b].chunk)
  BY DEF ContextIsSound, ContextCurrent, ContextPrivate
<1>1. SoundContext(heap, table[b], context[b])
  BY DEF IInv, Good, Sound, Fits
<1> QED BY <1>1 DEF SoundContext, HoldsChunk, Held

\* Bitmaps that share tables and payloads are kept apart by the counts alone:
\* whatever calls are made on them and wherever an allocation fails in one, the
\* counts are the holders', no bitmap keeps a chunk without a key and size() is
\* the number of keys (detach, release, repair_cardinality, add_impl, remove).
THEOREM BitmapsStaySound == ASSUME ResetsContext = TRUE PROVE Spec => []BitmapsAreSound
  BY Invariant, SoundBitmaps, PTL

\* The payloads a bitmap has parked are reached from no other bitmap, so that a
\* union may be built in them (clear_retiring_slots, take_reusable_payload).
THEOREM PoolsStayOwn == ASSUME ResetsContext = TRUE PROVE Spec => []PoolsAreOwn
  BY Invariant, SoundPools, PTL

\* What a bulk_context remembers holds whenever the next call takes it: the slot
\* is its chunk's, and a payload it calls private is the bitmap's alone, where
\* callers give up a context when a call that could move its entry threw.
THEOREM ContextsStaySound == ASSUME ResetsContext = TRUE PROVE Spec => []ContextIsSound
  BY Invariant, SoundContexts, PTL


-----------------------------------------------------------------------------
(***************************************************************************)
(* A call that changes nothing.                                            *)
(***************************************************************************)
LEMMA WrittenInPlace ==
  ASSUME Good, NEW b \in Bitmaps, ~IsShared(heap, table[b]), NEW c \in DOMAIN Held(b), NEW K \in SUBSET Lows
  PROVE  Written(Own(heap, table[b], c), table[b], c, K).holders = heap.holders
<1> DEFINE t   == table[b]
           own == Own(heap, t, c)
           W   == Written(own, t, c, K)
<1>1. Owns(b, heap, t, {})
  <2>1. /\ Owns(b, OwnTable(t, 0).heap, OwnTable(t, 0).table, {})
        /\ ~IsShared(heap, t) => OwnTable(t, 0).heap = heap /\ OwnTable(t, 0).table = t
    BY OwnTableCall
  <2> QED BY <2>1
<1>2. Owns(b, own, t, {}) /\ Keeps(heap, own, t) /\ Unshared(own, t, c)
  BY <1>1, OwnCall
<1> HIDE DEF own
<1>3. Keeps(own, W, t)
  BY <1>2, WrittenCall
<1> QED BY <1>2, <1>3 DEF Keeps, SameBlocks, own

\* The stores and their tables are as they were where a table was shared.
SharedStay(d) == IsShared(heap, table[d]) => table'[d] = table[d] /\ heap'.holders = heap.holders

LEMMA WrittenStays ==
  ASSUME Good, NEW b \in Bitmaps, NEW H, NEW m, Becomes(b, H, table[b], m), H.holders = heap.holders
  PROVE  \A d \in Bitmaps : SharedStay(d)
<1>1. table' = table
  BY GoodBitmap DEF Becomes
<1> QED BY <1>1 DEF Becomes, SharedStay

LEMMA AddImplStays ==
  ASSUME Good, NEW b \in Bitmaps, NEW c \in Chunks, NEW k \in Lows, NEW bulk \in BOOLEAN,
         AddImpl(b, c, k, bulk), answer' = "false"
  PROVE  \A d \in Bitmaps : SharedStay(d)
<1>1. CASE AddOfHeld(b, c, k, bulk)
  BY <1>1 DEF AddOfHeld, SharedStay
<1>2. ~AddFails(b, c, k, bulk) /\ ~AddChunk(b, c, k, bulk) /\ ~AddToChunkFails(b, c, k, bulk)
  BY DEF AddFails, AddChunk, AddToChunkFails, Answers
<1>3. CASE AddToChunk(b, c, k, bulk)
  <2> DEFINE at  == AddAt(b, bulk)
             own == Own(at.heap, at.table, c)
  <2>1. /\ HoldsChunk(b, c) /\ (AddDetaches(b, bulk) => k \notin LowsOf(b, c))
        /\ Becomes(b, Written(own, at.table, c, LowsOf(b, c) \cup {k}), at.table,
                   size[b] + IF k \notin LowsOf(b, c) THEN 1 ELSE 0)
        /\ answer' = IfSo(k \notin LowsOf(b, c)) \/ answer' = "threw"
    BY <1>3 DEF AddToChunk, Answers
  <2>2. k \in LowsOf(b, c)
    BY <2>1 DEF IfSo
  <2>3. ~AddDetaches(b, bulk) /\ ~IsShared(heap, table[b])
    BY <2>1, <2>2, AddAtOwn
  <2>4. at.heap = heap /\ at.table = table[b]
    BY <2>3 DEF AddAt
  <2>5. LowsOf(b, c) \cup {k} \in SUBSET Lows
    <3>1. Value(b) \in Maps /\ c \in DOMAIN Value(b) /\ LowsOf(b, c) = Value(b)[c]
      BY <2>1, GoodBitmap, LowsOfValue
    <3> QED BY <3>1, MapsElim
  <2>6. Written(Own(heap, table[b], c), table[b], c, LowsOf(b, c) \cup {k}).holders = heap.holders
    BY <2>1, <2>3, <2>5, WrittenInPlace DEF HoldsChunk
  <2> QED BY <2>1, <2>4, <2>6, WrittenStays
<1> QED BY <1>1, <1>2, <1>3 DEF AddImpl

LEMMA AddThroughStays ==
  ASSUME Good, NEW b \in Bitmaps, NEW c \in Chunks, NEW k \in Lows, AddThrough(b, c, k), answer' = "false"
  PROVE  \A d \in Bitmaps : SharedStay(d)
<1> DEFINE x == context[b]
           t == table[b]
           held == heap.keys[heap.entries[x.table][ChunkAt(x)]]
           own == IF x.private THEN heap ELSE Own(heap, x.table, ChunkAt(x))
<1>1. /\ x # NoContext /\ x.chunk = c /\ (TableSharing(heap) => x.private)
  BY DEF AddThrough, WritesThrough, Hits
<1>2. /\ x.table = t /\ t \in Tables /\ c \in DOMAIN Held(b) /\ Held(b) = heap.entries[t] /\ ChunkAt(x) = c
      /\ SoundContext(heap, t, x)
  BY <1>1, ChunkAtSlot
<1>3. PICK m : Becomes(b, Written(own, x.table, ChunkAt(x), held \cup {k}), t, m)
  BY DEF AddThrough, Answers
<1>4. ~IsShared(heap, t)
  BY <1>1, <1>2 DEF SoundContext, IsShared, Counted
<1>5. held \cup {k} \in SUBSET Lows
  <2>1. Value(b) \in Maps /\ c \in DOMAIN Value(b) /\ held = Value(b)[c]
    BY <1>2, GoodBitmap, LowsOfValue DEF HoldsChunk, LowsOf
  <2> QED BY <2>1, MapsElim
<1>6. Written(own, x.table, ChunkAt(x), held \cup {k}).holders = heap.holders
  <2>1. CASE x.private
    <3>1. heap \in Heaps
      BY GoodBitmap
    <3> QED BY <2>1, <3>1 DEF Written, Heaps
  <2>2. CASE ~x.private
    BY <1>2, <1>4, <1>5, <2>2, WrittenInPlace
  <2> QED BY <2>1, <2>2
<1> HIDE DEF own, held
<1> QED BY <1>3, <1>6, WrittenStays

LEMMA RemoveStays ==
  ASSUME Good, NEW b \in Bitmaps, NEW c \in Chunks, NEW k \in Lows, Remove(b, c, k), answer' = "false"
  PROVE  \A d \in Bitmaps : SharedStay(d)
<1>1. CASE RemoveAbsent(b, c, k)
  BY <1>1 DEF RemoveAbsent, SharedStay
<1>2. ~RemoveFails(b, c, k)
  BY DEF RemoveFails, Answers
<1>3. CASE RemoveFromChunk(b, c, k)
  <2> DEFINE at   == OwnTable(table[b], 0)
             own  == Own(at.heap, at.table, c)
             left == LowsOf(b, c) \ {k}
  <2>1. /\ HoldsChunk(b, c) /\ (IsShared(heap, table[b]) => k \in LowsOf(b, c)) /\ k \notin LowsOf(b, c)
    BY <1>3 DEF RemoveFromChunk, Answers, IfSo
  <2>2. at.heap = heap /\ at.table = table[b]
    BY <2>1 DEF OwnTable
  <2>3. Value(b) \in Maps /\ NonEmpty(Value(b)) /\ c \in DOMAIN Value(b) /\ LowsOf(b, c) = Value(b)[c]
    BY <2>1, GoodBitmap, LowsOfValue
  <2>4. left = LowsOf(b, c) /\ left # {} /\ left \in SUBSET Lows
    BY <2>1, <2>3, MapsElim DEF NonEmpty
  <2>5. PICK m : Becomes(b, Written(own, at.table, c, left), at.table, m)
    BY <1>3, <2>4 DEF RemoveFromChunk
  <2>6. Written(Own(heap, table[b], c), table[b], c, left).holders = heap.holders
    BY <2>1, <2>4, WrittenInPlace DEF HoldsChunk
  <2> HIDE DEF left
  <2> QED BY <2>2, <2>5, <2>6, WrittenStays
<1> QED BY <1>1, <1>2, <1>3 DEF Remove

LEMMA NextStays ==
  ASSUME Good, [Next]_vars, answer' = "false"
  PROVE  \A d \in Bitmaps : SharedStay(d)
<1>1. CASE UNCHANGED vars
  BY <1>1 DEF vars, SharedStay
<1>2. ASSUME NEW b \in Bitmaps PROVE ~Clear(b) /\ ~ClearKeepCapacity(b) /\ ~EndContext(b)
  BY DEF Clear, ClearKeepCapacity, EndContext, Answers
<1>3. ASSUME NEW b \in Bitmaps, NEW c \in Bitmaps PROVE ~Assign(b, c) /\ ~Swap(b, c) /\ ~Unite(b, c)
  <2>1. ~Assign(b, c)
    BY DEF Assign, Answers
  <2>2. ~Swap(b, c)
    BY DEF Swap, Answers
  <2>3. ~Unite(b, c)
    BY DEF Unite, UniteSame, UniteAll, UniteFails, Answers
  <2> QED BY <2>1, <2>2, <2>3
<1>4. ASSUME NEW a \in Bitmaps, NEW b \in Bitmaps, NEW s \in Bitmaps PROVE ~UniteInto(a, b, s)
  BY DEF UniteInto, UnionInto, UnionIntoFails, Answers
<1>5. ASSUME NEW b \in Bitmaps, NEW k \in Keys, Add(b, k[1], k[2]) PROVE \A d \in Bitmaps : SharedStay(d)
  BY <1>5, KeyType, AddImplStays DEF Add
<1>6. ASSUME NEW b \in Bitmaps, NEW k \in Keys, AddBulk(b, k[1], k[2]) PROVE \A d \in Bitmaps : SharedStay(d)
  BY <1>6, KeyType, AddImplStays, AddThroughStays DEF AddBulk
<1>7. ASSUME NEW b \in Bitmaps, NEW k \in Keys, ContainsBulk(b, k[1], k[2]) PROVE \A d \in Bitmaps : SharedStay(d)
  BY <1>7 DEF ContainsBulk, SharedStay
<1>8. ASSUME NEW b \in Bitmaps, NEW k \in Keys, Remove(b, k[1], k[2]) PROVE \A d \in Bitmaps : SharedStay(d)
  BY <1>8, KeyType, RemoveStays
<1>9. CASE Next
  BY <1>2, <1>3, <1>4, <1>5, <1>6, <1>7, <1>8, <1>9 DEF Next, Step
<1> QED BY <1>1, <1>9

\* A call that finds it changes nothing leaves the tables shared and allocates
\* none (unchanged_while_shared before add and remove detach, contains_bulk).
THEOREM UnchangedCallsShare == ASSUME ResetsContext = TRUE PROVE Spec => UnchangedStaysShared
<1>1. IInv /\ [Next]_vars => [answer' = "false" =>
         \A b \in Bitmaps : IsShared(heap, table[b]) => table'[b] = table[b] /\ heap'.holders = heap.holders]_vars
  BY NextStays DEF IInv, SharedStay
<1> QED BY <1>1, Invariant, PTL DEF Spec, UnchangedStaysShared


-----------------------------------------------------------------------------
(***************************************************************************)
(* Bitmaps whose tables and payloads are shared are sets of their own.     *)
(***************************************************************************)
LEMMA ContentsNext == \A d : Contents(d)' = KeysOf(ValueIn(heap', table'[d]))
<1> SUFFICES ASSUME NEW d PROVE Contents(d)' = KeysOf(ValueIn(heap', table'[d]))
  OBVIOUS
<1> DEFINE e == EntriesOf(heap', table'[d])
           v == ValueIn(heap', table'[d])
<1>1. DOMAIN v = DOMAIN e /\ \A c \in DOMAIN e : v[c] = heap'.keys[e[c]]
  BY ValueDomain
<1>2. Contents(d)' = {k \in Chunks \X Lows : k[2] \in IF k[1] \in DOMAIN e THEN heap'.keys[e[k[1]]] ELSE {}}
  BY DEF Contents, LowsOf, HoldsChunk, Held
<1> HIDE DEF e, v
<1>3. \A k \in Chunks \X Lows : k[2] \in (IF k[1] \in DOMAIN e THEN heap'.keys[e[k[1]]] ELSE {})
                                 <=> k[1] \in DOMAIN v /\ k[2] \in v[k[1]]
  BY <1>1
<1>4. Contents(d)' = KeysOf(v)
  BY <1>2, <1>3 DEF KeysOf
<1> QED BY <1>4 DEF v

\* The keys the bitmaps hold, as BitmapValues has them.
Vals == [b \in Bitmaps |-> Contents(b)]

LEMMA ValsAre ==
  /\ Vals = [b \in Bitmaps |-> KeysOf(Value(b))]
  /\ Vals' = [b \in Bitmaps |-> KeysOf(ValueIn(heap', table'[b]))]
<1>1. Vals = [b \in Bitmaps |-> KeysOf(Value(b))]
  BY ContentsKeys DEF Vals
<1>2. Vals' = [b \in Bitmaps |-> Contents(b)']
  BY DEF Vals
<1>3. \A b \in Bitmaps : Contents(b)' = KeysOf(ValueIn(heap', table'[b]))
  BY ContentsNext
<1>4. Vals' = [b \in Bitmaps |-> KeysOf(ValueIn(heap', table'[b]))]
  BY <1>2, <1>3
<1> QED BY <1>1, <1>4

LEMMA DoneHolds ==
  ASSUME NEW b \in Bitmaps, NEW keys, Done(b, keys)
  PROVE  Vals' = [Vals EXCEPT ![b] = keys]
<1>1. /\ KeysOf(ValueIn(heap', table'[b])) = keys
      /\ \A c \in Bitmaps \ {b} : ValueIn(heap', table'[c]) = Value(c)
  BY DEF Done, OthersStay, Value
<1>2. /\ Vals = [c \in Bitmaps |-> KeysOf(Value(c))]
      /\ Vals' = [c \in Bitmaps |-> KeysOf(ValueIn(heap', table'[c]))]
  BY ValsAre
<1>3. \A c \in Bitmaps : Vals'[c] = [Vals EXCEPT ![b] = keys][c]
  BY <1>1, <1>2
<1> QED BY <1>2, <1>3

LEMMA DoneNothing ==
  ASSUME NEW b \in Bitmaps, Done(b, KeysOf(Value(b)))
  PROVE  Vals' = Vals
<1>1. Vals' = [Vals EXCEPT ![b] = KeysOf(Value(b))]
  BY DoneHolds
<1>2. Vals = [c \in Bitmaps |-> KeysOf(Value(c))]
  BY ValsAre
<1> QED BY <1>1, <1>2

LEMMA SwappedHolds ==
  ASSUME NEW b \in Bitmaps, NEW c \in Bitmaps, b # c, Swapped(b, c)
  PROVE  Vals' = [Vals EXCEPT ![b] = Vals[c], ![c] = Vals[b]]
<1>1. /\ Vals = [d \in Bitmaps |-> KeysOf(Value(d))]
      /\ Vals' = [d \in Bitmaps |-> KeysOf(ValueIn(heap', table'[d]))]
  BY ValsAre
<1>2. \A d \in Bitmaps : ValueIn(heap', table'[d]) = Value(IF d = b THEN c ELSE IF d = c THEN b ELSE d)
  BY DEF Swapped
<1>3. \A d \in Bitmaps : Vals'[d] = [Vals EXCEPT ![b] = Vals[c], ![c] = Vals[b]][d]
  BY <1>1, <1>2
<1> QED BY <1>1, <1>3

LEMMA ValsOf ==
  ASSUME NEW b \in Bitmaps PROVE Vals[b] = KeysOf(Value(b))
  BY ValsAre

\* The actions of BitmapValues, for the keys the bitmaps hold.
LEMMA ValuesActions ==
  /\ \A b, c \in Bitmaps :
       /\ Values!Assign(b, c) <=> \/ answer' = "done" /\ Vals' = [Vals EXCEPT ![b] = Vals[c]]
                                  \/ answer' = "threw" /\ Vals' = Vals
       /\ Values!Swap(b, c) <=> answer' = "done" /\ Vals' = [Vals EXCEPT ![b] = Vals[c], ![c] = Vals[b]]
       /\ Values!Clear(b) <=> answer' = "done" /\ Vals' = [Vals EXCEPT ![b] = {}]
       /\ Values!Unite(b, c) <=>
            \/ answer' = "done" /\ Vals' = [Vals EXCEPT ![b] = Vals[b] \cup Vals[c]]
            \/ answer' = "threw" /\ \E some \in SUBSET Vals[c] : Vals' = [Vals EXCEPT ![b] = Vals[b] \cup some]
  /\ \A a, b, s \in Bitmaps : Values!UniteInto(a, b, s) <=>
       \/ answer' = "done" /\ Vals' = [Vals EXCEPT ![s] = Vals[a] \cup Vals[b]]
       \/ answer' = "threw" /\ \E some \in SUBSET (Vals[a] \cup Vals[b]) : Vals' = [Vals EXCEPT ![s] = some]
  /\ \A b \in Bitmaps, k \in Keys :
       /\ Values!Add(b, k) <=>
            \/ answer' = IfSo(k \notin Vals[b]) /\ Vals' = [Vals EXCEPT ![b] = Vals[b] \cup {k}]
            \/ answer' = "threw" /\ (Vals' = [Vals EXCEPT ![b] = Vals[b] \cup {k}] \/ Vals' = Vals)
       /\ Values!Remove(b, k) <=>
            \/ answer' = IfSo(k \in Vals[b]) /\ Vals' = [Vals EXCEPT ![b] = Vals[b] \ {k}]
            \/ answer' = "threw" /\ Vals' = Vals
       /\ Values!Contains(b, k) <=> answer' = IfSo(k \in Vals[b]) /\ Vals' = Vals
  BY DEF Values!Assign, Values!Swap, Values!Clear, Values!Unite, Values!UniteInto, Values!Add, Values!Remove,
         Values!Contains, Values!Answers, Values!Holds, Values!IfSo, IfSo, Vals

LEMMA OutcomeRefines ==
  ASSUME Outcome PROVE Values!Next
<1>1. ASSUME NEW b \in Bitmaps, Done(b, {}), answer' = "done" PROVE Values!Next
  <2>1. Values!Clear(b)
    BY <1>1, DoneHolds, ValuesActions
  <2> QED BY <2>1 DEF Values!Next
<1>2. ASSUME NEW b \in Bitmaps, NEW c \in Bitmaps, Done(b, KeysOf(Value(c))), answer' = "done" PROVE Values!Next
  <2>1. Vals' = [Vals EXCEPT ![b] = Vals[c]]
    BY <1>2, DoneHolds, ValsOf
  <2>2. Values!Assign(b, c)
    BY <1>2, <2>1, ValuesActions
  <2> QED BY <2>2 DEF Values!Next
<1>3. ASSUME NEW b \in Bitmaps, Done(b, KeysOf(Value(b))), answer' = "threw" PROVE Values!Next
  <2>1. Values!Assign(b, b)
    BY <1>3, DoneNothing, ValuesActions
  <2> QED BY <2>1 DEF Values!Next
<1>4. ASSUME NEW b \in Bitmaps, NEW c \in Bitmaps, b # c, Swapped(b, c), answer' = "done" PROVE Values!Next
  <2>1. Values!Swap(b, c)
    BY <1>4, SwappedHolds, ValuesActions
  <2> QED BY <2>1 DEF Values!Next
<1>5. ASSUME NEW b \in Bitmaps, NEW c \in Bitmaps, United2(b, c) PROVE Values!Next
  <2>1. CASE answer' = "done" /\ Done(b, KeysOf(Value(b)) \cup KeysOf(Value(c)))
    <3>1. Vals' = [Vals EXCEPT ![b] = Vals[b] \cup Vals[c]]
      BY <2>1, DoneHolds, ValsOf
    <3>2. Values!Unite(b, c)
      BY <2>1, <3>1, ValuesActions
    <3> QED BY <3>2 DEF Values!Next
  <2>2. ASSUME answer' = "threw", NEW some \in SUBSET KeysOf(Value(c)), Done(b, KeysOf(Value(b)) \cup some)
        PROVE  Values!Next
    <3>1. Vals' = [Vals EXCEPT ![b] = Vals[b] \cup some] /\ some \in SUBSET Vals[c]
      BY <2>2, DoneHolds, ValsOf
    <3>2. Values!Unite(b, c)
      BY <2>2, <3>1, ValuesActions
    <3> QED BY <3>2 DEF Values!Next
  <2> QED BY <1>5, <2>1, <2>2 DEF United2
<1>6. ASSUME NEW b \in Bitmaps, NEW c \in Bitmaps, NEW s \in Bitmaps, Built(b, c, s) PROVE Values!Next
  <2>1. CASE answer' = "done" /\ Done(s, KeysOf(Value(b)) \cup KeysOf(Value(c)))
    <3>1. Vals' = [Vals EXCEPT ![s] = Vals[b] \cup Vals[c]]
      BY <2>1, DoneHolds, ValsOf
    <3>2. Values!UniteInto(b, c, s)
      BY <2>1, <3>1, ValuesActions
    <3> QED BY <3>2 DEF Values!Next
  <2>2. ASSUME answer' = "threw", NEW some \in SUBSET (KeysOf(Value(b)) \cup KeysOf(Value(c))), Done(s, some)
        PROVE  Values!Next
    <3>1. Vals' = [Vals EXCEPT ![s] = some] /\ some \in SUBSET (Vals[b] \cup Vals[c])
      BY <2>2, DoneHolds, ValsOf
    <3>2. Values!UniteInto(b, c, s)
      BY <2>2, <3>1, ValuesActions
    <3> QED BY <3>2 DEF Values!Next
  <2> QED BY <1>6, <2>1, <2>2 DEF Built
<1>7. ASSUME NEW b \in Bitmaps, NEW k \in Keys, Added(b, k[1], k[2]) PROVE Values!Next
  <2>1. k = <<k[1], k[2]>> /\ Vals[b] = KeysOf(Value(b))
    BY KeyType, ValsOf
  <2>2. CASE Done(b, KeysOf(Value(b)) \cup {k}) /\ answer' \in {IfSo(k \notin KeysOf(Value(b))), "threw"}
    <3>1. Vals' = [Vals EXCEPT ![b] = Vals[b] \cup {k}]
      BY <2>1, <2>2, DoneHolds
    <3>2. Values!Add(b, k)
      BY <2>1, <2>2, <3>1, ValuesActions
    <3> QED BY <3>2 DEF Values!Next
  <2> QED BY <1>3, <1>7, <2>1, <2>2 DEF Added
<1>8. ASSUME NEW b \in Bitmaps, NEW k \in Keys, Removed(b, k[1], k[2]) PROVE Values!Next
  <2>1. k = <<k[1], k[2]>> /\ Vals[b] = KeysOf(Value(b))
    BY KeyType, ValsOf
  <2>2. CASE Done(b, KeysOf(Value(b)) \ {k}) /\ answer' = IfSo(k \in KeysOf(Value(b)))
    <3>1. Vals' = [Vals EXCEPT ![b] = Vals[b] \ {k}]
      BY <2>1, <2>2, DoneHolds
    <3>2. Values!Remove(b, k)
      BY <2>1, <2>2, <3>1, ValuesActions
    <3> QED BY <3>2 DEF Values!Next
  <2> QED BY <1>3, <1>8, <2>1, <2>2 DEF Removed
<1>9. ASSUME NEW b \in Bitmaps, NEW k \in Keys, Done(b, KeysOf(Value(b))), answer' = IfSo(k \in KeysOf(Value(b)))
      PROVE  Values!Next
  <2>1. Values!Contains(b, k)
    BY <1>9, DoneNothing, ValsOf, ValuesActions
  <2> QED BY <2>1 DEF Values!Next
<1> QED BY <1>1, <1>2, <1>3, <1>4, <1>5, <1>6, <1>7, <1>8, <1>9 DEF Outcome

\* Bitmaps copied from one another, with the tables and payloads they share, are
\* sets of their own: a call changes the bitmap it is made on, answers for what
\* that one held, and where it fails leaves the call applied to part of it.
THEOREM CopiesAreValues == ASSUME ResetsContext = TRUE PROVE Spec => ImplementsBitmapValues
<1>1. Init => Values!Init
  <2> SUFFICES ASSUME Init PROVE Values!Init
    OBVIOUS
  <2>1. ASSUME NEW b \in Bitmaps PROVE Contents(b) = {}
    <3>1. DOMAIN EntriesOf(heap, table[b]) = {}
      BY NoEntriesType DEF Init, EntriesOf
    <3> QED BY <3>1, EmptyTable, ContentsKeys DEF Value
  <2> QED BY <2>1 DEF Init, Values!Init
<1>2. IInv /\ [Next]_vars => [Values!Next]_(Values!vars)
  <2> SUFFICES ASSUME IInv, [Next]_vars PROVE Values!Next \/ UNCHANGED Values!vars
    OBVIOUS
  <2>1. CASE Next
    BY <2>1, NextOutcome, OutcomeRefines DEF IInv
  <2>2. CASE UNCHANGED vars
    <3>1. \A b \in Bitmaps : Contents(b)' = Contents(b)
      BY <2>2 DEF vars, Contents, LowsOf, HoldsChunk, Held
    <3> QED BY <2>2, <3>1 DEF vars, Values!vars
  <2> QED BY <2>1, <2>2
<1> QED BY <1>1, <1>2, Invariant, PTL DEF Spec, Values!Spec, ImplementsBitmapValues
=============================================================================
