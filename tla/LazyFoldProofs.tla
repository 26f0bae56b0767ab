--------------------------- MODULE LazyFoldProofs ---------------------------
(***************************************************************************)
(* What LazyFold keeps, for every domain, every bounds of the forms, every *)
(* set of operands and every sequence of calls.                            *)
(***************************************************************************)
EXTENDS LazyFold, FiniteSetTheorems, TLAPS

\* A container as a fold may leave it, and one that is settled.
Sound(c) == /\ c \in Containers
            /\ c.stale  => c.kind = "bitset" /\ c.count <= Cardinality(c.keys)
            /\ ~c.stale => c.count = Cardinality(c.keys)
Exact(c) == Sound(c) /\ ~c.stale

-----------------------------------------------------------------------------
\* The keys of a container are counted, and only a full one has them all.
LEMMA KeysCounted ==
  ASSUME NEW S \in SUBSET Lows
  PROVE  /\ IsFiniteSet(S) /\ Cardinality(S) \in 0..Cardinality(Lows)
         /\ Cardinality(S) = 0 <=> S = {}
         /\ Cardinality(S) = Cardinality(Lows) => S = Lows
<1>1. IsFiniteSet(Lows) /\ Cardinality(Lows) \in Nat
  BY BoundsAssumption, FS_CardinalityType
<1>2. IsFiniteSet(S) /\ Cardinality(S) <= Cardinality(Lows)
      /\ (Cardinality(Lows) = Cardinality(S) => Lows = S)
  BY <1>1, FS_Subset
<1>3. Cardinality(S) \in Nat /\ (Cardinality(S) = 0 <=> S = {})
  BY <1>2, FS_CardinalityType, FS_EmptySet
<1>4. QED
  BY <1>1, <1>2, <1>3

\* A container that is made is settled, whatever its form.
LEMMA MadeExact ==
  ASSUME NEW S \in SUBSET Lows, NEW kind \in {"array", "bitset", "run"}
  PROVE  Exact(Container(kind, S)) /\ Container(kind, S).keys = S /\ Container(kind, S).kind = kind
BY KeysCounted DEF Exact, Sound, Container, Containers

\* And so is one in any of the forms its number of keys allows.
LEMMA FormsExact ==
  ASSUME NEW S \in SUBSET Lows
  PROVE  /\ Exact(Form(S)) /\ Form(S).keys = S
         /\ \A c \in Runs(S) : Exact(c) /\ c.keys = S
         /\ \A c \in Forms(S) : Exact(c) /\ c.keys = S
         /\ \A c \in FormsOrBitset(S) : Exact(c) /\ c.keys = S
<1>1. \A kind \in {"array", "bitset", "run"} :
         Exact(Container(kind, S)) /\ Container(kind, S).keys = S
  BY MadeExact
<1>2. Exact(Form(S)) /\ Form(S).keys = S
  BY <1>1 DEF Form
<1>3. \A c \in Runs(S) : Exact(c) /\ c.keys = S
  BY <1>1, <1>2 DEF Runs
<1>4. \A c \in Forms(S) : Exact(c) /\ c.keys = S
  BY <1>1, <1>2, <1>3 DEF Forms
<1>5. QED
  BY <1>1, <1>2, <1>3, <1>4 DEF FormsOrBitset

\* Counting a stale bitset settles it and keeps its keys.
LEMMA SettledExact ==
  ASSUME NEW c, Sound(c)
  PROVE  Exact(Settled(c)) /\ Settled(c).keys = c.keys /\ Settled(c).kind = c.kind
<1>1. c \in Containers /\ c.keys \in SUBSET Lows
  BY DEF Sound, Containers
<1>2. Cardinality(c.keys) \in 0..Cardinality(Lows)
  BY <1>1, KeysCounted
<1> DEFINE n == Cardinality(c.keys)
<1>3. Settled(c) = [kind |-> c.kind, keys |-> c.keys, count |-> n, stale |-> FALSE]
  <2> HIDE DEF n
  <2>1. Settled(c) = [c EXCEPT !.count = n, !.stale = FALSE]
    BY DEF Settled, n
  <2>2. QED
    BY <1>1, <2>1 DEF Containers
<1>4. QED
  BY <1>1, <1>2, <1>3 DEF Exact, Sound, Containers

\* A count of the whole domain means that the container is full, stale or not.
LEMMA FullIsAll ==
  ASSUME NEW c, Sound(c), Full(c)
  PROVE  c.keys = Lows
<1>1. c.keys \in SUBSET Lows /\ c.count \in Int
  BY DEF Sound, Containers
<1>2. Cardinality(c.keys) \in 0..Cardinality(Lows) /\ Cardinality(Lows) \in Nat
  BY <1>1, KeysCounted, BoundsAssumption, FS_CardinalityType
<1>3. Cardinality(c.keys) = Cardinality(Lows)
  BY <1>1, <1>2 DEF Sound, Full
<1>4. QED
  BY <1>1, <1>3, KeysCounted

\* An exact count of nothing means that the container is empty.
LEMMA ZeroIsEmpty ==
  ASSUME NEW c, Exact(c)
  PROVE  c.count = 0 <=> c.keys = {}
BY KeysCounted DEF Exact, Sound, Containers

\* Only a bitset is ever stale.
LEMMA OthersExact ==
  ASSUME NEW c, Sound(c), c.kind # "bitset"
  PROVE  Exact(c)
BY DEF Exact, Sound

-----------------------------------------------------------------------------
\* The kernels of the folds and of the set operations.

\* A union that counts.
LEMMA UnionsExact ==
  ASSUME NEW l, NEW r, Sound(l), Sound(r), NEW c \in Unions(l, r)
  PROVE  Exact(c) /\ c.keys = l.keys \cup r.keys
<1>1. l.keys \cup r.keys \in SUBSET Lows
  BY DEF Sound, Containers
<1>2. QED
  BY <1>1, FormsExact, MadeExact DEF Unions

\* A union in a fold: bits are added under a count that was not too high.
LEMMA FoldOrSound ==
  ASSUME NEW l, NEW r, Sound(l), Exact(r), NEW c \in FoldOr(l, r)
  PROVE  Sound(c) /\ c.keys = l.keys \cup r.keys
<1> DEFINE S == l.keys \cup r.keys
<1>1. /\ l \in Containers /\ r \in Containers /\ Sound(r)
      /\ l.keys \in SUBSET Lows /\ r.keys \in SUBSET Lows /\ S \in SUBSET Lows
      /\ l.kind \in {"array", "bitset", "run"} /\ r.kind \in {"array", "bitset", "run"}
  BY DEF Sound, Exact, Containers
<1>2. CASE Full(l)
  <2>1. c = l
    BY <1>2 DEF FoldOr
  <2>2. QED
    BY <1>1, <1>2, <2>1, FullIsAll
<1>3. CASE ~Full(l) /\ "run" \in Kinds(l, r)
  <2>1. c \in Unions(Settled(l), r)
    BY <1>3 DEF FoldOr
  <2>2. Sound(Settled(l)) /\ Settled(l).keys = l.keys
    BY SettledExact DEF Exact
  <2>3. QED
    BY <1>1, <2>1, <2>2, UnionsExact DEF Exact
<1>4. CASE /\ ~Full(l) /\ "run" \notin Kinds(l, r) /\ Kinds(l, r) = {"array"}
           /\ l.count + r.count <= UnionArrayMax
  <2>1. c = Container("array", S)
    BY <1>4 DEF FoldOr
  <2>2. QED
    BY <1>1, <2>1, MadeExact DEF Exact
<1>5. CASE /\ ~Full(l) /\ "run" \notin Kinds(l, r)
           /\ ~(Kinds(l, r) = {"array"} /\ l.count + r.count <= UnionArrayMax)
  <2> DEFINE bits == IF l.kind = "bitset" THEN l ELSE AsBitset(l)
  <2>1. c = IF r.kind = "bitset" THEN OrCounted(bits, r) ELSE OrLazy(bits, r.keys)
    BY <1>5 DEF FoldOr
  <2>2. Sound(bits) /\ bits.keys = l.keys /\ bits.kind = "bitset"
    BY <1>1, MadeExact DEF AsBitset, Exact
  <2> HIDE DEF bits
  <2>3. CASE r.kind = "bitset"
    <3>1. CASE Full(bits)
      BY <1>1, <2>1, <2>2, <2>3, <3>1, FullIsAll DEF OrCounted
    <3>2. CASE ~Full(bits)
      <4>1. c = Container("bitset", S)
        BY <2>1, <2>2, <2>3, <3>2 DEF OrCounted, AsBitset
      <4>2. QED
        BY <1>1, <4>1, MadeExact DEF Exact
    <3>3. QED
      BY <3>1, <3>2
  <2>4. CASE r.kind # "bitset"
    <3>1. CASE r.keys = {}
      BY <2>1, <2>2, <2>4, <3>1 DEF OrLazy
    <3>2. CASE r.keys # {}
      <4>1. c = [bits EXCEPT !.keys = S, !.stale = TRUE]
        BY <2>1, <2>2, <2>4, <3>2 DEF OrLazy
      <4>2. c = [kind |-> "bitset", keys |-> S, count |-> bits.count, stale |-> TRUE]
        BY <2>2, <4>1 DEF Sound, Containers
      <4>3. /\ bits.count \in 0..Cardinality(Lows)
            /\ bits.count <= Cardinality(bits.keys)
        <5>1. bits.count \in 0..Cardinality(Lows)
          BY <2>2 DEF Sound, Containers
        <5>2. QED
          BY <2>2, <5>1 DEF Sound
      <4>4. Cardinality(l.keys) <= Cardinality(S)
        BY <1>1, KeysCounted, FS_Subset
      <4>5. /\ Cardinality(l.keys) \in Nat /\ Cardinality(S) \in Nat
        BY <1>1, KeysCounted
      <4>6. bits.count <= Cardinality(S)
        BY <2>2, <4>3, <4>4, <4>5, BoundsAssumption
      <4>7. QED
        BY <1>1, <4>2, <4>3, <4>6 DEF Sound, Containers
    <3>3. QED
      BY <3>1, <3>2
  <2>5. QED
    BY <2>3, <2>4
<1>6. QED
  BY <1>2, <1>3, <1>4, <1>5

\* An exclusive-or that counts.
LEMMA XorPairExact ==
  ASSUME NEW l, NEW r, Exact(l), Exact(r), NEW c \in XorPair(l, r)
  PROVE  Exact(c) /\ c.keys = Symmetric(l.keys, r.keys)
<1> DEFINE S == Symmetric(l.keys, r.keys)
<1>1. S \in SUBSET Lows
  BY DEF Exact, Sound, Containers, Symmetric
<1>2. l.count = 0 => r.keys = S
  BY ZeroIsEmpty DEF Symmetric
<1>3. (c = r /\ l.count = 0) \/ c = Form(S) \/ c \in Forms(S)
  BY DEF XorPair
<1>4. QED
  BY <1>1, <1>2, <1>3, FormsExact

\* An exclusive-or in a fold: the count is given up where bits are cleared.
LEMMA FoldXorSound ==
  ASSUME NEW l, NEW r, Sound(l), Exact(r), NEW c \in FoldXor(l, r)
  PROVE  Sound(c) /\ c.keys = Symmetric(l.keys, r.keys)
<1> DEFINE S == Symmetric(l.keys, r.keys)
<1>1. /\ l \in Containers /\ r \in Containers /\ Sound(r)
      /\ l.keys \in SUBSET Lows /\ r.keys \in SUBSET Lows /\ S \in SUBSET Lows
      /\ S = Symmetric(r.keys, l.keys)
  BY DEF Sound, Exact, Containers, Symmetric
<1>2. ASSUME NEW b, Sound(b), b.kind = "bitset", NEW T, T \in SUBSET Lows,
             c = XorLazy(b, T), Symmetric(b.keys, T) = S
      PROVE  Sound(c) /\ c.keys = S
  <2>1. c = [kind |-> "bitset", keys |-> S, count |-> 0, stale |-> TRUE]
    BY <1>2 DEF XorLazy, Sound, Containers
  <2>2. Cardinality(S) \in Nat /\ Cardinality(Lows) \in Nat /\ 0 \in 0..Cardinality(Lows)
    BY <1>1, KeysCounted
  <2>3. QED
    BY <1>1, <2>1, <2>2 DEF Sound, Containers
<1>3. CASE l.kind = "bitset"
  <2>1. c = XorLazy(l, r.keys)
    BY <1>3 DEF FoldXor, Kinds
  <2>2. QED
    BY <1>1, <1>2, <1>3, <2>1
<1>4. CASE l.kind = "array" /\ r.kind = "bitset"
  <2>1. c = XorLazy(r, l.keys)
    BY <1>4 DEF FoldXor, Kinds
  <2>2. QED
    BY <1>1, <1>2, <1>4, <2>1
<1>5. CASE /\ l.kind # "bitset" /\ ~(l.kind = "array" /\ r.kind = "bitset")
           /\ Kinds(l, r) = {"array"} /\ l.count + r.count > XorArrayMax
  <2>1. c = XorLazy(AsBitset(l), r.keys)
    BY <1>5 DEF FoldXor
  <2>2. Sound(AsBitset(l)) /\ AsBitset(l).keys = l.keys /\ AsBitset(l).kind = "bitset"
    BY <1>1, MadeExact DEF AsBitset, Exact
  <2>3. QED
    BY <1>1, <1>2, <2>1, <2>2
<1>6. CASE /\ l.kind # "bitset" /\ ~(l.kind = "array" /\ r.kind = "bitset")
           /\ ~(Kinds(l, r) = {"array"} /\ l.count + r.count > XorArrayMax)
  <2>1. c \in XorPair(l, r)
    BY <1>6 DEF FoldXor
  <2>2. Exact(l)
    BY <1>6, OthersExact
  <2>3. QED
    BY <2>1, <2>2, XorPairExact DEF Exact
<1>7. QED
  BY <1>3, <1>4, <1>5, <1>6

-----------------------------------------------------------------------------
(***************************************************************************)
(* Tables.                                                                 *)
(***************************************************************************)
SoundTable(T) == DOMAIN T \subseteq Chunks /\ \A k \in DOMAIN T : Sound(T[k])
ExactTable(T) == DOMAIN T \subseteq Chunks /\ \A k \in DOMAIN T : Exact(T[k])

\* The keys of one chunk of a table, which may not hold it.
KeysAt(T, k) == IF k \in DOMAIN T THEN T[k].keys ELSE {}

\* The size a fold gives a bitmap is out of reach of any number of keys.
LEMMA RoomFits ==
  /\ Room \in Nat /\ 4 * Room < Deferred /\ Deferred \in Nat
  /\ IsFiniteSet(Chunks \X Lows) /\ Cardinality(Chunks \X Lows) = Room
<1> DEFINE C == Cardinality(Chunks)
           L == Cardinality(Lows)
<1>1. C \in Nat /\ L \in Nat
  BY BoundsAssumption, FS_CardinalityType
<1>2. 4 * C * L < Deferred
  BY BoundsAssumption
<1>3. IsFiniteSet(Chunks \X Lows) /\ Cardinality(Chunks \X Lows) = C * L
  BY BoundsAssumption, FS_Product
<1> HIDE DEF C, L
<1>4. C * L \in Nat /\ 4 * (C * L) = 4 * C * L
  BY <1>1
<1>5. QED
  BY <1>2, <1>3, <1>4, BoundsAssumption DEF Room, C, L

\* A settled table is one a fold may leave.
LEMMA ExactIsSound ==
  ASSUME NEW T, ExactTable(T)
  PROVE  SoundTable(T)
BY DEF ExactTable, SoundTable, Exact

\* The keys of a table, chunk by chunk.
LEMMA KeysByChunk ==
  ASSUME NEW T, SoundTable(T)
  PROVE  /\ KeysIn(T) = {p \in Chunks \X Lows : p[2] \in KeysAt(T, p[1])}
         /\ \A k, v : <<k, v>> \in KeysIn(T) <=> v \in KeysAt(T, k)
         /\ \A k \in Chunks : KeysAt(T, k) \in SUBSET Lows
         /\ IsFiniteSet(KeysIn(T)) /\ Cardinality(KeysIn(T)) \in 0..Room
<1>1. \A k \in DOMAIN T : k \in Chunks /\ T[k].keys \in SUBSET Lows
  BY DEF SoundTable, Sound, Containers
<1>2. \A k, v : <<k, v>> \in KeysIn(T) <=> v \in KeysAt(T, k)
  <2>1. \A k, v : <<k, v>> \in KeysIn(T) => k \in DOMAIN T /\ v \in T[k].keys
    BY DEF KeysIn
  <2>2. \A k, v : k \in DOMAIN T /\ v \in T[k].keys => <<k, v>> \in KeysIn(T)
    <3> SUFFICES ASSUME NEW k \in DOMAIN T, NEW v \in T[k].keys
                 PROVE  <<k, v>> \in KeysIn(T)
      OBVIOUS
    <3>1. <<k, v>> \in {k} \X T[k].keys
      OBVIOUS
    <3>2. QED
      BY <3>1 DEF KeysIn
  <2>3. QED
    BY <2>1, <2>2 DEF KeysAt
<1>3. \A p \in KeysIn(T) : p \in Chunks \X Lows /\ p = <<p[1], p[2]>>
  BY <1>1 DEF KeysIn
<1>4. KeysIn(T) = {p \in Chunks \X Lows : p[2] \in KeysAt(T, p[1])}
  <2>1. \A p \in Chunks \X Lows : p = <<p[1], p[2]>>
    OBVIOUS
  <2>2. QED
    BY <1>2, <1>3, <2>1
<1>5. KeysIn(T) \in SUBSET (Chunks \X Lows)
  BY <1>4
<1>6. IsFiniteSet(KeysIn(T)) /\ Cardinality(KeysIn(T)) <= Room
  BY <1>5, RoomFits, FS_Subset
<1>7. Cardinality(KeysIn(T)) \in Nat
  BY <1>6, FS_CardinalityType
<1>8. QED
  BY <1>1, <1>2, <1>4, <1>6, <1>7, RoomFits DEF KeysAt

\* When the counts are exact, they add up to the number of keys.
LEMMA CountedIsKeys ==
  ASSUME NEW T, ExactTable(T)
  PROVE  Counted(T) = Cardinality(KeysIn(T))
<1> DEFINE L == Cardinality(Lows)
           Places == {place \in (DOMAIN T) \X (1..L) : place[2] <= T[place[1]].count}
           Numbers(k) == 1..Cardinality(T[k].keys)
           number == [k \in DOMAIN T |-> CHOOSE f : f \in Bijection(Numbers(k), T[k].keys)]
           pair == [place \in Places |-> <<place[1], number[place[1]][place[2]]>>]
<1>1. /\ SoundTable(T) /\ L \in Nat
      /\ \A k \in DOMAIN T : T[k].keys \in SUBSET Lows /\ T[k].count = Cardinality(T[k].keys)
  BY ExactIsSound, BoundsAssumption, FS_CardinalityType DEF ExactTable, Exact, Sound, Containers
<1>2. \A k \in DOMAIN T : IsFiniteSet(T[k].keys) /\ Cardinality(T[k].keys) \in 0..L
  BY <1>1, KeysCounted
<1>3. \A k \in DOMAIN T : number[k] \in Bijection(Numbers(k), T[k].keys)
  <2> SUFFICES ASSUME NEW k \in DOMAIN T PROVE number[k] \in Bijection(Numbers(k), T[k].keys)
    OBVIOUS
  <2>1. ExistsBijection(Numbers(k), T[k].keys)
    BY <1>2, FS_CardinalityType
  <2>2. \E f : f \in Bijection(Numbers(k), T[k].keys)
    BY <2>1 DEF ExistsBijection
  <2>3. QED
    BY <2>2
<1> HIDE DEF number
<1>4. \A p : p \in Places <=> /\ p = <<p[1], p[2]>> /\ p[1] \in DOMAIN T
                              /\ p[2] \in Numbers(p[1])
  <2>1. \A p \in Places : p = <<p[1], p[2]>> /\ p[1] \in DOMAIN T /\ p[2] \in Numbers(p[1])
    BY <1>1, <1>2
  <2>2. ASSUME NEW p, p = <<p[1], p[2]>>, p[1] \in DOMAIN T, p[2] \in Numbers(p[1])
        PROVE  p \in Places
    <3>1. p[2] \in 1..L /\ p[2] <= T[p[1]].count
      BY <1>1, <1>2, <2>2
    <3>2. p \in (DOMAIN T) \X (1..L)
      BY <2>2, <3>1
    <3>3. QED
      BY <3>1, <3>2
  <2>3. QED
    BY <2>1, <2>2
<1> HIDE DEF Places, Numbers
<1>5. \A k \in DOMAIN T :
         /\ \A i \in Numbers(k) : number[k][i] \in T[k].keys
         /\ \A i, j \in Numbers(k) : number[k][i] = number[k][j] => i = j
         /\ \A v \in T[k].keys : \E i \in Numbers(k) : number[k][i] = v
  BY <1>3 DEF Bijection, Injection, IsInjective, Surjection
<1>6. \A k, v : <<k, v>> \in KeysIn(T) <=> k \in DOMAIN T /\ v \in T[k].keys
  BY <1>1, KeysByChunk DEF KeysAt
<1>7. \A p \in Places : pair[p] = <<p[1], number[p[1]][p[2]]>> /\ pair[p] \in KeysIn(T)
  BY <1>4, <1>5, <1>6
<1>8. pair \in Injection(Places, KeysIn(T))
  <2>1. pair \in [Places -> KeysIn(T)]
    BY <1>7
  <2>2. ASSUME NEW p \in Places, NEW q \in Places, pair[p] = pair[q]
        PROVE  p = q
    <3>1. p[1] = q[1] /\ number[p[1]][p[2]] = number[q[1]][q[2]]
      BY <1>7, <2>2
    <3>2. p[1] \in DOMAIN T /\ p[2] \in Numbers(p[1]) /\ q[2] \in Numbers(p[1])
      BY <1>4, <3>1
    <3>3. p[2] = q[2]
      BY <1>5, <3>1, <3>2
    <3>4. QED
      BY <1>4, <3>1, <3>3
  <2>3. QED
    BY <2>1, <2>2 DEF Injection, IsInjective
<1>9. pair \in Surjection(Places, KeysIn(T))
  <2>1. ASSUME NEW t \in KeysIn(T) PROVE \E p \in Places : pair[p] = t
    <3>1. t = <<t[1], t[2]>>
      BY <1>1, KeysByChunk
    <3>2. t[1] \in DOMAIN T /\ t[2] \in T[t[1]].keys
      BY <1>6, <3>1
    <3>3. PICK i \in Numbers(t[1]) : number[t[1]][i] = t[2]
      BY <1>5, <3>2
    <3>4. <<t[1], i>> \in Places
      BY <1>4, <3>2, <3>3
    <3>5. pair[<<t[1], i>>] = t
      BY <1>7, <3>1, <3>3, <3>4
    <3>6. QED
      BY <3>4, <3>5
  <2>2. pair \in [Places -> KeysIn(T)]
    BY <1>7
  <2>3. QED
    BY <2>1, <2>2 DEF Surjection
<1>10. IsFiniteSet(KeysIn(T))
  BY <1>1, KeysByChunk
<1>11. Cardinality(Places) = Cardinality(KeysIn(T))
  BY <1>8, <1>9, <1>10, FS_Injection
<1>12. Counted(T) = Cardinality(Places)
  BY DEF Counted, Places
<1>13. QED
  BY <1>11, <1>12

\* A table whose chunks each hold the union, exclusive-or, intersection or
\* difference of those of two tables holds that of their keys.
LEMMA KeysCombine ==
  ASSUME NEW T, NEW A, NEW B, SoundTable(T), SoundTable(A), SoundTable(B)
  PROVE  /\ (\A k \in Chunks : KeysAt(T, k) = KeysAt(A, k) \cup KeysAt(B, k))
               => KeysIn(T) = KeysIn(A) \cup KeysIn(B)
         /\ (\A k \in Chunks : KeysAt(T, k) = Symmetric(KeysAt(A, k), KeysAt(B, k)))
               => KeysIn(T) = Symmetric(KeysIn(A), KeysIn(B))
         /\ (\A k \in Chunks : KeysAt(T, k) = KeysAt(A, k) \cap KeysAt(B, k))
               => KeysIn(T) = KeysIn(A) \cap KeysIn(B)
         /\ (\A k \in Chunks : KeysAt(T, k) = KeysAt(A, k) \ KeysAt(B, k))
               => KeysIn(T) = KeysIn(A) \ KeysIn(B)
         /\ (\A k \in Chunks : KeysAt(T, k) = KeysAt(A, k)) => KeysIn(T) = KeysIn(A)
<1> DEFINE Pairs(X) == {p \in Chunks \X Lows : p[2] \in KeysAt(X, p[1])}
<1>1. KeysIn(T) = Pairs(T) /\ KeysIn(A) = Pairs(A) /\ KeysIn(B) = Pairs(B)
  BY KeysByChunk
<1>2. \A p \in Chunks \X Lows : p[1] \in Chunks
  OBVIOUS
<1>3. (\A k \in Chunks : KeysAt(T, k) = KeysAt(A, k) \cup KeysAt(B, k))
         => KeysIn(T) = KeysIn(A) \cup KeysIn(B)
  BY <1>1, <1>2
<1>4. (\A k \in Chunks : KeysAt(T, k) = Symmetric(KeysAt(A, k), KeysAt(B, k)))
         => KeysIn(T) = Symmetric(KeysIn(A), KeysIn(B))
  BY <1>1, <1>2 DEF Symmetric
<1>5. (\A k \in Chunks : KeysAt(T, k) = KeysAt(A, k) \cap KeysAt(B, k))
         => KeysIn(T) = KeysIn(A) \cap KeysIn(B)
  BY <1>1, <1>2
<1>6. (\A k \in Chunks : KeysAt(T, k) = KeysAt(A, k) \ KeysAt(B, k))
         => KeysIn(T) = KeysIn(A) \ KeysIn(B)
  BY <1>1, <1>2
<1>7. (\A k \in Chunks : KeysAt(T, k) = KeysAt(A, k)) => KeysIn(T) = KeysIn(A)
  BY <1>1, <1>2
<1>8. QED
  BY <1>3, <1>4, <1>5, <1>6, <1>7

-----------------------------------------------------------------------------
(***************************************************************************)
(* The bitmap between two calls.                                           *)
(***************************************************************************)
\* The bitmaps the program combines with are finished, and hold no empty chunk.
LEMMA OperandIsExact ==
  ASSUME NEW other \in Operands
  PROVE  /\ ExactTable(other) /\ SoundTable(other)
         /\ \A k \in DOMAIN other : other[k].keys # {}
<1>1. DOMAIN other \subseteq Chunks
  BY OperandsAssumption
<1>2. ASSUME NEW k \in DOMAIN other
      PROVE  Exact(other[k]) /\ other[k].keys # {}
  <2>1. /\ other[k] = Container(other[k].kind, other[k].keys)
        /\ other[k] \in Containers /\ other[k].keys # {}
    BY OperandsAssumption
  <2>2. other[k].keys \in SUBSET Lows /\ other[k].kind \in {"array", "bitset", "run"}
    BY <2>1 DEF Containers
  <2>3. Exact(Container(other[k].kind, other[k].keys))
    BY <2>2, MadeExact
  <2>4. QED
    BY <2>1, <2>3
<1>3. ExactTable(other)
  BY <1>1, <1>2 DEF ExactTable
<1>4. QED
  BY <1>2, <1>3, ExactIsSound

\* The table of the bitmap, its keys, and whether its size is known.
LEMMA AtRest ==
  ASSUME IInv
  PROVE  /\ SoundTable(chunks) /\ KeysIn(chunks) = model
         /\ Cardinality(model) \in 0..Room /\ IsFiniteSet(model) /\ size \in Int
         /\ ~CountsDeferred => ExactTable(chunks) /\ size = Cardinality(model)
         /\ CountsDeferred => size - Cardinality(model) \in (Deferred - Room)..Deferred
         /\ shared \in BOOLEAN /\ (shared => sharing) /\ awaits \in {"nothing", "or", "xor"}
<1>1. TypeOK /\ StoredNotAbove /\ KeysIn(chunks) = model /\ SizeIsKnown
  BY DEF IInv, KeysAreModel
<1>2. SoundTable(chunks)
  BY <1>1 DEF TypeOK, StoredNotAbove, SoundTable, Sound
<1>3. Cardinality(model) \in 0..Room /\ IsFiniteSet(model) /\ size \in Int
  BY <1>1, <1>2, KeysByChunk DEF TypeOK
<1>4. ASSUME size - Cardinality(model) \in (Deferred - Room)..Deferred
      PROVE  CountsDeferred
  BY <1>3, <1>4, RoomFits DEF CountsDeferred
<1>5. ASSUME size = Cardinality(model)
      PROVE  ~CountsDeferred
  BY <1>3, <1>5, RoomFits DEF CountsDeferred
<1>6. ~CountsDeferred => ExactTable(chunks) /\ size = Cardinality(model)
  BY <1>1, <1>2, <1>4 DEF SizeIsKnown, SoundTable, ExactTable, Exact
<1>7. CountsDeferred => size - Cardinality(model) \in (Deferred - Room)..Deferred
  BY <1>1, <1>5 DEF SizeIsKnown
<1>8. QED
  BY <1>1, <1>2, <1>3, <1>6, <1>7 DEF TypeOK

\* The repair settles every container and leaves the keys.
LEMMA RepairedExact ==
  ASSUME NEW T, SoundTable(T)
  PROVE  /\ ExactTable(Repaired(T)) /\ DOMAIN Repaired(T) = DOMAIN T
         /\ \A k \in DOMAIN T : /\ Repaired(T)[k].keys = T[k].keys
                                /\ Repaired(T)[k].kind = T[k].kind
         /\ KeysIn(Repaired(T)) = KeysIn(T)
<1>1. DOMAIN Repaired(T) = DOMAIN T
  BY DEF Repaired
<1>2. \A k \in DOMAIN T : /\ Exact(Repaired(T)[k]) /\ Repaired(T)[k].keys = T[k].keys
                          /\ Repaired(T)[k].kind = T[k].kind
  BY SettledExact DEF SoundTable, Repaired, Exact
<1>3. ExactTable(Repaired(T))
  BY <1>1, <1>2 DEF ExactTable, SoundTable
<1>4. \A k \in Chunks : KeysAt(Repaired(T), k) = KeysAt(T, k)
  BY <1>1, <1>2 DEF KeysAt
<1>5. KeysIn(Repaired(T)) = KeysIn(T)
  BY <1>3, <1>4, ExactIsSound, KeysCombine
<1>6. QED
  BY <1>1, <1>2, <1>3, <1>5

\* settle_counts() at the entry of a call: the counts and the size are exact.
LEMMA EntryExact ==
  ASSUME IInv
  PROVE  /\ ExactTable(Entry.chunks) /\ SoundTable(Entry.chunks)
         /\ KeysIn(Entry.chunks) = model
         /\ DOMAIN Entry.chunks = DOMAIN chunks
         /\ \A k \in DOMAIN chunks : Entry.chunks[k].keys = chunks[k].keys
         /\ Entry.size = Cardinality(model) /\ Counted(Entry.chunks) = Cardinality(model)
         /\ Entry.shared \in BOOLEAN /\ (Entry.shared => sharing)
<1>1. /\ Entry.chunks = IF CountsDeferred THEN Repaired(chunks) ELSE chunks
      /\ Entry.size = IF CountsDeferred THEN Counted(Repaired(chunks)) ELSE size
      /\ Entry.shared = (shared /\ ~CountsDeferred)
  BY DEF Entry
<1>2. CASE CountsDeferred
  BY <1>1, <1>2, AtRest, RepairedExact, CountedIsKeys, ExactIsSound
<1>3. CASE ~CountsDeferred
  BY <1>1, <1>3, AtRest, CountedIsKeys, ExactIsSound
<1>4. QED
  BY <1>2, <1>3

\* A call that leaves a settled table and its size keeps the invariant.
LEMMA LandsExact ==
  ASSUME IInv, NEW T, ExactTable(T), chunks' = T,
         size' = Cardinality(KeysIn(T)), model' = KeysIn(T),
         sharing' = sharing, shared' \in BOOLEAN, shared' => sharing,
         awaits' \in {"nothing", "or", "xor"},
         ~sharing /\ awaits' # "xor" => \A k \in DOMAIN T : T[k].keys # {}
  PROVE  IInv'
<1>1. SoundTable(T)
  BY ExactIsSound
<1>2. Cardinality(KeysIn(T)) \in 0..Room /\ KeysIn(T) \subseteq Chunks \X Lows
  BY <1>1, KeysByChunk
<1>3. TypeOK'
  BY <1>1, <1>2, RoomFits DEF IInv, TypeOK, SoundTable, Sound
<1>4. StoredNotAbove'
  BY DEF StoredNotAbove, ExactTable, Exact, Sound
<1>5. KeysAreModel' /\ SizeIsKnown'
  BY DEF KeysAreModel, SizeIsKnown, KeysIn, ExactTable, Exact
<1>6. OnlyXorLeavesEmptyChunks'
  BY DEF OnlyXorLeavesEmptyChunks
<1>7. QED
  BY <1>3, <1>4, <1>5, <1>6 DEF IInv

\* So does one that leaves stale counts and moves an inexact size with its keys.
LEMMA LandsMoved ==
  ASSUME IInv, NEW T, SoundTable(T), chunks' = T, model' = KeysIn(T), size' \in Int,
         \/ size' - Cardinality(KeysIn(T)) \in (Deferred - Room)..Deferred
         \/ size' = Cardinality(KeysIn(T)) /\ ExactTable(T),
         sharing' = sharing, shared' \in BOOLEAN, shared' => sharing,
         awaits' \in {"nothing", "or", "xor"},
         ~sharing /\ awaits' # "xor" => \A k \in DOMAIN T : T[k].keys # {}
  PROVE  IInv'
<1>1. CASE size' = Cardinality(KeysIn(T)) /\ ExactTable(T)
  BY <1>1, LandsExact
<1>2. CASE size' - Cardinality(KeysIn(T)) \in (Deferred - Room)..Deferred
  <2>1. Cardinality(KeysIn(T)) \in 0..Room /\ KeysIn(T) \subseteq Chunks \X Lows
    BY KeysByChunk
  <2>2. size' \in 0..(2 * Deferred)
    BY <1>2, <2>1, RoomFits
  <2>3. TypeOK'
    BY <2>1, <2>2 DEF IInv, TypeOK, SoundTable, Sound
  <2>4. StoredNotAbove'
    BY DEF StoredNotAbove, SoundTable, Sound
  <2>5. KeysAreModel' /\ SizeIsKnown'
    BY <1>2 DEF KeysAreModel, SizeIsKnown, KeysIn
  <2>6. OnlyXorLeavesEmptyChunks'
    BY DEF OnlyXorLeavesEmptyChunks
  <2>7. QED
    BY <2>3, <2>4, <2>5, <2>6 DEF IInv
<1>3. QED
  BY <1>1, <1>2

\* And one that leaves the bitmap alone, where it holds no more than the finisher
\* it calls for allows.
LEMMA LandsUntouched ==
  ASSUME IInv, Untouched, model' = model, sharing' = sharing,
         awaits' \in {"nothing", "or", "xor"}, sharing \/ awaits' = "xor" \/ awaits # "xor"
  PROVE  IInv'
<1>1. chunks' = chunks /\ size' = size /\ shared' = shared
  BY DEF Untouched
<1>2. OnlyXorLeavesEmptyChunks'
  BY <1>1 DEF IInv, OnlyXorLeavesEmptyChunks
<1>3. QED
  BY <1>1, <1>2 DEF IInv, TypeOK, StoredNotAbove, KeysAreModel, SizeIsKnown, KeysIn

\* And one that ends with the bitmap as settle_counts() left it.
LEMMA LandsAtEntry ==
  ASSUME IInv, Leaves(Entry), model' = model, sharing' = sharing, awaits' = awaits
  PROVE  IInv'
<1>1. chunks' = Entry.chunks /\ size' = Entry.size /\ shared' = Entry.shared
  BY DEF Leaves, Becomes
<1>2. awaits \in {"nothing", "or", "xor"}
  BY AtRest
<1>3. ~sharing /\ awaits # "xor" => \A k \in DOMAIN Entry.chunks : Entry.chunks[k].keys # {}
  BY EntryExact DEF IInv, OnlyXorLeavesEmptyChunks
<1>4. QED
  BY <1>1, <1>2, <1>3, EntryExact, LandsExact

-----------------------------------------------------------------------------
(***************************************************************************)
(* The folds.                                                              *)
(***************************************************************************)
\* A table folded with another holds the union of their keys.
LEMMA FoldedOr ==
  ASSUME NEW A, SoundTable(A), NEW other \in Operands,
         NEW T, DOMAIN T = DOMAIN A \cup DOMAIN other,
         \A k \in DOMAIN A \ DOMAIN other : T[k] = A[k],
         \A k \in DOMAIN other \ DOMAIN A : T[k] = other[k],
         \A k \in DOMAIN A \cap DOMAIN other : T[k] \in FoldOr(A[k], other[k])
  PROVE  /\ SoundTable(T) /\ KeysIn(T) = KeysIn(A) \cup KeysIn(other)
         /\ (\A k \in DOMAIN A : A[k].keys # {}) => \A k \in DOMAIN T : T[k].keys # {}
<1>1. /\ ExactTable(other) /\ SoundTable(other)
      /\ \A k \in DOMAIN other : other[k].keys # {}
  BY OperandIsExact
<1>2. \A k \in DOMAIN T : Sound(T[k])
  BY <1>1, FoldOrSound DEF SoundTable, ExactTable
<1>3. SoundTable(T)
  BY <1>1, <1>2 DEF SoundTable
<1>4. \A k \in DOMAIN A \cap DOMAIN other : T[k].keys = A[k].keys \cup other[k].keys
  BY <1>1, FoldOrSound DEF SoundTable, ExactTable
<1>5. \A k \in Chunks : KeysAt(T, k) = KeysAt(A, k) \cup KeysAt(other, k)
  BY <1>4 DEF KeysAt
<1>6. KeysIn(T) = KeysIn(A) \cup KeysIn(other)
  BY <1>1, <1>3, <1>5, KeysCombine
<1>7. QED
  BY <1>1, <1>3, <1>4, <1>6

\* And by the other fold, of their exclusive-or.
LEMMA FoldedXor ==
  ASSUME NEW A, SoundTable(A), NEW other \in Operands,
         NEW T, DOMAIN T = DOMAIN A \cup DOMAIN other,
         \A k \in DOMAIN A \ DOMAIN other : T[k] = A[k],
         \A k \in DOMAIN other \ DOMAIN A : T[k] = other[k],
         \A k \in DOMAIN A \cap DOMAIN other : T[k] \in FoldXor(A[k], other[k])
  PROVE  SoundTable(T) /\ KeysIn(T) = Symmetric(KeysIn(A), KeysIn(other))
<1>1. ExactTable(other) /\ SoundTable(other)
  BY OperandIsExact
<1>2. \A k \in DOMAIN T : Sound(T[k])
  BY <1>1, FoldXorSound DEF SoundTable, ExactTable
<1>3. SoundTable(T)
  BY <1>1, <1>2 DEF SoundTable
<1>4. \A k \in DOMAIN A \cap DOMAIN other : T[k].keys = Symmetric(A[k].keys, other[k].keys)
  BY <1>1, FoldXorSound DEF SoundTable, ExactTable
<1>5. \A k \in Chunks : KeysAt(T, k) = Symmetric(KeysAt(A, k), KeysAt(other, k))
  BY <1>4 DEF KeysAt, Symmetric
<1>6. KeysIn(T) = Symmetric(KeysIn(A), KeysIn(other))
  BY <1>1, <1>3, <1>5, KeysCombine
<1>7. QED
  BY <1>3, <1>6

\* A fold leaves the size deferred, or finds that it adds nothing.
LEMMA FoldKeeps ==
  ASSUME IInv, NEW other \in Operands,
         bulk_or_inplace(other) \/ bulk_xor_intermediate(other)
  PROVE  IInv'
<1>1. /\ SoundTable(chunks) /\ KeysIn(chunks) = model /\ shared \in BOOLEAN /\ (shared => sharing)
      /\ awaits \in {"nothing", "or", "xor"}
  BY AtRest
<1>2. /\ awaits' \in {"nothing", "or", "xor"} /\ sharing' = sharing
      /\ awaits' # "xor" => awaits # "xor"
  BY DEF bulk_or_inplace, bulk_xor_intermediate
<1>3. ASSUME NEW T, SoundTable(T), Becomes(T, Deferred, FALSE), model' = KeysIn(T),
             ~sharing /\ awaits' # "xor" => \A k \in DOMAIN T : T[k].keys # {}
      PROVE  IInv'
  <2>1. chunks' = T /\ size' = Deferred /\ shared' = FALSE
    BY <1>3 DEF Becomes
  <2>2. Cardinality(KeysIn(T)) \in 0..Room
    BY <1>3, KeysByChunk
  <2>3. Deferred \in Int /\ Deferred - Cardinality(KeysIn(T)) \in (Deferred - Room)..Deferred
    BY <2>2, RoomFits
  <2>4. QED
    BY <1>2, <1>3, <2>1, <2>3, LandsMoved
<1>4. CASE bulk_or_inplace(other)
  <2>1. model' = model \cup KeysIn(other)
    BY <1>4 DEF bulk_or_inplace, Models
  <2>2. CASE shared /\ ~CountsDeferred /\ KeysIn(other) \subseteq KeysIn(chunks)
    <3>1. Untouched /\ model' = model
      BY <1>1, <1>4, <2>1, <2>2 DEF bulk_or_inplace
    <3>2. QED
      BY <1>1, <1>2, <2>2, <3>1, LandsUntouched
  <2>3. CASE ~(shared /\ ~CountsDeferred /\ KeysIn(other) \subseteq KeysIn(chunks))
    <3>1. PICK T \in FoldedWith(other, FoldOr) : Becomes(T, Deferred, FALSE)
      BY <1>4, <2>3 DEF bulk_or_inplace
    <3>2. /\ DOMAIN T = DOMAIN chunks \cup DOMAIN other
          /\ \A k \in DOMAIN chunks \ DOMAIN other : T[k] = chunks[k]
          /\ \A k \in DOMAIN other \ DOMAIN chunks : T[k] = other[k]
          /\ \A k \in DOMAIN chunks \cap DOMAIN other : T[k] \in FoldOr(chunks[k], other[k])
      BY DEF FoldedWith, TablesOf
    <3>3. /\ SoundTable(T) /\ KeysIn(T) = model'
          /\ (\A k \in DOMAIN chunks : chunks[k].keys # {}) => \A k \in DOMAIN T : T[k].keys # {}
      BY <1>1, <2>1, <3>2, FoldedOr
    <3>4. ~sharing /\ awaits' # "xor" => \A k \in DOMAIN T : T[k].keys # {}
      BY <1>2, <3>3 DEF IInv, OnlyXorLeavesEmptyChunks
    <3>5. QED
      BY <1>3, <3>1, <3>3, <3>4
  <2>4. QED
    BY <2>2, <2>3
<1>5. CASE bulk_xor_intermediate(other)
  <2>1. model' = Symmetric(model, KeysIn(other)) /\ awaits' = "xor"
    BY <1>5 DEF bulk_xor_intermediate, Models
  <2>2. CASE shared /\ DOMAIN other = {}
    <3>1. KeysIn(other) = {}
      BY <2>2 DEF KeysIn
    <3>2. Untouched /\ model' = model
      BY <1>5, <2>1, <2>2, <3>1 DEF bulk_xor_intermediate, Symmetric
    <3>3. QED
      BY <1>2, <2>1, <3>2, LandsUntouched
  <2>3. CASE ~(shared /\ DOMAIN other = {})
    <3>1. PICK T \in FoldedWith(other, FoldXor) : Becomes(T, Deferred, FALSE)
      BY <1>5, <2>3 DEF bulk_xor_intermediate
    <3>2. /\ DOMAIN T = DOMAIN chunks \cup DOMAIN other
          /\ \A k \in DOMAIN chunks \ DOMAIN other : T[k] = chunks[k]
          /\ \A k \in DOMAIN other \ DOMAIN chunks : T[k] = other[k]
          /\ \A k \in DOMAIN chunks \cap DOMAIN other : T[k] \in FoldXor(chunks[k], other[k])
      BY DEF FoldedWith, TablesOf
    <3>3. SoundTable(T) /\ KeysIn(T) = model'
      BY <1>1, <2>1, <3>2, FoldedXor
    <3>4. QED
      BY <1>3, <2>1, <3>1, <3>3
  <2>4. QED
    BY <2>2, <2>3
<1>6. QED
  BY <1>4, <1>5

-----------------------------------------------------------------------------
(***************************************************************************)
(* The finishers, and optimize.                                            *)
(***************************************************************************)
\* What a finisher makes of a settled container holds the same keys.
LEMMA FinishedForms ==
  ASSUME NEW c, Exact(c)
  PROVE  /\ \A d \in Forms(c.keys)  : Exact(d) /\ d.keys = c.keys
         /\ \A d \in KeepBitset(c)  : Exact(d) /\ d.keys = c.keys
         /\ \A d \in RepairForm(c)  : Exact(d) /\ d.keys = c.keys
<1>1. c.keys \in SUBSET Lows
  BY DEF Exact, Sound, Containers
<1>2. /\ \A d \in Forms(c.keys) : Exact(d) /\ d.keys = c.keys
      /\ \A d \in Runs(c.keys)  : Exact(d) /\ d.keys = c.keys
  BY <1>1, FormsExact
<1>3. Exact(Container("array", c.keys)) /\ Container("array", c.keys).keys = c.keys
  BY <1>1, MadeExact
<1>4. \A d \in KeepBitset(c) : Exact(d) /\ d.keys = c.keys
  BY <1>2 DEF KeepBitset
<1>5. \A d \in RepairForm(c) : Exact(d) /\ d.keys = c.keys
  BY <1>2, <1>3 DEF RepairForm, ReconsiderRuns
<1>6. QED
  BY <1>2, <1>4, <1>5

\* So a table of settled containers, each in a form of its own, holds the same.
LEMMA SameKeys ==
  ASSUME NEW A, ExactTable(A), NEW T, DOMAIN T = DOMAIN A,
         \A k \in DOMAIN A : Exact(T[k]) /\ T[k].keys = A[k].keys
  PROVE  ExactTable(T) /\ KeysIn(T) = KeysIn(A)
<1>1. ExactTable(T)
  BY DEF ExactTable
<1>2. \A k \in Chunks : KeysAt(T, k) = KeysAt(A, k)
  BY DEF KeysAt
<1>3. QED
  BY <1>1, <1>2, ExactIsSound, KeysCombine

\* Leaving out the chunks whose exact count is nothing leaves out no key.
LEMMA NonemptyKeeps ==
  ASSUME NEW T, ExactTable(T)
  PROVE  /\ ExactTable(Nonempty(T)) /\ KeysIn(Nonempty(T)) = KeysIn(T)
         /\ \A k \in DOMAIN Nonempty(T) : Nonempty(T)[k].keys # {}
<1>1. /\ DOMAIN Nonempty(T) = {k \in DOMAIN T : T[k].count # 0}
      /\ \A k \in DOMAIN Nonempty(T) : Nonempty(T)[k] = T[k]
  BY DEF Nonempty
<1>2. \A k \in DOMAIN T : T[k].count = 0 <=> T[k].keys = {}
  BY ZeroIsEmpty DEF ExactTable
<1>3. ExactTable(Nonempty(T))
  BY <1>1 DEF ExactTable
<1>4. \A k \in Chunks : KeysAt(Nonempty(T), k) = KeysAt(T, k)
  BY <1>1, <1>2 DEF KeysAt
<1>5. KeysIn(Nonempty(T)) = KeysIn(T)
  BY <1>3, <1>4, ExactIsSound, KeysCombine
<1>6. QED
  BY <1>1, <1>2, <1>3, <1>5

\* The end of a finisher that settled the table T, in the place of chunks.
LEMMA FinishKeeps ==
  ASSUME IInv, NEW T, Finish(T),
         ~(shared /\ ~CountsDeferred) => ExactTable(T) /\ KeysIn(T) = model,
         ~sharing => \A k \in DOMAIN T : T[k].keys # {}
  PROVE  IInv'
<1>1. awaits' = "nothing" /\ sharing' = sharing /\ model' = model
  BY DEF Finish
<1>2. shared => sharing
  BY AtRest
<1>3. CASE shared /\ ~CountsDeferred
  <2>1. Untouched
    BY <1>3 DEF Finish
  <2>2. QED
    BY <1>1, <1>2, <1>3, <2>1, LandsUntouched
<1>4. CASE ~(shared /\ ~CountsDeferred)
  <2>1. chunks' = T /\ size' = Counted(T) /\ shared' = FALSE
    BY <1>4 DEF Finish, Becomes
  <2>2. ExactTable(T) /\ KeysIn(T) = model /\ Counted(T) = Cardinality(KeysIn(T))
    BY <1>4, CountedIsKeys
  <2>3. QED
    BY <1>1, <2>1, <2>2, LandsExact
<1>5. QED
  BY <1>3, <1>4

\* The table a finisher makes, by the options it has for every container.
LEMMA FinishedTable ==
  ASSUME IInv, NEW T,
         IF shared /\ ~CountsDeferred THEN T = chunks
         ELSE /\ DOMAIN T = DOMAIN chunks
              /\ \A k \in DOMAIN chunks :
                    LET c == Repaired(chunks)[k]
                    IN  T[k] \in Forms(c.keys) \cup KeepBitset(c) \cup RepairForm(c)
  PROVE  /\ ~(shared /\ ~CountsDeferred) => ExactTable(T) /\ KeysIn(T) = model
         /\ ~sharing /\ awaits # "xor" => \A k \in DOMAIN T : T[k].keys # {}
<1>1. /\ SoundTable(chunks) /\ KeysIn(chunks) = model /\ (shared => sharing)
  BY AtRest
<1>2. /\ ExactTable(Repaired(chunks)) /\ DOMAIN Repaired(chunks) = DOMAIN chunks
      /\ \A k \in DOMAIN chunks : Repaired(chunks)[k].keys = chunks[k].keys
      /\ KeysIn(Repaired(chunks)) = model
  BY <1>1, RepairedExact
<1>3. CASE shared /\ ~CountsDeferred
  BY <1>1, <1>3
<1>4. CASE ~(shared /\ ~CountsDeferred)
  <2>1. \A k \in DOMAIN chunks : Exact(T[k]) /\ T[k].keys = Repaired(chunks)[k].keys
    BY <1>2, <1>4, FinishedForms DEF ExactTable
  <2>2. ExactTable(T) /\ KeysIn(T) = model
    BY <1>2, <1>4, <2>1, SameKeys
  <2>3. ~sharing /\ awaits # "xor" => \A k \in DOMAIN T : T[k].keys # {}
    BY <1>2, <1>4, <2>1 DEF IInv, OnlyXorLeavesEmptyChunks
  <2>4. QED
    BY <2>2, <2>3
<1>5. QED
  BY <1>3, <1>4

\* The finishers of unions find no empty chunk to drop, that of exclusive-ors
\* drops them.
LEMMA FinisherKeeps ==
  ASSUME IInv, Finisher
  PROVE  IInv'
<1> DEFINE Options(c) == Forms(c.keys) \cup KeepBitset(c) \cup RepairForm(c)
           Made(T) == IF shared /\ ~CountsDeferred THEN T = chunks
                      ELSE /\ DOMAIN T = DOMAIN chunks
                           /\ \A k \in DOMAIN chunks : T[k] \in Options(Repaired(chunks)[k])
<1>1. CASE bulk_or_finish \/ bulk_or_finish_keep_bitsets \/ bulk_or_repair_after_lazy
  <2>1. awaits # "xor"
    BY <1>1 DEF bulk_or_finish, bulk_or_finish_keep_bitsets, bulk_or_repair_after_lazy
  <2>2. PICK T : Made(T) /\ Finish(T)
    BY <1>1 DEF bulk_or_finish, bulk_or_finish_keep_bitsets, bulk_or_repair_after_lazy,
                FinishedBy, TablesOf
  <2>3. /\ ~(shared /\ ~CountsDeferred) => ExactTable(T) /\ KeysIn(T) = model
        /\ ~sharing => \A k \in DOMAIN T : T[k].keys # {}
    BY <2>1, <2>2, FinishedTable
  <2>4. QED
    BY <2>2, <2>3, FinishKeeps
<1>2. CASE bulk_xor_repair_after_lazy
  <2>1. PICK T : Made(T) /\ Finish(Nonempty(T))
    BY <1>2 DEF bulk_xor_repair_after_lazy, FinishedBy, TablesOf
  <2>2. ~(shared /\ ~CountsDeferred) => ExactTable(T) /\ KeysIn(T) = model
    BY <2>1, FinishedTable
  <2>3. shared => sharing
    BY AtRest
  <2>4. CASE shared /\ ~CountsDeferred
    BY <2>1, <2>3, <2>4, FinishKeeps
  <2>5. CASE ~(shared /\ ~CountsDeferred)
    BY <2>1, <2>2, <2>5, NonemptyKeeps, FinishKeeps
  <2>6. QED
    BY <2>4, <2>5
<1>3. QED
  BY <1>1, <1>2 DEF Finisher

\* optimize() changes forms only.
LEMMA OptimizeKeeps ==
  ASSUME IInv, optimize \/ optimize_keep_bitsets
  PROVE  IInv'
<1>1. sharing' = sharing /\ awaits' = awaits /\ model' = model
  BY DEF optimize, optimize_keep_bitsets, Optimize, Keeps
<1>2. PICK T : /\ DOMAIN T = DOMAIN chunks
               /\ \A k \in DOMAIN chunks :
                     T[k] \in Forms(Entry.chunks[k].keys) \cup KeepBitset(Entry.chunks[k])
               /\ Leaves(Entry) \/ Becomes(T, Entry.size, FALSE)
  BY DEF optimize, optimize_keep_bitsets, Optimize, TablesOf
<1>3. CASE Leaves(Entry)
  BY <1>1, <1>3, LandsAtEntry
<1>4. CASE Becomes(T, Entry.size, FALSE)
  <2>1. chunks' = T /\ size' = Entry.size /\ shared' = FALSE
    BY <1>4 DEF Becomes
  <2>2. /\ ExactTable(Entry.chunks) /\ KeysIn(Entry.chunks) = model
        /\ DOMAIN Entry.chunks = DOMAIN chunks /\ Entry.size = Cardinality(model)
        /\ \A k \in DOMAIN chunks : Entry.chunks[k].keys = chunks[k].keys
    BY EntryExact
  <2>3. \A k \in DOMAIN chunks : Exact(T[k]) /\ T[k].keys = Entry.chunks[k].keys
    BY <1>2, <2>2, FinishedForms DEF ExactTable
  <2>4. ExactTable(T) /\ KeysIn(T) = model
    BY <1>2, <2>2, <2>3, SameKeys
  <2>5. awaits \in {"nothing", "or", "xor"}
    BY AtRest
  <2>6. ~sharing /\ awaits' # "xor" => \A k \in DOMAIN T : T[k].keys # {}
    BY <1>1, <1>2, <2>2, <2>3 DEF IInv, OnlyXorLeavesEmptyChunks
  <2>7. QED
    BY <1>1, <2>1, <2>2, <2>4, <2>5, <2>6, LandsExact
<1>5. QED
  BY <1>2, <1>3, <1>4


-----------------------------------------------------------------------------
(***************************************************************************)
(* Single keys: the counts are not settled, but they move with the keys.   *)
(***************************************************************************)
\* A table with the container of one chunk replaced.
LEMMA WithChunk ==
  ASSUME NEW T, SoundTable(T), NEW k \in Chunks, NEW c, Sound(c)
  PROVE  /\ SoundTable(With(T, k, c)) /\ (ExactTable(T) /\ Exact(c) => ExactTable(With(T, k, c)))
         /\ \A j \in Chunks : KeysAt(With(T, k, c), j) = IF j = k THEN c.keys ELSE KeysAt(T, j)
<1>1. /\ DOMAIN With(T, k, c) = DOMAIN T \cup {k}
      /\ With(T, k, c)[k] = c
      /\ \A j \in DOMAIN T \ {k} : With(T, k, c)[j] = T[j]
  BY DEF With
<1>2. SoundTable(With(T, k, c))
  BY <1>1 DEF SoundTable
<1>3. ExactTable(T) /\ Exact(c) => ExactTable(With(T, k, c))
  BY <1>1 DEF ExactTable
<1>4. \A j \in Chunks : KeysAt(With(T, k, c), j) = IF j = k THEN c.keys ELSE KeysAt(T, j)
  BY <1>1 DEF KeysAt
<1>5. QED
  BY <1>2, <1>3, <1>4

\* A table without one chunk.
LEMMA WithoutChunk ==
  ASSUME NEW T, SoundTable(T), NEW k
  PROVE  /\ SoundTable(Without(T, k)) /\ (ExactTable(T) => ExactTable(Without(T, k)))
         /\ \A j \in Chunks : KeysAt(Without(T, k), j) = IF j = k THEN {} ELSE KeysAt(T, j)
<1>1. /\ DOMAIN Without(T, k) = DOMAIN T \ {k}
      /\ \A j \in DOMAIN T \ {k} : Without(T, k)[j] = T[j]
  BY DEF Without
<1>2. SoundTable(Without(T, k))
  BY <1>1 DEF SoundTable
<1>3. ExactTable(T) => ExactTable(Without(T, k))
  BY <1>1 DEF ExactTable
<1>4. \A j \in Chunks : KeysAt(Without(T, k), j) = IF j = k THEN {} ELSE KeysAt(T, j)
  BY <1>1 DEF KeysAt
<1>5. QED
  BY <1>2, <1>3, <1>4

\* One value more in a container: a stale count stays below the keys, an exact
\* one stays exact.
LEMMA AddedSound ==
  ASSUME NEW c, Sound(c), NEW v \in Lows, v \notin c.keys
  PROVE  /\ Sound(Added(c, v)) /\ Added(c, v).keys = c.keys \cup {v}
         /\ Exact(c) => Exact(Added(c, v))
<1> DEFINE S == c.keys \cup {v}
<1>1. /\ c \in Containers /\ c.keys \in SUBSET Lows /\ S \in SUBSET Lows
      /\ c.kind \in {"array", "bitset", "run"} /\ c.count \in Nat
  BY DEF Sound, Containers
<1>2. Cardinality(S) = Cardinality(c.keys) + 1 /\ Cardinality(S) <= Cardinality(Lows)
      /\ Cardinality(c.keys) \in Nat /\ Cardinality(Lows) \in Nat
  BY <1>1, KeysCounted, FS_AddElement, BoundsAssumption, FS_CardinalityType
<1>3. CASE c.kind = "bitset"
  <2>1. Added(c, v) = [c EXCEPT !.keys = S, !.count = c.count + 1]
    BY <1>3 DEF Added
  <2>2. Added(c, v) = [kind |-> "bitset", keys |-> S, count |-> c.count + 1, stale |-> c.stale]
    BY <1>1, <1>3, <2>1 DEF Containers
  <2>3. c.stale \in BOOLEAN
    BY <1>1 DEF Containers
  <2>4. CASE c.stale
    <3>1. c.count <= Cardinality(c.keys)
      BY <2>4 DEF Sound
    <3>2. c.count + 1 <= Cardinality(S) /\ c.count + 1 \in 0..Cardinality(Lows)
      BY <1>1, <1>2, <3>1
    <3>3. QED
      BY <1>1, <2>2, <2>4, <3>2 DEF Sound, Exact, Containers
  <2>5. CASE ~c.stale
    <3>1. c.count = Cardinality(c.keys)
      BY <2>5 DEF Sound
    <3>2. c.count + 1 = Cardinality(S) /\ c.count + 1 \in 0..Cardinality(Lows)
      BY <1>1, <1>2, <3>1
    <3>3. QED
      BY <1>1, <2>2, <2>3, <2>5, <3>2 DEF Sound, Exact, Containers
  <2>6. QED
    BY <2>4, <2>5
<1>4. CASE c.kind # "bitset"
  <2>1. \E kind \in {"array", "bitset", "run"} : Added(c, v) = Container(kind, S)
    BY <1>1, <1>4 DEF Added
  <2>2. QED
    BY <1>1, <2>1, MadeExact DEF Exact
<1>5. QED
  BY <1>3, <1>4

\* One value less: the count was settled first.
LEMMA RemovedExact ==
  ASSUME NEW c, Sound(c), NEW v \in c.keys
  PROVE  Exact(Removed(c, v)) /\ Removed(c, v).keys = c.keys \ {v}
<1> DEFINE S == c.keys \ {v}
           d == Settled(c)
<1>1. Exact(d) /\ d.keys = c.keys /\ d \in Containers /\ d.count = Cardinality(c.keys)
  BY SettledExact DEF Exact, Sound
<1>2. c.keys \in SUBSET Lows /\ S \in SUBSET Lows /\ d.kind \in {"array", "bitset", "run"}
  BY <1>1 DEF Sound, Containers
<1>3. Cardinality(S) = Cardinality(c.keys) - 1 /\ Cardinality(S) \in 0..Cardinality(Lows)
  BY <1>2, KeysCounted, FS_RemoveElement
<1>4. Removed(c, v) = [d EXCEPT !.keys = d.keys \ {v}, !.count = d.count - 1]
  BY DEF Removed
<1>5. ~d.stale
  BY <1>1 DEF Exact
<1> HIDE DEF d
<1>6. Removed(c, v) = [kind |-> d.kind, keys |-> S, count |-> Cardinality(S), stale |-> d.stale]
  BY <1>1, <1>3, <1>4 DEF Containers
<1>7. d.stale \in BOOLEAN
  BY <1>1 DEF Containers
<1>8. QED
  BY <1>2, <1>3, <1>5, <1>6, <1>7 DEF Exact, Sound, Containers


\* The keys of a table that gains, or loses, one value in one chunk.
LEMMA KeysWithOne ==
  ASSUME NEW T, NEW A, SoundTable(T), SoundTable(A), NEW k \in Chunks, NEW v \in Lows
  PROVE  /\ (\A j \in Chunks : KeysAt(T, j) = IF j = k THEN KeysAt(A, k) \cup {v}
                                                       ELSE KeysAt(A, j))
               => KeysIn(T) = KeysIn(A) \cup {<<k, v>>}
         /\ (\A j \in Chunks : KeysAt(T, j) = IF j = k THEN KeysAt(A, k) \ {v}
                                                       ELSE KeysAt(A, j))
               => KeysIn(T) = KeysIn(A) \ {<<k, v>>}
<1>1. /\ KeysIn(T) = {p \in Chunks \X Lows : p[2] \in KeysAt(T, p[1])}
      /\ KeysIn(A) = {p \in Chunks \X Lows : p[2] \in KeysAt(A, p[1])}
  BY KeysByChunk
<1>2. \A p \in Chunks \X Lows :
         /\ p[1] \in Chunks /\ p[2] \in Lows
         /\ p = <<k, v>> <=> p[1] = k /\ p[2] = v
  OBVIOUS
<1>3. <<k, v>> \in Chunks \X Lows
  OBVIOUS
<1>4. ASSUME \A j \in Chunks : KeysAt(T, j) = IF j = k THEN KeysAt(A, k) \cup {v}
                                                       ELSE KeysAt(A, j)
      PROVE  KeysIn(T) = KeysIn(A) \cup {<<k, v>>}
  <2>1. \A p \in Chunks \X Lows :
           p[2] \in KeysAt(T, p[1]) <=> p[2] \in KeysAt(A, p[1]) \/ p = <<k, v>>
    BY <1>2, <1>4
  <2>2. QED
    BY <1>1, <1>3, <2>1
<1>5. ASSUME \A j \in Chunks : KeysAt(T, j) = IF j = k THEN KeysAt(A, k) \ {v}
                                                       ELSE KeysAt(A, j)
      PROVE  KeysIn(T) = KeysIn(A) \ {<<k, v>>}
  <2>1. \A p \in Chunks \X Lows :
           p[2] \in KeysAt(T, p[1]) <=> p[2] \in KeysAt(A, p[1]) /\ p # <<k, v>>
    BY <1>2, <1>5
  <2>2. QED
    BY <1>1, <1>3, <2>1
<1>6. QED
  BY <1>4, <1>5

\* Adding one key in the middle of a fold or out of it.
LEMMA AddKeeps ==
  ASSUME IInv, NEW k \in Chunks, NEW v \in Lows, Add(k, v)
  PROVE  IInv'
<1> DEFINE c == IF k \in DOMAIN chunks THEN chunks[k] ELSE Container("array", {})
           T == With(chunks, k, Added(c, v))
<1>1. /\ SoundTable(chunks) /\ KeysIn(chunks) = model /\ (shared => sharing)
      /\ awaits \in {"nothing", "or", "xor"} /\ size \in Int
  BY AtRest
<1>2. model' = model \cup {<<k, v>>} /\ sharing' = sharing /\ awaits' = awaits
  BY DEF Add, Models, Keeps
<1>3. CASE <<k, v>> \in KeysIn(chunks)
  <2>1. Untouched /\ model' = model
    BY <1>1, <1>2, <1>3 DEF Add
  <2>2. QED
    BY <1>1, <1>2, <2>1, LandsUntouched
<1>4. CASE <<k, v>> \notin KeysIn(chunks)
  <2>1. chunks' = T /\ size' = size + 1 /\ shared' = FALSE
    BY <1>4 DEF Add, Becomes
  <2>2. Sound(c) /\ c.keys = KeysAt(chunks, k) /\ (ExactTable(chunks) => Exact(c))
    <3>1. Exact(Container("array", {})) /\ Container("array", {}).keys = {}
      BY MadeExact
    <3>2. QED
      BY <1>1, <3>1 DEF SoundTable, ExactTable, Exact, KeysAt
  <2>3. v \notin c.keys
    BY <1>1, <1>4, <2>2, KeysByChunk
  <2> HIDE DEF c
  <2>4. /\ Sound(Added(c, v)) /\ Added(c, v).keys = c.keys \cup {v}
        /\ Exact(c) => Exact(Added(c, v))
    BY <2>2, <2>3, AddedSound
  <2>5. /\ SoundTable(T) /\ (ExactTable(chunks) => ExactTable(T))
        /\ \A j \in Chunks : KeysAt(T, j) = IF j = k THEN c.keys \cup {v} ELSE KeysAt(chunks, j)
    BY <1>1, <2>2, <2>4, WithChunk
  <2>6. KeysIn(T) = model \cup {<<k, v>>}
    BY <1>1, <2>2, <2>5, KeysWithOne
  <2>7. Cardinality(KeysIn(T)) = Cardinality(model) + 1
    <3>1. <<k, v>> \notin model
      BY <1>1, <1>4
    <3>2. QED
      BY <2>6, <3>1, AtRest, FS_AddElement
  <2>8. \/ size' - Cardinality(KeysIn(T)) \in (Deferred - Room)..Deferred
        \/ size' = Cardinality(KeysIn(T)) /\ ExactTable(T)
    <3>1. Cardinality(model) \in Int
      BY AtRest
    <3>2. CASE CountsDeferred
      <4>1. size - Cardinality(model) \in (Deferred - Room)..Deferred
        BY <3>2, AtRest
      <4>2. size' - Cardinality(KeysIn(T)) = size - Cardinality(model)
        BY <1>1, <2>1, <2>7, <3>1
      <4>3. QED
        BY <4>1, <4>2
    <3>3. CASE ~CountsDeferred
      BY <2>1, <2>5, <2>7, <3>3, AtRest
    <3>4. QED
      BY <3>2, <3>3
  <2>9. ~sharing /\ awaits # "xor" => \A j \in DOMAIN T : T[j].keys # {}
    <3>1. \A j \in DOMAIN T : T[j] = IF j = k THEN Added(c, v) ELSE chunks[j]
      BY DEF With
    <3>2. \A j \in DOMAIN T : j = k \/ j \in DOMAIN chunks
      BY DEF With
    <3>3. QED
      BY <2>4, <3>1, <3>2 DEF IInv, OnlyXorLeavesEmptyChunks
  <2>10. size' \in Int
    BY <1>1, <2>1
  <2> HIDE DEF T
  <2>11. QED
    BY <1>1, <1>2, <2>1, <2>5, <2>6, <2>8, <2>9, <2>10, LandsMoved
<1>5. QED
  BY <1>3, <1>4

\* Removing one.
LEMMA RemoveKeeps ==
  ASSUME IInv, NEW k \in Chunks, NEW v \in Lows, Remove(k, v)
  PROVE  IInv'
<1> DEFINE c == Removed(chunks[k], v)
           T == IF c.count = 0 THEN Without(chunks, k) ELSE With(chunks, k, c)
<1>1. /\ SoundTable(chunks) /\ KeysIn(chunks) = model /\ (shared => sharing)
      /\ awaits \in {"nothing", "or", "xor"} /\ size \in Int
  BY AtRest
<1>2. model' = model \ {<<k, v>>} /\ sharing' = sharing /\ awaits' = awaits
  BY DEF Remove, Models, Keeps
<1>3. CASE <<k, v>> \notin KeysIn(chunks)
  <2>1. Untouched /\ model' = model
    BY <1>1, <1>2, <1>3 DEF Remove
  <2>2. QED
    BY <1>1, <1>2, <2>1, LandsUntouched
<1>4. CASE <<k, v>> \in KeysIn(chunks)
  <2>1. chunks' = T /\ size' = size - 1 /\ shared' = FALSE
    BY <1>4 DEF Remove, Becomes
  <2>2. k \in DOMAIN chunks /\ v \in chunks[k].keys /\ Sound(chunks[k])
    <3>1. v \in KeysAt(chunks, k)
      BY <1>1, <1>4, KeysByChunk
    <3>2. QED
      BY <1>1, <3>1 DEF KeysAt, SoundTable
  <2>3. Exact(c) /\ c.keys = KeysAt(chunks, k) \ {v} /\ (c.count = 0 => c.keys = {})
    <3>1. Exact(c) /\ c.keys = chunks[k].keys \ {v}
      BY <2>2, RemovedExact
    <3>2. QED
      BY <2>2, <3>1, ZeroIsEmpty DEF KeysAt
  <2> HIDE DEF c
  <2>4. /\ SoundTable(T) /\ (ExactTable(chunks) => ExactTable(T))
        /\ \A j \in Chunks : KeysAt(T, j) = IF j = k THEN KeysAt(chunks, k) \ {v} ELSE KeysAt(chunks, j)
    <3>1. CASE c.count = 0
      BY <1>1, <2>3, <3>1, WithoutChunk
    <3>2. CASE c.count # 0
      <4>1. Sound(c)
        BY <2>3 DEF Exact
      <4>2. QED
        BY <1>1, <2>3, <3>2, <4>1, WithChunk
    <3>3. QED
      BY <3>1, <3>2
  <2>5. KeysIn(T) = model \ {<<k, v>>}
    BY <1>1, <2>4, KeysWithOne
  <2>6. Cardinality(KeysIn(T)) = Cardinality(model) - 1
    BY <1>1, <1>4, <2>5, AtRest, FS_RemoveElement
  <2>7. \/ size' - Cardinality(KeysIn(T)) \in (Deferred - Room)..Deferred
        \/ size' = Cardinality(KeysIn(T)) /\ ExactTable(T)
    <3>1. Cardinality(model) \in Int
      BY AtRest
    <3>2. CASE CountsDeferred
      <4>1. size - Cardinality(model) \in (Deferred - Room)..Deferred
        BY <3>2, AtRest
      <4>2. size' - Cardinality(KeysIn(T)) = size - Cardinality(model)
        BY <1>1, <2>1, <2>6, <3>1
      <4>3. QED
        BY <4>1, <4>2
    <3>3. CASE ~CountsDeferred
      BY <2>1, <2>4, <2>6, <3>3, AtRest
    <3>4. QED
      BY <3>2, <3>3
  <2>8. ~sharing /\ awaits # "xor" => \A j \in DOMAIN T : T[j].keys # {}
    <3>1. c.count # 0 => c.keys # {}
      BY <2>3, ZeroIsEmpty
    <3>2. \A j \in DOMAIN T : j # k => j \in DOMAIN chunks /\ T[j] = chunks[j]
      BY DEF With, Without
    <3>3. \A j \in DOMAIN T : j = k => T[j] = c /\ c.count # 0
      BY DEF With, Without
    <3>4. QED
      BY <3>1, <3>2, <3>3 DEF IInv, OnlyXorLeavesEmptyChunks
  <2>9. size' \in Int
    BY <1>1, <2>1
  <2> HIDE DEF T
  <2>10. QED
    BY <1>1, <1>2, <2>1, <2>4, <2>5, <2>7, <2>8, <2>9, LandsMoved
<1>5. QED
  BY <1>3, <1>4


-----------------------------------------------------------------------------
(***************************************************************************)
(* The calls that settle the counts first and combine the bitmap with      *)
(* another.                                                                *)
(***************************************************************************)
\* What the other kernels make of two settled containers.
LEMMA KernelsExact ==
  ASSUME NEW l, NEW r, Exact(l), Exact(r)
  PROVE  /\ \A c \in Intersections(l, r) : Exact(c) /\ c.keys = l.keys \cap r.keys
         /\ \A c \in Differences(l, r) : Exact(c) /\ c.keys = l.keys \ r.keys
         /\ \A c \in Forms(l.keys \ r.keys) : Exact(c) /\ c.keys = l.keys \ r.keys
         /\ Exact(AddedAll(l, r.keys)) /\ AddedAll(l, r.keys).keys = l.keys \cup r.keys
<1>1. /\ l.keys \cap r.keys \in SUBSET Lows /\ l.keys \ r.keys \in SUBSET Lows
      /\ l.keys \cup r.keys \in SUBSET Lows /\ l.kind \in {"array", "bitset", "run"}
  BY DEF Exact, Sound, Containers
<1>2. \A c \in Intersections(l, r) : Exact(c) /\ c.keys = l.keys \cap r.keys
  BY <1>1, FormsExact, MadeExact DEF Intersections
<1>3. /\ \A c \in Differences(l, r) : Exact(c) /\ c.keys = l.keys \ r.keys
      /\ \A c \in Forms(l.keys \ r.keys) : Exact(c) /\ c.keys = l.keys \ r.keys
  BY <1>1, FormsExact DEF Differences
<1>4. Exact(AddedAll(l, r.keys)) /\ AddedAll(l, r.keys).keys = l.keys \cup r.keys
  <2>1. \E kind \in {"array", "bitset", "run"} :
           AddedAll(l, r.keys) = Container(kind, l.keys \cup r.keys)
    BY <1>1 DEF AddedAll, AsBitset
  <2>2. QED
    BY <1>1, <2>1, MadeExact
<1>5. QED
  BY <1>2, <1>3, <1>4

\* The end of such a call: the size is counted, or moved with the counts.
LEMMA ReplacedKeeps ==
  ASSUME IInv, NEW T, ExactTable(T), chunks' = T, model' = KeysIn(T), shared' = FALSE,
         size' = Entry.size - Counted(Entry.chunks) + Counted(T) \/ size' = Counted(T),
         sharing' = sharing, awaits' = awaits,
         ~sharing /\ awaits # "xor" => \A k \in DOMAIN T : T[k].keys # {}
  PROVE  IInv'
<1>1. awaits \in {"nothing", "or", "xor"} /\ Cardinality(model) \in Int
  BY AtRest
<1>2. Entry.size = Cardinality(model) /\ Counted(Entry.chunks) = Cardinality(model)
  BY EntryExact
<1>3. Counted(T) = Cardinality(KeysIn(T)) /\ Cardinality(KeysIn(T)) \in Int
  BY CountedIsKeys, ExactIsSound, KeysByChunk
<1>4. size' = Cardinality(KeysIn(T))
  BY <1>1, <1>2, <1>3
<1>5. QED
  BY <1>1, <1>4, LandsExact

\* Leaving out chunks that hold nothing leaves out no key.
LEMMA PrunedKeeps ==
  ASSUME NEW U, ExactTable(U), NEW T, DOMAIN T \subseteq DOMAIN U,
         \A k \in DOMAIN T : T[k] = U[k],
         \A k \in DOMAIN U \ DOMAIN T : U[k].count = 0
  PROVE  ExactTable(T) /\ KeysIn(T) = KeysIn(U)
<1>1. ExactTable(T)
  BY DEF ExactTable
<1>2. \A k \in DOMAIN U \ DOMAIN T : U[k].keys = {}
  BY ZeroIsEmpty DEF ExactTable
<1>3. \A k \in Chunks : KeysAt(T, k) = KeysAt(U, k)
  BY <1>2 DEF KeysAt
<1>4. QED
  BY <1>1, <1>3, ExactIsSound, KeysCombine

\* The chunks are nonempty where nothing may leave an empty one.
LEMMA EntryNonempty ==
  ASSUME IInv
  PROVE  ~sharing /\ awaits # "xor" => \A k \in DOMAIN Entry.chunks : Entry.chunks[k].keys # {}
BY EntryExact DEF IInv, OnlyXorLeavesEmptyChunks

\* operator|=.
LEMMA UniteKeeps ==
  ASSUME IInv, NEW other \in Operands, Unite(other)
  PROVE  IInv'
<1> DEFINE A == Entry.chunks
<1>1. ExactTable(A) /\ SoundTable(A) /\ KeysIn(A) = model
  BY EntryExact
<1>2. /\ ExactTable(other) /\ SoundTable(other)
      /\ \A k \in DOMAIN other : other[k].keys # {}
  BY OperandIsExact
<1>3. model' = model \cup KeysIn(other) /\ sharing' = sharing /\ awaits' = awaits
  BY DEF Unite, Models, Keeps
<1>4. PICK T : /\ DOMAIN T = DOMAIN A \cup DOMAIN other
               /\ \A k \in DOMAIN A \ DOMAIN other : T[k] = A[k]
               /\ \A k \in DOMAIN other \ DOMAIN A : T[k] = other[k]
               /\ \A k \in DOMAIN A \cap DOMAIN other : T[k] \in Unions(A[k], other[k])
               /\ Becomes(T, Entry.size - Counted(A) + Counted(T), FALSE)
  BY DEF Unite, Replaces, Combined, TablesOf, OnlyHere, OnlyThere
<1>5. ~sharing /\ awaits # "xor" => \A k \in DOMAIN A : A[k].keys # {}
  BY EntryNonempty
<1>6. chunks' = T /\ size' = Entry.size - Counted(A) + Counted(T) /\ shared' = FALSE
  BY <1>4 DEF Becomes
<1>7. QED
  <2> HIDE DEF A
  <2>1. \A k \in DOMAIN A \cap DOMAIN other :
           Exact(T[k]) /\ T[k].keys = A[k].keys \cup other[k].keys
    BY <1>1, <1>2, <1>4, UnionsExact DEF SoundTable
  <2>2. ExactTable(T)
    BY <1>1, <1>2, <1>4, <2>1 DEF ExactTable
  <2>3. \A k \in Chunks : KeysAt(T, k) = KeysAt(A, k) \cup KeysAt(other, k)
    BY <1>4, <2>1 DEF KeysAt
  <2>4. KeysIn(T) = model'
    BY <1>1, <1>2, <1>3, <2>2, <2>3, ExactIsSound, KeysCombine
  <2>5. ~sharing /\ awaits # "xor" => \A k \in DOMAIN T : T[k].keys # {}
    BY <1>2, <1>4, <1>5, <2>1
  <2>6. QED
    BY <1>3, <1>6, <2>2, <2>4, <2>5, ReplacedKeeps DEF A

\* operator^=: the part of the table that is rebuilt leaves out the chunks that
\* hold nothing, and the part before it loses none to this call.
LEMMA ExclusiveOrKeeps ==
  ASSUME IInv, NEW other \in Operands, ExclusiveOr(other)
  PROVE  IInv'
<1> DEFINE A == Entry.chunks
<1>1. ExactTable(A) /\ SoundTable(A) /\ KeysIn(A) = model
  BY EntryExact
<1>2. /\ ExactTable(other) /\ SoundTable(other)
      /\ \A k \in DOMAIN other : other[k].keys # {}
  BY OperandIsExact
<1>3. model' = Symmetric(model, KeysIn(other)) /\ sharing' = sharing /\ awaits' = awaits
  BY DEF ExclusiveOr, Models, Keeps
<1>4. CASE DOMAIN other = {}
  <2>1. Leaves(Entry)
    BY <1>4 DEF ExclusiveOr
  <2>2. KeysIn(other) = {}
    BY <1>4 DEF KeysIn
  <2>3. model' = model
    BY <1>3, <2>2 DEF Symmetric
  <2>4. QED
    BY <1>3, <2>1, <2>3, LandsAtEntry
<1>5. CASE DOMAIN other # {} /\ DOMAIN A = {}
  <2>1. chunks' = other /\ size' = Counted(other) /\ shared' \in {FALSE, sharing}
    BY <1>5 DEF ExclusiveOr, Becomes
  <2>2. KeysIn(A) = {}
    BY <1>5 DEF KeysIn
  <2>3. model' = KeysIn(other)
    BY <1>1, <1>3, <2>2 DEF Symmetric
  <2>4. Counted(other) = Cardinality(KeysIn(other))
    BY <1>2, CountedIsKeys
  <2>5. sharing \in BOOLEAN /\ awaits \in {"nothing", "or", "xor"}
    BY DEF IInv, TypeOK
  <2>6. shared' \in BOOLEAN /\ (shared' => sharing)
    <3>1. shared' = FALSE \/ shared' = sharing
      BY <2>1
    <3>2. CASE shared' = FALSE
      BY <3>2
    <3>3. CASE shared' = sharing
      BY <2>5, <3>3, Zenon
    <3>4. QED
      BY <3>1, <3>2, <3>3
  <2>7. QED
    BY <1>2, <1>3, <2>1, <2>3, <2>4, <2>5, <2>6, LandsExact
<1>6. CASE DOMAIN other # {} /\ DOMAIN A # {}
  <2> DEFINE breaks(U) == (DOMAIN other \ DOMAIN A)
                            \cup {k \in DOMAIN A \cap DOMAIN other : U[k].count = 0}
             dropped(U) == {k \in DOMAIN U : U[k].count = 0 /\ \E b \in breaks(U) : b <= k}
  <2>1. PICK U : /\ DOMAIN U = DOMAIN A \cup DOMAIN other
                 /\ \A k \in DOMAIN A \ DOMAIN other : U[k] = A[k]
                 /\ \A k \in DOMAIN other \ DOMAIN A : U[k] = other[k]
                 /\ \A k \in DOMAIN A \cap DOMAIN other : U[k] \in XorPair(A[k], other[k])
                 /\ LET T == [k \in DOMAIN U \ dropped(U) |-> U[k]]
                    IN  Becomes(T, Entry.size - Counted(A) + Counted(T), FALSE)
    BY <1>6 DEF ExclusiveOr, Replaces, XorMerged, Combined, TablesOf, OnlyHere, OnlyThere, Both
  <2> DEFINE T == [k \in DOMAIN U \ dropped(U) |-> U[k]]
  <2>2. chunks' = T /\ size' = Entry.size - Counted(A) + Counted(T) /\ shared' = FALSE
    BY <2>1 DEF Becomes
  <2>3. ~sharing /\ awaits # "xor" => \A k \in DOMAIN A : A[k].keys # {}
    BY EntryNonempty
  <2>4. QED
    <3> HIDE DEF A
    <3>1. \A k \in DOMAIN A \cap DOMAIN other :
             Exact(U[k]) /\ U[k].keys = Symmetric(A[k].keys, other[k].keys)
      BY <1>1, <1>2, <2>1, XorPairExact DEF ExactTable
    <3>2. ExactTable(U)
      BY <1>1, <1>2, <2>1, <3>1 DEF ExactTable
    <3>3. \A k \in Chunks : KeysAt(U, k) = Symmetric(KeysAt(A, k), KeysAt(other, k))
      BY <2>1, <3>1 DEF KeysAt, Symmetric
    <3>4. KeysIn(U) = model'
      BY <1>1, <1>2, <1>3, <3>2, <3>3, ExactIsSound, KeysCombine
    <3>5. /\ DOMAIN T \subseteq DOMAIN U /\ \A k \in DOMAIN T : T[k] = U[k]
          /\ \A k \in DOMAIN U \ DOMAIN T : U[k].count = 0
      OBVIOUS
    <3>6. \A k \in DOMAIN A \cap DOMAIN other : U[k].count = 0 => k \notin DOMAIN T
      <4>1. \A k \in DOMAIN A : k \in Nat
        BY <1>1, ChunksAssumption DEF ExactTable
      <4>2. \A k \in DOMAIN A : k <= k
        BY <4>1
      <4>3. QED
        BY <2>1, <4>2
    <3> HIDE DEF T
    <3>7. ExactTable(T) /\ KeysIn(T) = model'
      BY <3>2, <3>4, <3>5, PrunedKeeps
    <3>8. ~sharing /\ awaits # "xor" => \A k \in DOMAIN T : T[k].keys # {}
      <4>1. \A k \in DOMAIN A \cap DOMAIN other : k \in DOMAIN T => U[k].keys # {}
        BY <3>1, <3>6, ZeroIsEmpty
      <4>2. QED
        BY <1>2, <2>1, <2>3, <3>5, <4>1
    <3>9. QED
      BY <1>3, <2>2, <3>7, <3>8, ReplacedKeeps DEF A
<1>7. QED
  BY <1>4, <1>5, <1>6


\* operator&=: a shared table is left when the result holds as many keys.
LEMMA IntersectKeeps ==
  ASSUME IInv, NEW other \in Operands, Intersect(other)
  PROVE  IInv'
<1> DEFINE A == Entry.chunks
<1>1. /\ ExactTable(A) /\ SoundTable(A) /\ KeysIn(A) = model
      /\ Entry.size = Cardinality(model) /\ IsFiniteSet(model)
  BY EntryExact, AtRest
<1>2. ExactTable(other) /\ SoundTable(other)
  BY OperandIsExact
<1>3. model' = model \cap KeysIn(other) /\ sharing' = sharing /\ awaits' = awaits
  BY DEF Intersect, Models, Keeps
<1>4. PICK U : /\ DOMAIN U = DOMAIN A \cap DOMAIN other
               /\ \A k \in DOMAIN A \cap DOMAIN other : U[k] \in Intersections(A[k], other[k])
               /\ \/ Counted(Nonempty(U)) = Entry.size /\ Leaves(Entry)
                  \/ Becomes(Nonempty(U), Counted(Nonempty(U)), FALSE)
  BY DEF Intersect, Combined, TablesOf, OnlyHere, OnlyThere, Both
<1> DEFINE T == Nonempty(U)
<1>5. /\ ExactTable(T) /\ KeysIn(T) = model'
      /\ \A k \in DOMAIN T : T[k].keys # {}
  <2> HIDE DEF A
  <2>1. ASSUME NEW k \in DOMAIN A \cap DOMAIN other
        PROVE  Exact(U[k]) /\ U[k].keys = A[k].keys \cap other[k].keys
    <3>1. Exact(A[k]) /\ Exact(other[k])
      BY <1>1, <1>2 DEF ExactTable
    <3>2. \A c \in Intersections(A[k], other[k]) :
             Exact(c) /\ c.keys = A[k].keys \cap other[k].keys
      BY <3>1, KernelsExact
    <3>3. QED
      BY <1>4, <3>2
  <2>2. ExactTable(U)
    BY <1>1, <1>4, <2>1 DEF ExactTable
  <2>3. \A k \in Chunks : KeysAt(U, k) = KeysAt(A, k) \cap KeysAt(other, k)
    BY <1>4, <2>1 DEF KeysAt
  <2>4. KeysIn(U) = model'
    BY <1>1, <1>2, <1>3, <2>2, <2>3, ExactIsSound, KeysCombine
  <2>5. QED
    BY <2>2, <2>4, NonemptyKeeps
<1> HIDE DEF T
<1>6. CASE Counted(T) = Entry.size /\ Leaves(Entry)
  <2>1. Cardinality(model') = Cardinality(model)
    BY <1>1, <1>5, <1>6, CountedIsKeys
  <2>2. model' = model
    BY <1>1, <1>3, <2>1, FS_Subset
  <2>3. QED
    BY <1>3, <1>6, <2>2, LandsAtEntry
<1>7. CASE Becomes(T, Counted(T), FALSE)
  <2>1. chunks' = T /\ size' = Counted(T) /\ shared' = FALSE
    BY <1>7 DEF Becomes
  <2>2. QED
    BY <1>3, <1>5, <2>1, ReplacedKeeps
<1>8. QED
  BY <1>4, <1>6, <1>7 DEF T

\* What a difference, chunk by chunk, leaves once the emptied chunks are gone.
LEMMA DifferenceKeeps ==
  ASSUME IInv, NEW other \in Operands, NEW U, DOMAIN U = DOMAIN Entry.chunks,
         \A k \in DOMAIN Entry.chunks \ DOMAIN other : U[k] = Entry.chunks[k],
         \A k \in DOMAIN Entry.chunks \cap DOMAIN other :
            Exact(U[k]) /\ U[k].keys = Entry.chunks[k].keys \ other[k].keys
  PROVE  LET T == WithoutEmptied(U, other)
         IN  /\ ExactTable(T) /\ KeysIn(T) = model \ KeysIn(other)
             /\ ~sharing /\ awaits # "xor" => \A k \in DOMAIN T : T[k].keys # {}
<1> DEFINE A == Entry.chunks
           T == WithoutEmptied(U, other)
<1>1. ExactTable(A) /\ SoundTable(A) /\ KeysIn(A) = model
  BY EntryExact
<1>2. ExactTable(other) /\ SoundTable(other)
  BY OperandIsExact
<1>3. /\ DOMAIN T = {k \in DOMAIN U : U[k].count # 0 \/ k \in DOMAIN A \ DOMAIN other}
      /\ \A k \in DOMAIN T : T[k] = U[k]
  BY DEF WithoutEmptied, OnlyHere
<1>4. ~sharing /\ awaits # "xor" => \A k \in DOMAIN A : A[k].keys # {}
  BY EntryNonempty
<1> HIDE DEF A, T
<1>5. ExactTable(U)
  BY <1>1 DEF ExactTable, A
<1>6. \A k \in Chunks : KeysAt(U, k) = KeysAt(A, k) \ KeysAt(other, k)
  BY DEF KeysAt, A
<1>7. KeysIn(U) = model \ KeysIn(other)
  BY <1>1, <1>2, <1>5, <1>6, ExactIsSound, KeysCombine
<1>8. ExactTable(T) /\ KeysIn(T) = model \ KeysIn(other)
  <2>1. \A k \in DOMAIN U \ DOMAIN T : U[k].count = 0
    BY <1>3
  <2>2. QED
    BY <1>3, <1>5, <1>7, <2>1, PrunedKeeps
<1>9. ~sharing /\ awaits # "xor" => \A k \in DOMAIN T : T[k].keys # {}
  <2>1. \A k \in DOMAIN U : U[k].count # 0 => U[k].keys # {}
    BY <1>5, ZeroIsEmpty DEF ExactTable
  <2>2. QED
    BY <1>3, <1>4, <2>1 DEF A
<1>10. QED
  BY <1>8, <1>9 DEF T

\* A difference that a shared table shows to take nothing away.
LEMMA DisjointIsLeft ==
  ASSUME IInv, NEW other, KeysIn(Entry.chunks) \cap KeysIn(other) = {}, Leaves(Entry),
         model' = model \ KeysIn(other), sharing' = sharing, awaits' = awaits
  PROVE  IInv'
<1>1. KeysIn(Entry.chunks) = model
  BY EntryExact
<1>2. model' = model
  BY <1>1
<1>3. QED
  BY <1>2, LandsAtEntry

\* operator-=.
LEMMA SubtractKeeps ==
  ASSUME IInv, NEW other \in Operands, Subtract(other)
  PROVE  IInv'
<1> DEFINE A == Entry.chunks
<1>1. model' = model \ KeysIn(other) /\ sharing' = sharing /\ awaits' = awaits
  BY DEF Subtract, Models, Keeps
<1>2. CASE Entry.shared /\ KeysIn(A) \cap KeysIn(other) = {}
  <2>1. Leaves(Entry)
    BY <1>2 DEF Subtract
  <2>2. QED
    BY <1>1, <1>2, <2>1, DisjointIsLeft
<1>3. CASE ~(Entry.shared /\ KeysIn(A) \cap KeysIn(other) = {})
  <2>1. PICK U : /\ DOMAIN U = DOMAIN A
                 /\ \A k \in DOMAIN A \ DOMAIN other : U[k] = A[k]
                 /\ \A k \in DOMAIN A \cap DOMAIN other : U[k] \in Differences(A[k], other[k])
                 /\ LET T == WithoutEmptied(U, other) IN Becomes(T, Counted(T), FALSE)
    BY <1>3 DEF Subtract, Combined, TablesOf, OnlyHere, OnlyThere
  <2> DEFINE T == WithoutEmptied(U, other)
  <2>2. chunks' = T /\ size' = Counted(T) /\ shared' = FALSE
    BY <2>1 DEF Becomes
  <2>3. ASSUME NEW k \in DOMAIN A \cap DOMAIN other
        PROVE  Exact(U[k]) /\ U[k].keys = A[k].keys \ other[k].keys
    <3>1. Exact(A[k]) /\ Exact(other[k])
      BY EntryExact, OperandIsExact DEF ExactTable
    <3>2. \A c \in Differences(A[k], other[k]) :
             Exact(c) /\ c.keys = A[k].keys \ other[k].keys
      BY <3>1, KernelsExact
    <3>3. QED
      BY <2>1, <3>2
  <2>4. /\ ExactTable(T) /\ KeysIn(T) = model'
        /\ ~sharing /\ awaits # "xor" => \A k \in DOMAIN T : T[k].keys # {}
    BY <1>1, <2>1, <2>3, DifferenceKeeps
  <2> HIDE DEF T
  <2>5. QED
    BY <1>1, <2>2, <2>4, ReplacedKeeps
<1>4. QED
  BY <1>2, <1>3

\* remove_many_sorted.
LEMMA RemoveManyKeeps ==
  ASSUME IInv, NEW batch \in Operands, RemoveMany(batch)
  PROVE  IInv'
<1> DEFINE A == Entry.chunks
<1>1. model' = model \ KeysIn(batch) /\ sharing' = sharing /\ awaits' = awaits
  BY DEF RemoveMany, Models, Keeps, Replaces, Combined, TablesOf
<1>2. CASE Entry.shared /\ KeysIn(batch) \cap KeysIn(A) = {}
  <2>1. Leaves(Entry)
    BY <1>2 DEF RemoveMany
  <2>2. KeysIn(A) \cap KeysIn(batch) = {}
    BY <1>2
  <2>3. QED
    BY <1>1, <2>1, <2>2, DisjointIsLeft
<1>3. CASE ~(Entry.shared /\ KeysIn(batch) \cap KeysIn(A) = {})
  <2>1. PICK U : /\ DOMAIN U = DOMAIN A
                 /\ \A k \in DOMAIN A \ DOMAIN batch : U[k] = A[k]
                 /\ \A k \in DOMAIN A \cap DOMAIN batch :
                       U[k] \in Forms(A[k].keys \ batch[k].keys)
                 /\ LET T == WithoutEmptied(U, batch)
                    IN  Becomes(T, Entry.size - Counted(A) + Counted(T), FALSE)
    BY <1>3 DEF RemoveMany, Replaces, Combined, TablesOf, OnlyHere, OnlyThere
  <2> DEFINE T == WithoutEmptied(U, batch)
  <2>2. chunks' = T /\ size' = Entry.size - Counted(A) + Counted(T) /\ shared' = FALSE
    BY <2>1 DEF Becomes
  <2>3. ASSUME NEW k \in DOMAIN A \cap DOMAIN batch
        PROVE  Exact(U[k]) /\ U[k].keys = A[k].keys \ batch[k].keys
    <3>1. Exact(A[k]) /\ Exact(batch[k])
      BY EntryExact, OperandIsExact DEF ExactTable
    <3>2. \A c \in Forms(A[k].keys \ batch[k].keys) :
             Exact(c) /\ c.keys = A[k].keys \ batch[k].keys
      BY <3>1, KernelsExact
    <3>3. QED
      BY <2>1, <3>2
  <2>4. /\ ExactTable(T) /\ KeysIn(T) = model'
        /\ ~sharing /\ awaits # "xor" => \A k \in DOMAIN T : T[k].keys # {}
    BY <1>1, <2>1, <2>3, DifferenceKeeps
  <2> HIDE DEF T
  <2>5. QED
    BY <1>1, <2>2, <2>4, ReplacedKeeps
<1>4. QED
  BY <1>2, <1>3

\* add_many_sorted.
LEMMA AddManyKeeps ==
  ASSUME IInv, NEW batch \in Operands, AddMany(batch)
  PROVE  IInv'
<1> DEFINE A == Entry.chunks
<1>1. ExactTable(A) /\ SoundTable(A) /\ KeysIn(A) = model
  BY EntryExact
<1>2. /\ ExactTable(batch) /\ SoundTable(batch)
      /\ \A k \in DOMAIN batch : batch[k].keys # {}
  BY OperandIsExact
<1>3. model' = model \cup KeysIn(batch) /\ sharing' = sharing /\ awaits' = awaits
  BY DEF AddMany, Models, Keeps, Replaces, TablesOf
<1>4. CASE Entry.shared /\ KeysIn(batch) \subseteq KeysIn(A)
  <2>1. Leaves(Entry) /\ model' = model
    BY <1>1, <1>3, <1>4 DEF AddMany, Replaces, TablesOf
  <2>2. QED
    BY <1>3, <2>1, LandsAtEntry
<1>5. CASE ~(Entry.shared /\ KeysIn(batch) \subseteq KeysIn(A))
  <2>1. PICK T : /\ DOMAIN T = DOMAIN A \cup DOMAIN batch
                 /\ \A k \in DOMAIN A \ DOMAIN batch : T[k] = A[k]
                 /\ \A k \in DOMAIN batch \ DOMAIN A : T[k] \in Forms(batch[k].keys)
                 /\ \A k \in DOMAIN A \cap DOMAIN batch : T[k] = AddedAll(A[k], batch[k].keys)
                 /\ Becomes(T, Entry.size - Counted(A) + Counted(T), FALSE)
    BY <1>5 DEF AddMany, Replaces, TablesOf, OnlyHere, OnlyThere
  <2>2. chunks' = T /\ size' = Entry.size - Counted(A) + Counted(T) /\ shared' = FALSE
    BY <2>1 DEF Becomes
  <2>3. ~sharing /\ awaits # "xor" => \A k \in DOMAIN A : A[k].keys # {}
    BY EntryNonempty
  <2> HIDE DEF A
  <2>4. ASSUME NEW k \in DOMAIN A \cap DOMAIN batch
        PROVE  Exact(T[k]) /\ T[k].keys = A[k].keys \cup batch[k].keys
    <3>1. Exact(A[k]) /\ Exact(batch[k])
      BY <1>1, <1>2 DEF ExactTable
    <3>2. /\ Exact(AddedAll(A[k], batch[k].keys))
          /\ AddedAll(A[k], batch[k].keys).keys = A[k].keys \cup batch[k].keys
      BY <3>1, KernelsExact
    <3>3. QED
      BY <2>1, <3>2
  <2>5. \A k \in DOMAIN batch \ DOMAIN A : Exact(T[k]) /\ T[k].keys = batch[k].keys
    BY <1>2, <2>1, FinishedForms DEF ExactTable
  <2>6. ExactTable(T)
    BY <1>1, <1>2, <2>1, <2>4, <2>5 DEF ExactTable
  <2>7. \A k \in Chunks : KeysAt(T, k) = KeysAt(A, k) \cup KeysAt(batch, k)
    BY <2>1, <2>4, <2>5 DEF KeysAt
  <2>8. KeysIn(T) = model'
    BY <1>1, <1>2, <1>3, <2>6, <2>7, ExactIsSound, KeysCombine
  <2>9. ~sharing /\ awaits # "xor" => \A k \in DOMAIN T : T[k].keys # {}
    BY <1>2, <2>1, <2>3, <2>4, <2>5
  <2>10. QED
    BY <1>3, <2>2, <2>6, <2>8, <2>9, ReplacedKeeps DEF A
<1>6. QED
  BY <1>4, <1>5


-----------------------------------------------------------------------------
(***************************************************************************)
(* The invariant.                                                          *)
(***************************************************************************)
\* clear() leaves an empty table, and a copy of the bitmap only whose it is.
LEMMA ClearKeeps ==
  ASSUME IInv, clear
  PROVE  IInv'
<1> DEFINE T == <<>>
<1>1. /\ chunks' = T /\ size' = 0 /\ shared' = FALSE
      /\ awaits' = "nothing" /\ model' = {} /\ sharing' = sharing
  BY DEF clear, Becomes, Models
<1>2. DOMAIN T = {}
  OBVIOUS
<1> HIDE DEF T
<1>3. ExactTable(T) /\ KeysIn(T) = {}
  BY <1>2 DEF ExactTable, KeysIn
<1>4. size' = Cardinality(KeysIn(T))
  BY <1>1, <1>3, FS_EmptySet
<1>5. QED
  BY <1>1, <1>2, <1>3, <1>4, LandsExact

LEMMA CopyKeeps ==
  ASSUME IInv, Copy \/ CopiesLetGo
  PROVE  IInv'
<1>1. /\ chunks' = chunks /\ size' = size /\ awaits' = awaits /\ model' = model
      /\ sharing' = sharing /\ (shared' = FALSE \/ (shared' = TRUE /\ sharing))
  BY DEF Copy, CopiesLetGo
<1>2. shared' \in BOOLEAN /\ (shared' => sharing')
  <2>1. CASE shared' = FALSE
    BY <2>1
  <2>2. CASE shared' = TRUE /\ sharing
    BY <1>1, <2>2
  <2>3. QED
    BY <1>1, <2>1, <2>2
<1>3. TypeOK'
  BY <1>1, <1>2 DEF IInv, TypeOK
<1>4. QED
  BY <1>1, <1>3 DEF IInv, StoredNotAbove, KeysAreModel, SizeIsKnown, KeysIn,
                    OnlyXorLeavesEmptyChunks

LEMMA InitIInv ==
  ASSUME Init
  PROVE  IInv
<1>1. /\ DOMAIN chunks = {} /\ size = 0 /\ shared = FALSE
      /\ awaits = "nothing" /\ model = {} /\ sharing \in BOOLEAN
  BY DEF Init
<1>2. KeysIn(chunks) = {} /\ Cardinality(KeysIn(chunks)) = 0
  BY <1>1, FS_EmptySet DEF KeysIn
<1>3. TypeOK
  <2>1. shared \in BOOLEAN /\ (shared => sharing)
    BY <1>1
  <2>2. size \in 0..(2 * Deferred)
    BY <1>1, RoomFits
  <2>3. QED
    BY <1>1, <2>1, <2>2 DEF TypeOK
<1>4. StoredNotAbove /\ KeysAreModel /\ SizeIsKnown /\ OnlyXorLeavesEmptyChunks
  BY <1>1, <1>2 DEF StoredNotAbove, KeysAreModel, SizeIsKnown, OnlyXorLeavesEmptyChunks
<1>5. QED
  BY <1>3, <1>4 DEF IInv

LEMMA NextIInv ==
  ASSUME IInv, [Next]_vars
  PROVE  IInv'
<1>1. CASE Fold
  BY <1>1, FoldKeeps DEF Fold
<1>2. CASE Finisher
  BY <1>2, FinisherKeeps
<1>3. CASE KeyCall
  <2>1. PICK key \in Keys : Add(key[1], key[2]) \/ Remove(key[1], key[2])
    BY <1>3 DEF KeyCall
  <2>2. key[1] \in Chunks /\ key[2] \in Lows
    BY KeysAssumption
  <2>3. QED
    BY <2>1, <2>2, AddKeeps, RemoveKeeps
<1>4. CASE Combine
  <2>1. PICK other \in Operands : \/ Unite(other) \/ ExclusiveOr(other)
                                  \/ Intersect(other) \/ Subtract(other)
                                  \/ AddMany(other) \/ RemoveMany(other)
    BY <1>4 DEF Combine
  <2>2. QED
    BY <2>1, UniteKeeps, ExclusiveOrKeeps, IntersectKeeps, SubtractKeeps,
       AddManyKeeps, RemoveManyKeeps
<1>5. CASE optimize \/ optimize_keep_bitsets
  BY <1>5, OptimizeKeeps
<1>6. CASE clear
  BY <1>6, ClearKeeps
<1>7. CASE Copy \/ CopiesLetGo
  BY <1>7, CopyKeeps
<1>8. CASE UNCHANGED vars
  BY <1>8 DEF vars, IInv, TypeOK, StoredNotAbove, KeysAreModel, SizeIsKnown, KeysIn,
              OnlyXorLeavesEmptyChunks
<1>9. QED
  BY <1>1, <1>2, <1>3, <1>4, <1>5, <1>6, <1>7, <1>8 DEF Next

\* Whatever calls run between a fold and its finisher, and whether copies share
\* the table or not, the size is known or known to be deferred.
THEOREM Invariant == Spec => []IInv
<1>1. Init => IInv
  BY InitIInv
<1>2. IInv /\ [Next]_vars => IInv'
  BY NextIInv
<1>3. QED
  BY <1>1, <1>2, PTL DEF Spec

\* Every call leaves the keys it should, in the middle of a fold as well
\* ("every in-place update is allowed and leaves a correct bitmap").
THEOREM KeysHold == Spec => []KeysAreModel
<1>1. IInv => KeysAreModel
  BY DEF IInv
<1>2. QED
  BY <1>1, Invariant, PTL

\* No stale count is above the true one, counts_deferred() knows every bitmap
\* whose counts or size are not exact, and only an exclusive-or that awaits its
\* finisher leaves an empty chunk.
THEOREM FoldHolds == Spec => []FoldIsSound
<1>1. ASSUME IInv PROVE DeferredIsRecognised
  <2> SUFFICES ASSUME ~CountsDeferred
               PROVE  /\ size = Cardinality(KeysIn(chunks))
                      /\ \A k \in DOMAIN chunks : ~chunks[k].stale
    BY DEF DeferredIsRecognised
  <2>1. ExactTable(chunks) /\ size = Cardinality(model) /\ KeysIn(chunks) = model
    BY <1>1, AtRest
  <2>2. QED
    BY <2>1 DEF ExactTable, Exact
<1>2. IInv => FoldIsSound
  BY <1>1 DEF IInv, FoldIsSound
<1>3. QED
  BY <1>2, Invariant, PTL
=============================================================================
