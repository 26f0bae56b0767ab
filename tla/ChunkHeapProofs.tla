--------------------------- MODULE ChunkHeapProofs ---------------------------
(***************************************************************************)
(* What the operations on tables and payloads keep, for every set of       *)
(* chunks, keys and addresses: the count of a payload is the number of     *)
(* handles on it, those a call holds on the way included, and what a table *)
(* holds changes only for the table an operation is given.                 *)
(***************************************************************************)
EXTENDS ChunkHeap, FiniteSetTheorems, TLAPS

Heaps == [policy  : Policies,
          entries : [Tables -> Entries],
          holders : [Tables -> Nat],
          room    : [Tables -> Nat],
          keys    : [Payloads -> SUBSET Lows],
          refs    : [Payloads -> Nat]]

\* Containers, chunk by chunk.
Maps == UNION {[S -> SUBSET Lows] : S \in SUBSET Chunks}

\* The handles of f, and of the tables E, that are on p.
Of(f, p)   == {c \in DOMAIN f : f[c] = p}
Count(f, p) == Cardinality(Of(f, p))
On(E, p)   == {at \in Tables \X Chunks : at[2] \in DOMAIN E[at[1]] /\ E[at[1]][at[2]] = p}
Uses(E, p) == Cardinality(On(E, p))

None       == [p \in Payloads |-> 0]
More(r, f) == [p \in Payloads |-> r[p] + Count(f, p)]
Support(r) == {p \in Payloads : r[p] # 0}

\* The counts are the handles in the tables and those, r, a call holds on the way.
Account(H, r) ==
  /\ H \in Heaps
  /\ r \in [Payloads -> Nat]
  /\ \A t \in Tables : /\ H.holders[t] = 0 => H.entries[t] = NoEntries
                       /\ H.holders[t] > 1 => Counted(H, t)
  /\ \A p \in Payloads : /\ H.refs[p] = Uses(H.entries, p) + r[p]
                         /\ H.refs[p] > 1 => Refcounted(H)
                         /\ H.refs[p] = 0 => H.keys[p] = {}

-----------------------------------------------------------------------------
LEMMA EntriesIntro ==
  ASSUME NEW f, DOMAIN f \subseteq Chunks, f \in [DOMAIN f -> Payloads]
  PROVE  f \in Entries
BY DEF Entries

LEMMA EntriesElim ==
  ASSUME NEW f \in Entries
  PROVE  DOMAIN f \subseteq Chunks /\ f \in [DOMAIN f -> Payloads] /\ IsFiniteSet(DOMAIN f)
<1>1. PICK S \in SUBSET Chunks : f \in [S -> Payloads]
  BY DEF Entries
<1>2. DOMAIN f = S
  BY <1>1
<1> QED BY <1>1, <1>2, FS_Subset, AddressAssumption

LEMMA NoEntriesType == NoEntries \in Entries /\ DOMAIN NoEntries = {}
BY EntriesIntro DEF NoEntries, Null

LEMMA NoEntriesOnly ==
  ASSUME NEW f \in Entries, DOMAIN f = {}
  PROVE  f = NoEntries
BY EntriesElim DEF NoEntries, Null

LEMMA RestrictType ==
  ASSUME NEW f \in Entries, NEW S \in SUBSET DOMAIN f
  PROVE  Restrict(f, S) \in Entries /\ DOMAIN Restrict(f, S) = S
         /\ \A c \in S : Restrict(f, S)[c] = f[c]
<1>1. DOMAIN f \subseteq Chunks /\ f \in [DOMAIN f -> Payloads]
  BY EntriesElim
<1>2. Restrict(f, S) \in [S -> Payloads]
  BY <1>1 DEF Restrict
<1> QED BY <1>1, <1>2, EntriesIntro DEF Restrict

LEMMA OfFinite ==
  ASSUME NEW f \in Entries, NEW p
  PROVE  IsFiniteSet(Of(f, p)) /\ Count(f, p) \in Nat /\ (Count(f, p) = 0 <=> Of(f, p) = {})
<1>1. IsFiniteSet(Of(f, p))
  BY EntriesElim, FS_Subset DEF Of
<1> QED BY <1>1, FS_CardinalityType, FS_EmptySet DEF Count

LEMMA OnFinite ==
  ASSUME NEW E \in [Tables -> Entries], NEW p
  PROVE  IsFiniteSet(On(E, p)) /\ Uses(E, p) \in Nat /\ (Uses(E, p) = 0 <=> On(E, p) = {})
<1>1. IsFiniteSet(Tables \X Chunks)
  BY FS_Product, AddressAssumption
<1>2. IsFiniteSet(On(E, p))
  BY <1>1, FS_Subset DEF On
<1> QED BY <1>2, FS_CardinalityType, FS_EmptySet DEF Uses

\* The pairs of a table with the chunks of S are as many as S.
LEMMA PairsWith ==
  ASSUME NEW t, NEW S, IsFiniteSet(S)
  PROVE  IsFiniteSet({t} \X S) /\ Cardinality({t} \X S) = Cardinality(S)
<1>1. IsFiniteSet({t}) /\ Cardinality({t}) = 1
  BY FS_Singleton
<1>2. Cardinality(S) \in Nat
  BY FS_CardinalityType
<1>3. Cardinality({t} \X S) = 1 * Cardinality(S) /\ IsFiniteSet({t} \X S)
  BY <1>1, FS_Product
<1> QED BY <1>2, <1>3

\* Sets that have nothing in common.
LEMMA DisjointSum ==
  ASSUME NEW S, NEW T, IsFiniteSet(S), IsFiniteSet(T), S \cap T = {}
  PROVE  Cardinality(S \cup T) = Cardinality(S) + Cardinality(T)
<1>1. Cardinality(S \cup T) = Cardinality(S) + Cardinality(T) - Cardinality(S \cap T)
  BY FS_Union
<1>2. Cardinality(S \cap T) = 0
  BY FS_EmptySet
<1>3. Cardinality(S) \in Nat /\ Cardinality(T) \in Nat
  BY FS_CardinalityType
<1> QED BY <1>1, <1>2, <1>3

\* What one table more or less holds, the handles in the tables are more or less.
LEMMA UsesReplaced ==
  ASSUME NEW E \in [Tables -> Entries], NEW t \in Tables, NEW g \in Entries, NEW p
  PROVE  Uses([E EXCEPT ![t] = g], p) + Count(E[t], p) = Uses(E, p) + Count(g, p)
<1> DEFINE G == [E EXCEPT ![t] = g]
           rest == {at \in On(E, p) : at[1] # t}
<1>1. G \in [Tables -> Entries] /\ G[t] = g /\ \A x \in Tables \ {t} : G[x] = E[x]
  OBVIOUS
<1>2. E[t] \in Entries
  OBVIOUS
<1>3. On(E, p) = rest \cup ({t} \X Of(E[t], p)) /\ rest \cap ({t} \X Of(E[t], p)) = {}
  BY <1>2, EntriesElim DEF On, Of
<1>4. On(G, p) = rest \cup ({t} \X Of(g, p)) /\ rest \cap ({t} \X Of(g, p)) = {}
  BY <1>1, EntriesElim DEF On, Of
<1>5. IsFiniteSet(rest)
  BY OnFinite, FS_Subset
<1>6. Cardinality(On(E, p)) = Cardinality(rest) + Cardinality(Of(E[t], p))
  <2> DEFINE here == Of(E[t], p)
  <2>1. IsFiniteSet(here)
    BY <1>2, OfFinite
  <2>2. IsFiniteSet({t} \X here) /\ Cardinality({t} \X here) = Cardinality(here)
    BY <2>1, PairsWith
  <2> QED BY <1>3, <1>5, <2>2, DisjointSum
<1>7. Cardinality(On(G, p)) = Cardinality(rest) + Cardinality(Of(g, p))
  <2> DEFINE here == Of(g, p)
  <2>1. IsFiniteSet(here)
    BY OfFinite
  <2>2. IsFiniteSet({t} \X here) /\ Cardinality({t} \X here) = Cardinality(here)
    BY <2>1, PairsWith
  <2> QED BY <1>4, <1>5, <2>2, DisjointSum
<1>8. Cardinality(rest) \in Nat /\ Cardinality(Of(E[t], p)) \in Nat /\ Cardinality(Of(g, p)) \in Nat
  BY <1>2, <1>5, OfFinite, FS_CardinalityType
<1> QED BY <1>6, <1>7, <1>8 DEF Uses, Count

-----------------------------------------------------------------------------
\* A set of addresses in order: the n-th of them is one of them.
LEMMA LeastOf ==
  ASSUME NEW S \in SUBSET Nat, S # {}
  PROVE  \E x \in S : \A y \in S : x <= y
<1>1. \E x \in S : \A y \in S : ~(<<y, x>> \in OpToRel(<, Nat))
  BY NatLessThanWellFounded, WFMin
<1>2. PICK x \in S : \A y \in S : ~(<<y, x>> \in OpToRel(<, Nat))
  BY <1>1
<1>3. ASSUME NEW y \in S PROVE x <= y
  <2>1. ~(<<y, x>> \in OpToRel(<, Nat))
    BY <1>2
  <2>2. ~(y < x)
    BY <2>1, Zenon DEF OpToRel
  <2> QED BY <2>2
<1> QED BY <1>3

LEMMA BelowType ==
  ASSUME NEW S \in SUBSET Nat, IsFiniteSet(S), NEW x
  PROVE  Below(S, x) \in Nat /\ IsFiniteSet({y \in S : y < x}) /\ Below(S, x) <= Cardinality(S)
<1>1. {y \in S : y < x} \in SUBSET S
  OBVIOUS
<1>2. IsFiniteSet({y \in S : y < x}) /\ Cardinality({y \in S : y < x}) <= Cardinality(S)
  BY <1>1, FS_Subset
<1> QED BY <1>2, FS_CardinalityType DEF Below

\* The rank of the next is one more.
LEMMA BelowNext ==
  ASSUME NEW S \in SUBSET Nat, IsFiniteSet(S), NEW x \in S, NEW y \in S,
         \A z \in S : z < y <=> z <= x
  PROVE  Below(S, y) = Below(S, x) + 1
<1>1. \A z \in S : z \in Nat
  OBVIOUS
<1>2. x < y
  BY <1>1
<1>3. ASSUME NEW z \in S PROVE z < y <=> (z < x \/ z = x)
  BY <1>1
<1>4. {z \in S : z < y} = {z \in S : z < x} \cup {x}
  BY <1>2, <1>3
<1>5. x \notin {z \in S : z < x}
  BY <1>1
<1>6. IsFiniteSet({z \in S : z < x})
  BY BelowType
<1> QED BY <1>4, <1>5, <1>6, FS_AddElement DEF Below

LEMMA BelowGrows ==
  ASSUME NEW S \in SUBSET Nat, IsFiniteSet(S), NEW x \in S, NEW y \in S, x < y
  PROVE  Below(S, x) < Below(S, y)
<1> DEFINE A == {z \in S : z < x}
           B == {z \in S : z < y}
<1>1. \A z \in S : z \in Nat
  OBVIOUS
<1>2. \A z \in S : z < x => z < y
  BY <1>1
<1>3. x \notin A
  BY <1>1
<1>4. A \in SUBSET B /\ x \in B /\ x \notin A
  BY <1>2, <1>3
<1>5. IsFiniteSet(B) /\ Below(S, x) \in Nat /\ Below(S, y) \in Nat
  BY BelowType
<1>6. Cardinality(A) <= Cardinality(B) /\ (Cardinality(A) = Cardinality(B) => A = B)
  BY <1>4, <1>5, FS_Subset
<1>7. Cardinality(A) # Cardinality(B)
  BY <1>4, <1>6
<1> QED BY <1>5, <1>6, <1>7 DEF Below

LEMMA BelowInjective ==
  ASSUME NEW S \in SUBSET Nat, IsFiniteSet(S), NEW x \in S, NEW y \in S,
         Below(S, x) = Below(S, y)
  PROVE  x = y
<1>1. Below(S, x) \in Nat /\ x \in Nat /\ y \in Nat
  BY BelowType
<1>2. ~(x < y)
  BY <1>1, BelowGrows
<1>3. ~(y < x)
  BY <1>1, BelowGrows
<1> QED BY <1>1, <1>2, <1>3

LEMMA BelowBound ==
  ASSUME NEW S \in SUBSET Nat, IsFiniteSet(S), NEW x \in S
  PROVE  Below(S, x) < Cardinality(S)
<1> DEFINE A == {z \in S : z < x}
<1>1. A \in SUBSET S /\ x \notin A
  OBVIOUS
<1>2. Cardinality(A) <= Cardinality(S) /\ (Cardinality(A) = Cardinality(S) => A = S)
  BY <1>1, FS_Subset
<1>3. Cardinality(A) # Cardinality(S)
  BY <1>1, <1>2
<1>4. Cardinality(A) \in Nat /\ Cardinality(S) \in Nat
  BY BelowType, FS_CardinalityType DEF Below
<1> QED BY <1>2, <1>3, <1>4 DEF Below

LEMMA RankExists ==
  ASSUME NEW S \in SUBSET Nat, IsFiniteSet(S), NEW n \in Nat, n < Cardinality(S)
  PROVE  \E x \in S : Below(S, x) = n
<1> DEFINE left == {m \in Nat : \E x \in S : Below(S, x) = n - m}
<1>1. Cardinality(S) \in Nat
  BY FS_CardinalityType
<1>2. S # {}
  BY <1>1, FS_EmptySet
<1>3. PICK least \in S : \A y \in S : least <= y
  BY <1>2, LeastOf
<1>4. Below(S, least) = 0
  <2>0. \A z \in S : z \in Nat
    OBVIOUS
  <2>2. \A y \in S : ~(y < least)
    BY <2>0, <1>3
  <2>1. {y \in S : y < least} = {}
    BY <2>2
  <2> QED BY <2>1, FS_EmptySet DEF Below
<1>5. n \in left
  BY <1>4
<1>6. PICK m \in left : \A k \in left : m <= k
  <2>1. left \in SUBSET Nat /\ left # {}
    BY <1>5
  <2> QED BY <2>1, LeastOf
<1>7. PICK x \in S : Below(S, x) = n - m
  BY <1>6
<1>8. CASE m = 0
  BY <1>7, <1>8
<1>9. CASE m # 0
  <2> DEFINE upTo == {z \in S : z <= x}
             over == {z \in S : x < z}
  <2>0. \A z \in S : z \in Nat
    OBVIOUS
  <2>a. ASSUME NEW z \in S PROVE (z <= x) <=> (z < x \/ z = x)
    BY <2>0
  <2>b. x \notin {z \in S : z < x}
    BY <2>0
  <2>1. upTo = {z \in S : z < x} \cup {x} /\ x \notin {z \in S : z < x}
    BY <2>a, <2>b
  <2>2. Cardinality(upTo) = Below(S, x) + 1
    <3>1. IsFiniteSet({z \in S : z < x})
      BY BelowType
    <3> QED BY <2>1, <3>1, FS_AddElement DEF Below
  <2>3. Cardinality(upTo) # Cardinality(S)
    BY <1>1, <1>7, <1>9, <1>6, <2>2
  <2>4. over # {}
    <3>2. ASSUME NEW z \in S PROVE x < z \/ z <= x
      BY <2>0
    <3>1. over = {} => upTo = S
      BY <3>2
    <3> QED BY <3>1, <2>3
  <2>5. PICK y \in over : \A z \in over : y <= z
    <3>1. over \in SUBSET Nat
      OBVIOUS
    <3> QED BY <3>1, <2>4, LeastOf
  <2>6. \A z \in S : z < y <=> z <= x
    BY <2>5
  <2>7. Below(S, y) = Below(S, x) + 1
    BY <2>5, <2>6, BelowNext
  <2>8. m - 1 \in Nat /\ Below(S, y) = n - (m - 1)
    BY <1>6, <1>7, <1>9, <2>7
  <2>9. m - 1 \in left
    BY <2>5, <2>8
  <2> QED BY <1>6, <2>9, <2>8
<1> QED BY <1>8, <1>9

-----------------------------------------------------------------------------
(***************************************************************************)
(* Handles a call gets: f, whose payloads hold the containers new.  The    *)
(* payloads in use keep their keys, and the tables are as they were.       *)
(***************************************************************************)
Unused(H) == {p \in Payloads : H.refs[p] = 0}

SameTables(H, G) == /\ G.policy = H.policy /\ G.entries = H.entries
                    /\ G.holders = H.holders /\ G.room = H.room

Gains(H, G, f, new) ==
  /\ G \in Heaps /\ SameTables(H, G)
  /\ f \in Entries /\ DOMAIN f = DOMAIN new
  /\ \A p \in Payloads : /\ G.refs[p] = H.refs[p] + Count(f, p)
                         /\ H.refs[p] # 0 => G.keys[p] = H.keys[p]
                         /\ G.refs[p] > 1 => Refcounted(H)
                         /\ G.refs[p] = 0 => G.keys[p] = {}
  /\ \A c \in DOMAIN f : G.keys[f[c]] = new[c]

\* Handles on payloads that were in no use, one handle on each.
Fresh(H, f) == /\ \A c \in DOMAIN f : H.refs[f[c]] = 0
               /\ \A c, d \in DOMAIN f : f[c] = f[d] => c = d

LEMMA MapsElim ==
  ASSUME NEW new \in Maps
  PROVE  DOMAIN new \subseteq Chunks /\ IsFiniteSet(DOMAIN new)
         /\ DOMAIN new \in SUBSET Nat
         /\ new \in [DOMAIN new -> SUBSET Lows]
<1>1. PICK S \in SUBSET Chunks : new \in [S -> SUBSET Lows]
  BY DEF Maps
<1>2. DOMAIN new = S
  BY <1>1
<1> QED BY <1>1, <1>2, FS_Subset, AddressAssumption

LEMMA MapsIntro ==
  ASSUME NEW new, DOMAIN new \subseteq Chunks, new \in [DOMAIN new -> SUBSET Lows]
  PROVE  new \in Maps
BY DEF Maps

\* The payloads Born takes.
LEMMA BornPlaces ==
  ASSUME NEW H \in Heaps, NEW new \in Maps,
         Cardinality(DOMAIN new) <= Cardinality(Unused(H))
  PROVE  /\ Born(H, new).entries \in Entries
         /\ DOMAIN Born(H, new).entries = DOMAIN new
         /\ Fresh(H, Born(H, new).entries)
<1> DEFINE free == Unused(H)
           D    == DOMAIN new
           at   == Born(H, new).entries
<1>1. free \in SUBSET Nat /\ IsFiniteSet(free) /\ Cardinality(free) \in Nat /\ free \subseteq Payloads
  <2>1. free \in SUBSET Payloads
    BY DEF Unused
  <2> QED BY <2>1, FS_Subset, FS_CardinalityType, AddressAssumption
<1>2. D \in SUBSET Nat /\ IsFiniteSet(D) /\ Cardinality(D) \in Nat /\ D \subseteq Chunks
  BY MapsElim, FS_CardinalityType
<1>3. at = [c \in D |-> CHOOSE p \in free : Below(free, p) = Below(D, c)]
  BY DEF Born, Unused
<1>4. ASSUME NEW c \in D
      PROVE  at[c] \in free /\ Below(free, at[c]) = Below(D, c)
  <2>1. Below(D, c) \in Nat /\ Below(D, c) < Cardinality(D)
    BY <1>2, BelowType, BelowBound
  <2>2. Below(D, c) < Cardinality(free)
    BY <2>1, <1>1, <1>2
  <2>3. \E p \in free : Below(free, p) = Below(D, c)
    BY <1>1, <2>1, <2>2, RankExists
  <2> QED BY <1>3, <2>3
<1>5. DOMAIN at = D
  BY <1>3
<1>6. at \in [D -> Payloads]
  BY <1>1, <1>3, <1>4
<1>7. ASSUME NEW c \in D, NEW d \in D, at[c] = at[d] PROVE c = d
  <2>1. Below(D, c) = Below(D, d)
    BY <1>4, <1>7
  <2> QED BY <1>2, <2>1, BelowInjective
<1>8. at \in Entries
  BY <1>2, <1>5, <1>6, EntriesIntro
<1>9. \A c \in D : H.refs[at[c]] = 0
  BY <1>4 DEF Unused
<1> QED BY <1>5, <1>7, <1>8, <1>9 DEF Fresh

\* How often a payload is held, by handles that share none.
LEMMA CountOne ==
  ASSUME NEW f \in Entries, NEW p,
         \A c, d \in DOMAIN f : f[c] = f[d] => c = d
  PROVE  /\ (\E c \in DOMAIN f : f[c] = p) => Count(f, p) = 1
         /\ (\A c \in DOMAIN f : f[c] # p) => Count(f, p) = 0
<1>1. ASSUME NEW c \in DOMAIN f, f[c] = p PROVE Count(f, p) = 1
  <2>1. Of(f, p) = {c}
    BY <1>1 DEF Of
  <2> QED BY <2>1, FS_Singleton DEF Count
<1>2. ASSUME \A c \in DOMAIN f : f[c] # p PROVE Count(f, p) = 0
  <2>1. Of(f, p) = {}
    BY <1>2 DEF Of
  <2> QED BY <2>1, FS_EmptySet DEF Count
<1> QED BY <1>1, <1>2

LEMMA CountNone ==
  ASSUME NEW f \in Entries, NEW p
  PROVE  Count(f, p) = 0 <=> \A c \in DOMAIN f : f[c] # p
<1>1. Of(f, p) = {} <=> \A c \in DOMAIN f : f[c] # p
  BY DEF Of
<1> QED BY <1>1, OfFinite

LEMMA BornGains ==
  ASSUME NEW H \in Heaps, NEW r, Account(H, r), NEW new \in Maps,
         Cardinality(DOMAIN new) <= Cardinality(Unused(H))
  PROVE  /\ Gains(H, Born(H, new).heap, Born(H, new).entries, new)
         /\ Fresh(H, Born(H, new).entries)
<1> DEFINE at == Born(H, new).entries
           G  == Born(H, new).heap
<1>1. at \in Entries /\ DOMAIN at = DOMAIN new /\ Fresh(H, at)
  BY BornPlaces
<1>2. G = [H EXCEPT !.refs = [p \in Payloads |-> H.refs[p] + Cardinality({c \in DOMAIN new : at[c] = p})],
                    !.keys = [p \in Payloads |-> H.keys[p] \cup UNION {new[c] : c \in {d \in DOMAIN new : at[d] = p}}]]
  BY DEF Born
<1> HIDE DEF at, G
<1>3. \A p \in Payloads : {c \in DOMAIN new : at[c] = p} = Of(at, p) /\ Count(at, p) \in Nat
  BY <1>1, OfFinite DEF Of
<1>4. SameTables(H, G)
  BY <1>2 DEF SameTables, Heaps
<1>5. ASSUME NEW p \in Payloads PROVE G.refs[p] = H.refs[p] + Count(at, p)
  BY <1>2, <1>3 DEF Heaps, Count
<1>6. ASSUME NEW p \in Payloads
      PROVE  G.keys[p] = H.keys[p] \cup UNION {new[c] : c \in Of(at, p)}
  BY <1>2, <1>3 DEF Heaps
<1>7. ASSUME NEW p \in Payloads, NEW c \in DOMAIN at, at[c] = p
      PROVE  G.keys[p] = new[c] /\ Count(at, p) = 1 /\ H.refs[p] = 0
  <2>1. Of(at, p) = {c}
    BY <1>1, <1>7 DEF Of, Fresh
  <2>2. H.refs[p] = 0 /\ H.keys[p] = {}
    BY <1>1, <1>7 DEF Fresh, Account
  <2>3. G.keys[p] = {} \cup UNION {new[d] : d \in {c}}
    BY <1>6, <2>1, <2>2
  <2>4. UNION {new[d] : d \in {c}} = new[c]
    OBVIOUS
  <2> QED BY <2>1, <2>2, <2>3, <2>4, FS_Singleton DEF Count
<1>8. ASSUME NEW p \in Payloads, \A c \in DOMAIN at : at[c] # p
      PROVE  G.keys[p] = H.keys[p] /\ Count(at, p) = 0
  <2>1. Of(at, p) = {}
    BY <1>8 DEF Of
  <2>2. G.keys[p] = H.keys[p] \cup UNION {new[d] : d \in {}}
    BY <1>6, <2>1
  <2> QED BY <1>1, <1>8, <2>2, CountNone
<1>9. \A c \in DOMAIN at : at[c] \in Payloads /\ new[c] \in SUBSET Lows
  BY <1>1, EntriesElim, MapsElim
<1>10. \A p \in Payloads : G.keys[p] \in SUBSET Lows /\ G.refs[p] \in Nat
  BY <1>3, <1>5, <1>7, <1>8, <1>9 DEF Heaps
<1>11. G \in Heaps
  <2>1. G.refs = [p \in Payloads |-> G.refs[p]] /\ G.keys = [p \in Payloads |-> G.keys[p]]
    BY <1>2 DEF Heaps
  <2>2. G.refs \in [Payloads -> Nat] /\ G.keys \in [Payloads -> SUBSET Lows]
    BY <1>10, <2>1
  <2>3. G = [policy |-> H.policy, entries |-> H.entries, holders |-> H.holders, room |-> H.room,
             keys |-> G.keys, refs |-> G.refs]
    BY <1>2 DEF Heaps
  <2> QED BY <2>2, <2>3 DEF Heaps
<1>12. ASSUME NEW p \in Payloads
       PROVE  /\ H.refs[p] # 0 => G.keys[p] = H.keys[p]
              /\ G.refs[p] > 1 => Refcounted(H)
              /\ G.refs[p] = 0 => G.keys[p] = {}
  <2>1. H.refs[p] \in Nat /\ (H.refs[p] > 1 => Refcounted(H)) /\ (H.refs[p] = 0 => H.keys[p] = {})
    BY DEF Heaps, Account
  <2>2. CASE \E c \in DOMAIN at : at[c] = p
    BY <1>5, <1>7, <2>1, <2>2
  <2>3. CASE \A c \in DOMAIN at : at[c] # p
    BY <1>5, <1>8, <2>1, <2>3
  <2> QED BY <2>2, <2>3
<1>13. \A c \in DOMAIN at : G.keys[at[c]] = new[c]
  BY <1>7, <1>9
<1>14. Gains(H, G, at, new)
  BY <1>1, <1>4, <1>5, <1>11, <1>12, <1>13 DEF Gains
<1> QED BY <1>1, <1>14 DEF at, G

-----------------------------------------------------------------------------
\* Copies of handles.
ValueOf(H, f) == [c \in DOMAIN f |-> H.keys[f[c]]]

LEMMA ValueOfType ==
  ASSUME NEW H \in Heaps, NEW f \in Entries
  PROVE  ValueOf(H, f) \in Maps /\ DOMAIN ValueOf(H, f) = DOMAIN f
<1>1. DOMAIN f \subseteq Chunks /\ f \in [DOMAIN f -> Payloads]
  BY EntriesElim
<1>2. \A c \in DOMAIN f : H.keys[f[c]] \in SUBSET Lows
  BY <1>1 DEF Heaps
<1>3. ValueOf(H, f) \in [DOMAIN f -> SUBSET Lows]
  BY <1>2 DEF ValueOf
<1> QED BY <1>1, <1>3 DEF Maps, ValueOf

LEMMA CopiedGains ==
  ASSUME NEW H \in Heaps, NEW r, Account(H, r), NEW f \in Entries,
         \A c \in DOMAIN f : H.refs[f[c]] # 0,
         Cardinality(DOMAIN f) <= Cardinality(Unused(H))
  PROVE  /\ Gains(H, Copied(H, f).heap, Copied(H, f).entries, ValueOf(H, f))
         /\ Refcounted(H) => Copied(H, f).entries = f
         /\ ~Refcounted(H) => Fresh(H, Copied(H, f).entries)
<1> DEFINE g == Copied(H, f).entries
           G == Copied(H, f).heap
<1>1. CASE ~Refcounted(H)
  <2>1. Copied(H, f) = Born(H, ValueOf(H, f))
    BY <1>1 DEF Copied, ValueOf
  <2> QED BY <1>1, <2>1, ValueOfType, BornGains
<1>2. CASE Refcounted(H)
  <2>1. g = f /\ G = [H EXCEPT !.refs = [p \in Payloads |-> H.refs[p] + Count(f, p)]]
    BY <1>2 DEF Copied, Count, Of
  <2> HIDE DEF g, G
  <2>2. \A p \in Payloads : Count(f, p) \in Nat /\ H.refs[p] \in Nat
    BY OfFinite DEF Heaps
  <2>3. SameTables(H, G) /\ G.keys = H.keys /\ \A p \in Payloads : G.refs[p] = H.refs[p] + Count(f, p)
    BY <2>1 DEF SameTables, Heaps
  <2>4. G \in Heaps
    <3> DEFINE n == [p \in Payloads |-> H.refs[p] + Count(f, p)]
    <3>1. n \in [Payloads -> Nat]
      BY <2>2
    <3>2. G = [H EXCEPT !.refs = n]
      BY <2>1
    <3> HIDE DEF n
    <3> QED BY <3>1, <3>2 DEF Heaps
  <2>5. \A p \in Payloads : G.refs[p] = 0 => H.refs[p] = 0
    BY <2>2, <2>3
  <2>6. \A p \in Payloads : G.refs[p] = 0 => G.keys[p] = {}
    BY <2>3, <2>5 DEF Account
  <2>7. DOMAIN f = DOMAIN ValueOf(H, f) /\ \A c \in DOMAIN f : G.keys[f[c]] = ValueOf(H, f)[c]
    BY <2>3 DEF ValueOf
  <2> QED BY <1>2, <2>1, <2>3, <2>4, <2>6, <2>7 DEF Gains, g, G
<1> QED BY <1>1, <1>2

\* What is gained is held on the way.
LEMMA GainsAccount ==
  ASSUME NEW H \in Heaps, NEW r, Account(H, r), NEW G, NEW f, NEW new, Gains(H, G, f, new)
  PROVE  Account(G, More(r, f))
<1>1. G \in Heaps /\ SameTables(H, G) /\ f \in Entries
  BY DEF Gains
<1>2. \A p \in Payloads : Count(f, p) \in Nat /\ r[p] \in Nat
  BY <1>1, OfFinite DEF Account
<1>3. More(r, f) \in [Payloads -> Nat]
  BY <1>2 DEF More
<1>4. \A t \in Tables : /\ G.holders[t] = 0 => G.entries[t] = NoEntries
                        /\ G.holders[t] > 1 => Counted(G, t)
  BY <1>1 DEF Account, SameTables, Counted, TableSharing, RoomOf
<1>5. ASSUME NEW p \in Payloads PROVE G.refs[p] = Uses(G.entries, p) + More(r, f)[p]
  <2>1. G.refs[p] = H.refs[p] + Count(f, p) /\ G.entries = H.entries
    BY <1>1 DEF Gains, SameTables
  <2>2. H.refs[p] = Uses(H.entries, p) + r[p]
    BY DEF Account
  <2>3. Uses(H.entries, p) \in Nat
    BY OnFinite DEF Heaps
  <2> QED BY <1>2, <2>1, <2>2, <2>3 DEF More
<1>6. \A p \in Payloads : (G.refs[p] > 1 => Refcounted(G)) /\ (G.refs[p] = 0 => G.keys[p] = {})
  BY <1>1 DEF Gains, SameTables, Refcounted
<1> QED BY <1>1, <1>3, <1>4, <1>5, <1>6 DEF Account

-----------------------------------------------------------------------------
(***************************************************************************)
(* Handles a call gives up: table t is left with the entries g, and the    *)
(* handles f are destroyed.                                                *)
(***************************************************************************)
Exchanged(H, f, t, g) == [Dropped(H, f) EXCEPT !.entries[t] = g]

Exchanges(H, G, t, g) ==
  /\ G.policy = H.policy /\ G.holders = H.holders /\ G.room = H.room
  /\ G.entries = [H.entries EXCEPT ![t] = g]
  /\ \A p \in Payloads : /\ G.refs[p] <= H.refs[p]
                         /\ G.refs[p] # 0 => G.keys[p] = H.keys[p]

LEMMA CountSplit ==
  ASSUME NEW f \in Entries, NEW S \in SUBSET DOMAIN f, NEW p
  PROVE  Count(f, p) = Count(Restrict(f, S), p) + Count(Restrict(f, DOMAIN f \ S), p)
<1> DEFINE a == Restrict(f, S)
           b == Restrict(f, DOMAIN f \ S)
<1>1. a \in Entries /\ DOMAIN a = S /\ \A c \in S : a[c] = f[c]
  BY RestrictType
<1>2. b \in Entries /\ DOMAIN b = DOMAIN f \ S /\ \A c \in DOMAIN f \ S : b[c] = f[c]
  <2>1. DOMAIN f \ S \in SUBSET DOMAIN f
    OBVIOUS
  <2> QED BY <2>1, RestrictType
<1> HIDE DEF a, b
<1>3. Of(f, p) = Of(a, p) \cup Of(b, p) /\ Of(a, p) \cap Of(b, p) = {}
  BY <1>1, <1>2 DEF Of
<1>4. IsFiniteSet(Of(a, p)) /\ IsFiniteSet(Of(b, p))
  BY <1>1, <1>2, OfFinite
<1>5. Cardinality(Of(f, p)) = Cardinality(Of(a, p)) + Cardinality(Of(b, p))
  BY <1>3, <1>4, DisjointSum
<1> QED BY <1>5 DEF Count, a, b

\* The entries of a table that g replaces or is added to.
Merged(e, g) == [c \in DOMAIN g \cup DOMAIN e |-> IF c \in DOMAIN g THEN g[c] ELSE e[c]]

LEMMA MergedType ==
  ASSUME NEW e \in Entries, NEW g \in Entries
  PROVE  /\ Merged(e, g) \in Entries
         /\ DOMAIN Merged(e, g) = DOMAIN g \cup DOMAIN e
         /\ \A c \in DOMAIN g : Merged(e, g)[c] = g[c]
         /\ \A c \in DOMAIN e \ DOMAIN g : Merged(e, g)[c] = e[c]
<1>1. DOMAIN e \subseteq Chunks /\ e \in [DOMAIN e -> Payloads]
  BY EntriesElim
<1>2. DOMAIN g \subseteq Chunks /\ g \in [DOMAIN g -> Payloads]
  BY EntriesElim
<1>3. Merged(e, g) \in [DOMAIN g \cup DOMAIN e -> Payloads] /\ DOMAIN Merged(e, g) = DOMAIN g \cup DOMAIN e
  BY <1>1, <1>2 DEF Merged
<1>4. Merged(e, g) \in Entries
  BY <1>1, <1>2, <1>3, EntriesIntro
<1> QED BY <1>3, <1>4 DEF Merged

LEMMA CountMerged ==
  ASSUME NEW e \in Entries, NEW g \in Entries, NEW p
  PROVE  Count(e, p) + Count(g, p)
           = Count(Restrict(e, DOMAIN g \cap DOMAIN e), p) + Count(Merged(e, g), p)
<1> DEFINE m   == Merged(e, g)
           old == Restrict(e, DOMAIN g \cap DOMAIN e)
           new == Restrict(e, DOMAIN e \ (DOMAIN g \cap DOMAIN e))
<1>1. m \in Entries /\ DOMAIN m = DOMAIN g \cup DOMAIN e
  BY MergedType
<1>2. Restrict(m, DOMAIN g) = g
  BY EntriesElim, MergedType DEF Restrict
<1>3. Restrict(m, DOMAIN m \ DOMAIN g) = new
  <2>1. DOMAIN m \ DOMAIN g = DOMAIN e \ (DOMAIN g \cap DOMAIN e)
    BY <1>1
  <2>2. \A c \in DOMAIN e \ (DOMAIN g \cap DOMAIN e) : m[c] = e[c]
    BY MergedType
  <2> HIDE DEF m
  <2> QED BY <2>1, <2>2 DEF Restrict
<1>4. Count(m, p) = Count(g, p) + Count(new, p)
  <2>1. DOMAIN g \in SUBSET DOMAIN m
    BY <1>1
  <2> HIDE DEF m, new
  <2> QED BY <1>1, <1>2, <1>3, <2>1, CountSplit
<1>5. DOMAIN g \cap DOMAIN e \in SUBSET DOMAIN e
  OBVIOUS
<1>6. Count(e, p) = Count(old, p) + Count(new, p)
  BY <1>5, CountSplit
<1>7. old \in Entries /\ new \in Entries
  <2>1. DOMAIN e \ (DOMAIN g \cap DOMAIN e) \in SUBSET DOMAIN e
    OBVIOUS
  <2> QED BY <1>5, <2>1, RestrictType
<1>8. Count(old, p) \in Nat /\ Count(new, p) \in Nat /\ Count(g, p) \in Nat
  BY <1>7, OfFinite
<1> HIDE DEF m, old, new
<1>9. Count(e, p) + Count(g, p) = Count(old, p) + Count(m, p)
  BY <1>4, <1>6, <1>8
<1> QED BY <1>9 DEF m, old

LEMMA DroppedFields ==
  ASSUME NEW H \in Heaps, NEW f \in Entries, \A p \in Payloads : Count(f, p) <= H.refs[p]
  PROVE  /\ Dropped(H, f) \in Heaps /\ SameTables(H, Dropped(H, f))
         /\ \A p \in Payloads :
              /\ Dropped(H, f).refs[p] = H.refs[p] - Count(f, p)
              /\ Dropped(H, f).keys[p] = IF Dropped(H, f).refs[p] = 0 THEN {} ELSE H.keys[p]
<1> DEFINE G == Dropped(H, f)
           n == [p \in Payloads |-> H.refs[p] - Count(f, p)]
           k == [p \in Payloads |-> IF n[p] = 0 THEN {} ELSE H.keys[p]]
<1>1. \A p \in Payloads : Count(f, p) \in Nat /\ H.refs[p] \in Nat /\ H.keys[p] \in SUBSET Lows
  BY OfFinite DEF Heaps
<1>2. \A p \in Payloads : n[p] = H.refs[p] - Count(f, p)
  OBVIOUS
<1>3. \A p \in Payloads : n[p] \in Nat
  BY <1>1, <1>2
<1>4. n \in [Payloads -> Nat]
  BY <1>3
<1>5. k \in [Payloads -> SUBSET Lows] /\ \A p \in Payloads : k[p] = IF n[p] = 0 THEN {} ELSE H.keys[p]
  <2> HIDE DEF n
  <2> QED BY <1>1
<1>6. G = [H EXCEPT !.refs = n, !.keys = k]
  BY DEF Dropped, Count, Of
<1> HIDE DEF n, k, G
<1>7. G \in Heaps /\ G.refs = n /\ G.keys = k /\ SameTables(H, G)
  BY <1>4, <1>5, <1>6 DEF Heaps, SameTables
<1>8. \A p \in Payloads : /\ G.refs[p] = H.refs[p] - Count(f, p)
                          /\ G.keys[p] = IF G.refs[p] = 0 THEN {} ELSE H.keys[p]
  BY <1>2, <1>5, <1>7
<1> QED BY <1>7, <1>8 DEF G

LEMMA DroppedAccount ==
  ASSUME NEW H \in Heaps, NEW r \in [Payloads -> Nat], NEW f \in Entries, Account(H, More(r, f))
  PROVE  /\ Account(Dropped(H, f), r) /\ SameTables(H, Dropped(H, f))
         /\ \A p \in Payloads : /\ Dropped(H, f).refs[p] = H.refs[p] - Count(f, p)
                                /\ Dropped(H, f).refs[p] # 0 => Dropped(H, f).keys[p] = H.keys[p]
<1> DEFINE G == Dropped(H, f)
<1>1. \A p \in Payloads : /\ Count(f, p) \in Nat /\ Uses(H.entries, p) \in Nat /\ r[p] \in Nat
                          /\ H.refs[p] = Uses(H.entries, p) + (r[p] + Count(f, p))
  BY OfFinite, OnFinite DEF Heaps, Account, More
<1>2. \A p \in Payloads : Count(f, p) <= H.refs[p]
  BY <1>1
<1>3. /\ G \in Heaps /\ SameTables(H, G)
      /\ \A p \in Payloads : /\ G.refs[p] = H.refs[p] - Count(f, p)
                             /\ G.keys[p] = IF G.refs[p] = 0 THEN {} ELSE H.keys[p]
  BY <1>2, DroppedFields
<1> HIDE DEF G
<1>4. \A t \in Tables : /\ G.holders[t] = 0 => G.entries[t] = NoEntries
                        /\ G.holders[t] > 1 => Counted(G, t)
  BY <1>3 DEF Account, SameTables, Counted, TableSharing, RoomOf
<1>5. ASSUME NEW p \in Payloads
      PROVE  G.refs[p] = Uses(G.entries, p) + r[p] /\ (G.refs[p] > 1 => H.refs[p] > 1)
  BY <1>1, <1>3 DEF SameTables
<1>6. \A p \in Payloads : /\ G.refs[p] > 1 => Refcounted(G)
                          /\ G.refs[p] = 0 => G.keys[p] = {}
  BY <1>3, <1>5 DEF Account, SameTables, Refcounted
<1>7. Account(G, r)
  BY <1>3, <1>4, <1>5, <1>6 DEF Account
<1> QED BY <1>3, <1>7 DEF G

LEMMA ExchangedAccount ==
  ASSUME NEW H \in Heaps, NEW r, Account(H, r), NEW s \in [Payloads -> Nat],
         NEW t \in Tables, NEW f \in Entries, NEW g \in Entries,
         H.holders[t] # 0 \/ g = NoEntries,
         \A p \in Payloads : Count(H.entries[t], p) + r[p] = Count(f, p) + Count(g, p) + s[p]
  PROVE  Account(Exchanged(H, f, t, g), s) /\ Exchanges(H, Exchanged(H, f, t, g), t, g)
<1> DEFINE D == Dropped(H, f)
           G == Exchanged(H, f, t, g)
           e == H.entries[t]
<1>1. H.entries \in [Tables -> Entries] /\ e \in Entries
  BY DEF Heaps
<1> DEFINE E == [H.entries EXCEPT ![t] = g]
<1>a. E \in [Tables -> Entries]
  BY <1>1
<1>b. ASSUME NEW p \in Payloads
      PROVE  /\ Uses(E, p) + Count(e, p) = Uses(H.entries, p) + Count(g, p)
             /\ Uses(E, p) \in Nat
  <2>1. Uses(E, p) + Count(e, p) = Uses(H.entries, p) + Count(g, p)
    BY <1>1, UsesReplaced
  <2> HIDE DEF E
  <2> QED BY <2>1, <1>a, OnFinite
<1> HIDE DEF E, e
<1>2. ASSUME NEW p \in Payloads
      PROVE  /\ Count(f, p) \in Nat /\ Count(g, p) \in Nat /\ Count(e, p) \in Nat
             /\ Uses(H.entries, p) \in Nat /\ r[p] \in Nat /\ s[p] \in Nat
             /\ H.refs[p] = Uses(H.entries, p) + r[p]
  BY <1>1, OfFinite, OnFinite DEF Account
<1>3. ASSUME NEW p \in Payloads
      PROVE  /\ H.refs[p] - Count(f, p) = Uses(E, p) + s[p]
             /\ Count(f, p) <= H.refs[p]
  <2>1. Count(e, p) + r[p] = Count(f, p) + Count(g, p) + s[p]
    BY DEF e
  <2>2. /\ Count(f, p) \in Nat /\ Count(g, p) \in Nat /\ Count(e, p) \in Nat
        /\ Uses(H.entries, p) \in Nat /\ r[p] \in Nat /\ s[p] \in Nat /\ Uses(E, p) \in Nat
    BY <1>2, <1>b
  <2>3. Uses(E, p) + Count(e, p) = Uses(H.entries, p) + Count(g, p)
    BY <1>b
  <2>4. /\ (Uses(H.entries, p) + r[p]) - Count(f, p) = Uses(E, p) + s[p]
        /\ Count(f, p) <= Uses(H.entries, p) + r[p]
    BY <2>1, <2>2, <2>3
  <2> QED BY <1>2, <2>4
<1>4. /\ D \in Heaps /\ SameTables(H, D)
      /\ \A p \in Payloads : /\ D.refs[p] = H.refs[p] - Count(f, p)
                             /\ D.keys[p] = IF D.refs[p] = 0 THEN {} ELSE H.keys[p]
  BY <1>3, DroppedFields
<1>5. G = [D EXCEPT !.entries[t] = g]
  BY DEF Exchanged
<1> HIDE DEF D, G
<1>6. /\ G \in Heaps /\ G.policy = H.policy /\ G.holders = H.holders /\ G.room = H.room
      /\ G.entries = E /\ G.refs = D.refs /\ G.keys = D.keys
  BY <1>a, <1>4, <1>5 DEF Heaps, SameTables, E
<1>7. \A x \in Tables : /\ G.holders[x] = 0 => G.entries[x] = NoEntries
                        /\ G.holders[x] > 1 => Counted(G, x)
  BY <1>1, <1>6 DEF Account, Counted, TableSharing, RoomOf, E
<1>8. ASSUME NEW p \in Payloads
      PROVE  /\ G.refs[p] = Uses(G.entries, p) + s[p] /\ (G.refs[p] > 1 => H.refs[p] > 1)
             /\ G.refs[p] <= H.refs[p]
  BY <1>2, <1>b, <1>3, <1>4, <1>6
<1>9. \A p \in Payloads : /\ G.refs[p] > 1 => Refcounted(G)
                          /\ G.refs[p] = 0 => G.keys[p] = {}
                          /\ G.refs[p] # 0 => G.keys[p] = H.keys[p]
  BY <1>4, <1>6, <1>8 DEF Account, Refcounted
<1>10. Account(G, s)
  BY <1>6, <1>7, <1>8, <1>9 DEF Account
<1>11. Exchanges(H, G, t, g)
  BY <1>6, <1>8, <1>9 DEF Exchanges, E
<1> QED BY <1>10, <1>11 DEF G

-----------------------------------------------------------------------------
(***************************************************************************)
(* What a table keeps when something is done elsewhere: its entries and    *)
(* what they hold; and the entries that were its own alone still are.      *)
(***************************************************************************)
SameValue(H, G, t) ==
  /\ G.entries[t] = H.entries[t] /\ G.room[t] = H.room[t]
  /\ \A c \in DOMAIN H.entries[t] : G.keys[H.entries[t][c]] = H.keys[H.entries[t][c]]
StaysAlone(H, G, t) ==
  \A c \in DOMAIN H.entries[t] : H.refs[H.entries[t][c]] = 1 => G.refs[H.entries[t][c]] = 1
Untouched(H, G, t) == SameValue(H, G, t) /\ StaysAlone(H, G, t)

LEMMA UntouchedTransitive ==
  ASSUME NEW H, NEW G, NEW K, NEW t
  PROVE  /\ SameValue(H, H, t) /\ Untouched(H, H, t)
         /\ SameValue(H, G, t) /\ SameValue(G, K, t) => SameValue(H, K, t)
         /\ Untouched(H, G, t) /\ Untouched(G, K, t) => Untouched(H, K, t)
BY DEF SameValue, StaysAlone, Untouched

LEMMA EntryType ==
  ASSUME NEW H \in Heaps, NEW t \in Tables, NEW c \in DOMAIN H.entries[t]
  PROVE  H.entries[t][c] \in Payloads /\ c \in Chunks /\ H.entries[t] \in Entries
<1>1. H.entries[t] \in Entries
  BY DEF Heaps
<1> QED BY <1>1, EntriesElim

\* An entry is a handle: its payload is in use; two on one payload are shared,
\* and so is one whose payload a call holds as well.
LEMMA InUse ==
  ASSUME NEW H, NEW r, Account(H, r), NEW t \in Tables, NEW c \in DOMAIN H.entries[t]
  PROVE  /\ H.refs[H.entries[t][c]] \in Nat /\ H.refs[H.entries[t][c]] >= 1
         /\ H.refs[H.entries[t][c]] = 1 => r[H.entries[t][c]] = 0
<1> DEFINE p == H.entries[t][c]
<1>1. H \in Heaps /\ p \in Payloads /\ c \in Chunks
  BY EntryType DEF Account
<1>2. <<t, c>> \in On(H.entries, p)
  BY <1>1 DEF On
<1>3. Uses(H.entries, p) \in Nat /\ Uses(H.entries, p) # 0
  BY <1>1, <1>2, OnFinite DEF Heaps
<1>4. H.refs[p] = Uses(H.entries, p) + r[p] /\ r[p] \in Nat
  BY <1>1 DEF Account
<1> HIDE DEF p
<1>5. H.refs[p] \in Nat /\ H.refs[p] >= 1 /\ (H.refs[p] = 1 => r[p] = 0)
  BY <1>3, <1>4
<1> QED BY <1>5 DEF p

LEMMA TwoInUse ==
  ASSUME NEW H, NEW r, Account(H, r),
         NEW t \in Tables, NEW c \in DOMAIN H.entries[t],
         NEW u \in Tables, NEW d \in DOMAIN H.entries[u],
         H.entries[t][c] = H.entries[u][d], <<t, c>> # <<u, d>>
  PROVE  H.refs[H.entries[t][c]] > 1
<1> DEFINE p == H.entries[t][c]
<1>1. H \in Heaps /\ p \in Payloads /\ c \in Chunks /\ d \in Chunks
  BY EntryType DEF Account
<1>2. <<t, c>> \in On(H.entries, p) /\ <<u, d>> \in On(H.entries, p)
  BY <1>1 DEF On
<1>3. IsFiniteSet(On(H.entries, p)) /\ Uses(H.entries, p) \in Nat
  BY <1>1, OnFinite DEF Heaps
<1>4. Uses(H.entries, p) # 0 /\ Uses(H.entries, p) # 1
  <2>1. Uses(H.entries, p) = 1 => \E x : On(H.entries, p) = {x}
    BY <1>3, FS_Singleton DEF Uses
  <2>2. Uses(H.entries, p) # 1
    BY <1>2, <2>1
  <2>3. Uses(H.entries, p) # 0
    BY <1>2, <1>1, OnFinite DEF Heaps
  <2> QED BY <2>2, <2>3
<1>5. H.refs[p] = Uses(H.entries, p) + r[p] /\ r[p] \in Nat
  BY <1>1 DEF Account
<1> HIDE DEF p
<1>6. H.refs[p] > 1
  BY <1>3, <1>4, <1>5
<1> QED BY <1>6 DEF p

\* A table an exchange is not made in.
LEMMA ExchangesElsewhere ==
  ASSUME NEW H, NEW r, Account(H, r), NEW G, NEW s, Account(G, s),
         NEW t \in Tables, NEW g, Exchanges(H, G, t, g), NEW x \in Tables \ {t}
  PROVE  Untouched(H, G, x)
<1>1. H \in Heaps /\ G \in Heaps
  BY DEF Account
<1>2. G.entries[x] = H.entries[x] /\ G.room[x] = H.room[x]
  BY <1>1 DEF Exchanges, Heaps
<1>3. ASSUME NEW c \in DOMAIN H.entries[x]
      PROVE  /\ G.keys[H.entries[x][c]] = H.keys[H.entries[x][c]]
             /\ H.refs[H.entries[x][c]] = 1 => G.refs[H.entries[x][c]] = 1
  <2>1. H.entries[x][c] \in Payloads
    BY <1>1, EntryType
  <2>2. G.refs[H.entries[x][c]] \in Nat /\ G.refs[H.entries[x][c]] >= 1
    BY <1>2, InUse
  <2>3. G.refs[H.entries[x][c]] <= H.refs[H.entries[x][c]]
    BY <2>1 DEF Exchanges
  <2>4. G.refs[H.entries[x][c]] # 0 => G.keys[H.entries[x][c]] = H.keys[H.entries[x][c]]
    BY <2>1 DEF Exchanges
  <2> QED BY <2>2, <2>3, <2>4
<1> QED BY <1>2, <1>3 DEF Untouched, SameValue, StaysAlone

\* What is gained is held elsewhere too, or by nobody.
LEMMA GainsElsewhere ==
  ASSUME NEW H, NEW r, Account(H, r), NEW G, NEW f, NEW new, Gains(H, G, f, new), NEW x \in Tables
  PROVE  /\ SameValue(H, G, x)
         /\ (\A c \in DOMAIN H.entries[x] : H.refs[H.entries[x][c]] = 1 => Count(f, H.entries[x][c]) = 0)
              => Untouched(H, G, x)
<1>1. H \in Heaps /\ G.entries = H.entries /\ G.room = H.room
  BY DEF Account, Gains, SameTables
<1>2. ASSUME NEW c \in DOMAIN H.entries[x]
      PROVE  /\ G.keys[H.entries[x][c]] = H.keys[H.entries[x][c]]
             /\ G.refs[H.entries[x][c]] = H.refs[H.entries[x][c]] + Count(f, H.entries[x][c])
  <2>1. H.entries[x][c] \in Payloads
    BY <1>1, EntryType
  <2>2. H.refs[H.entries[x][c]] # 0
    BY InUse
  <2> QED BY <2>1, <2>2 DEF Gains
<1>3. SameValue(H, G, x)
  BY <1>1, <1>2 DEF SameValue
<1>4. ASSUME \A c \in DOMAIN H.entries[x] : H.refs[H.entries[x][c]] = 1 => Count(f, H.entries[x][c]) = 0
      PROVE  StaysAlone(H, G, x)
  BY <1>2, <1>4 DEF StaysAlone
<1> QED BY <1>3, <1>4 DEF Untouched

LEMMA FreshElsewhere ==
  ASSUME NEW H, NEW r, Account(H, r), NEW G, NEW f, NEW new, Gains(H, G, f, new), Fresh(H, f),
         NEW x \in Tables
  PROVE  Untouched(H, G, x)
<1>1. ASSUME NEW c \in DOMAIN H.entries[x] PROVE Count(f, H.entries[x][c]) = 0
  <2>1. H.refs[H.entries[x][c]] # 0
    BY InUse
  <2>2. \A d \in DOMAIN f : f[d] # H.entries[x][c]
    BY <2>1 DEF Fresh
  <2>3. f \in Entries
    BY DEF Gains
  <2> QED BY <2>2, <2>3, CountNone
<1> QED BY <1>1, GainsElsewhere

LEMMA CopiedElsewhere ==
  ASSUME NEW H, NEW r, Account(H, r), NEW u \in Tables, NEW G, NEW f, NEW new, Gains(H, G, f, new),
         \A c \in DOMAIN f : \E d \in DOMAIN H.entries[u] : f[c] = H.entries[u][d],
         NEW x \in Tables \ {u}
  PROVE  Untouched(H, G, x)
<1>1. ASSUME NEW c \in DOMAIN H.entries[x], H.refs[H.entries[x][c]] = 1
      PROVE  Count(f, H.entries[x][c]) = 0
  <2>1. ASSUME NEW d \in DOMAIN f PROVE f[d] # H.entries[x][c]
    BY <1>1, TwoInUse
  <2>2. f \in Entries
    BY DEF Gains
  <2> QED BY <2>1, <2>2, CountNone
<1> QED BY <1>1, GainsElsewhere

-----------------------------------------------------------------------------
\* Entries put in a table, and cut from it.
LEMMA PutAccount ==
  ASSUME NEW H \in Heaps, NEW r \in [Payloads -> Nat], NEW g \in Entries, Account(H, More(r, g)),
         NEW t \in Tables, H.holders[t] # 0
  PROVE  Account(Put(H, t, g), r) /\ Exchanges(H, Put(H, t, g), t, Merged(H.entries[t], g))
<1> DEFINE e   == H.entries[t]
           old == Restrict(e, DOMAIN g \cap DOMAIN e)
<1>1. e \in Entries
  BY DEF Heaps
<1>2. old \in Entries
  <2>1. DOMAIN g \cap DOMAIN e \in SUBSET DOMAIN e
    OBVIOUS
  <2> QED BY <1>1, <2>1, RestrictType
<1>3. Merged(e, g) \in Entries
  BY <1>1, MergedType
<1>4. ASSUME NEW p \in Payloads
      PROVE  /\ Count(e, p) + More(r, g)[p] = Count(old, p) + Count(Merged(e, g), p) + r[p]
             /\ Count(old, p) <= H.refs[p]
  <2>1. Count(e, p) + Count(g, p) = Count(old, p) + Count(Merged(e, g), p)
    BY <1>1, CountMerged
  <2>2. More(r, g)[p] = r[p] + Count(g, p)
    BY DEF More
  <2>3. Count(e, p) \in Nat /\ Count(g, p) \in Nat /\ Count(old, p) \in Nat /\ r[p] \in Nat
        /\ Count(Merged(e, g), p) \in Nat
    BY <1>1, <1>2, <1>3, OfFinite
  <2>4. H.refs[p] = Uses(H.entries, p) + More(r, g)[p]
    BY DEF Account
  <2>5. DOMAIN g \cap DOMAIN e \in SUBSET DOMAIN e
    OBVIOUS
  <2>6. Count(old, p) <= Uses(H.entries, p)
    <3>1. {t} \X Of(old, p) \subseteq On(H.entries, p)
      BY <1>1, <2>5, RestrictType, EntriesElim DEF Of, On
    <3>2. IsFiniteSet(On(H.entries, p))
      BY OnFinite DEF Heaps
    <3>3. IsFiniteSet(Of(old, p))
      BY <1>2, OfFinite
    <3>4. Cardinality({t} \X Of(old, p)) = Cardinality(Of(old, p))
      BY <3>3, PairsWith
    <3> QED BY <3>1, <3>2, <3>4, FS_Subset DEF Count, Uses
  <2>7. Uses(H.entries, p) \in Nat
    BY OnFinite DEF Heaps
  <2> HIDE DEF e, old
  <2> QED BY <2>1, <2>2, <2>3, <2>4, <2>6, <2>7
<1>5. SameTables(H, Dropped(H, old))
  BY <1>2, <1>4, DroppedFields
<1>6. Put(H, t, g) = Exchanged(H, old, t, Merged(e, g))
  <2>1. Dropped(H, old).entries[t] = e
    BY <1>5 DEF SameTables
  <2> QED BY <2>1, <1>5 DEF Put, Exchanged, Merged, SameTables
<1> HIDE DEF e, old
<1>7. \A p \in Payloads : Count(H.entries[t], p) + More(r, g)[p]
                            = Count(old, p) + Count(Merged(e, g), p) + r[p]
  BY <1>4 DEF e
<1>8. Account(Exchanged(H, old, t, Merged(e, g)), r)
      /\ Exchanges(H, Exchanged(H, old, t, Merged(e, g)), t, Merged(e, g))
  BY <1>2, <1>3, <1>7, ExchangedAccount
<1> QED BY <1>6, <1>8 DEF e

Cut(H, t, S) == Exchanged(H, Restrict(H.entries[t], S), t, Restrict(H.entries[t], DOMAIN H.entries[t] \ S))

LEMMA CutAccount ==
  ASSUME NEW H \in Heaps, NEW r, Account(H, r), NEW t \in Tables, NEW S \in SUBSET DOMAIN H.entries[t],
         H.holders[t] # 0 \/ S = DOMAIN H.entries[t]
  PROVE  /\ Account(Cut(H, t, S), r)
         /\ Exchanges(H, Cut(H, t, S), t, Restrict(H.entries[t], DOMAIN H.entries[t] \ S))
<1> DEFINE e == H.entries[t]
           f == Restrict(e, S)
           g == Restrict(e, DOMAIN e \ S)
<1>1. e \in Entries /\ r \in [Payloads -> Nat]
  BY DEF Heaps, Account
<1>2. f \in Entries /\ g \in Entries /\ DOMAIN g = DOMAIN e \ S
  <2>1. DOMAIN e \ S \in SUBSET DOMAIN e
    OBVIOUS
  <2> QED BY <1>1, <2>1, RestrictType
<1>3. ASSUME NEW p \in Payloads
      PROVE  Count(e, p) + r[p] = Count(f, p) + Count(g, p) + r[p]
  BY <1>1, CountSplit
<1>4. H.holders[t] # 0 \/ g = NoEntries
  BY <1>2, NoEntriesOnly
<1> HIDE DEF f, g
<1>5. \A p \in Payloads : Count(H.entries[t], p) + r[p] = Count(f, p) + Count(g, p) + r[p]
  BY <1>3
<1>6. Account(Exchanged(H, f, t, g), r) /\ Exchanges(H, Exchanged(H, f, t, g), t, g)
  BY <1>1, <1>2, <1>4, <1>5, ExchangedAccount
<1> QED BY <1>6 DEF Cut, f, g

-----------------------------------------------------------------------------
\* The barrier: the entry of c is on a payload of its own, with the same keys.
SameBlocks(H, G) == G.policy = H.policy /\ G.holders = H.holders /\ G.room = H.room

Owned(H, G, t, c) ==
  /\ SameBlocks(H, G)
  /\ DOMAIN G.entries[t] = DOMAIN H.entries[t]
  /\ \A d \in DOMAIN H.entries[t] :
       /\ G.keys[G.entries[t][d]] = H.keys[H.entries[t][d]]
       /\ H.refs[H.entries[t][d]] = 1 => G.refs[G.entries[t][d]] = 1
       /\ d # c => G.entries[t][d] = H.entries[t][d]
  /\ G.refs[G.entries[t][c]] = 1
  /\ \A x \in Tables \ {t} : Untouched(H, G, x)

LEMMA SingletonMap ==
  ASSUME NEW c \in Chunks, NEW K \in SUBSET Lows
  PROVE  /\ [d \in {c} |-> K] \in Maps /\ DOMAIN [d \in {c} |-> K] = {c}
         /\ Cardinality(DOMAIN [d \in {c} |-> K]) = 1 /\ [d \in {c} |-> K][c] = K
<1> DEFINE m == [d \in {c} |-> K]
<1>1. m \in [{c} -> SUBSET Lows] /\ DOMAIN m = {c} /\ m[c] = K
  OBVIOUS
<1> HIDE DEF m
<1>2. m \in Maps
  BY <1>1, MapsIntro
<1>3. Cardinality(DOMAIN m) = 1
  BY <1>1, FS_Singleton
<1> QED BY <1>1, <1>2, <1>3 DEF m

LEMMA OwnAccount ==
  ASSUME NEW H, NEW r, Account(H, r), NEW t \in Tables, H.holders[t] # 0,
         NEW c \in DOMAIN H.entries[t], 1 <= Cardinality(Unused(H))
  PROVE  Account(Own(H, t, c), r) /\ Owned(H, Own(H, t, c), t, c)
<1>1. H \in Heaps /\ r \in [Payloads -> Nat] /\ H.entries[t] \in Entries
  BY DEF Account, Heaps
<1>2. CASE Unshared(H, t, c)
  <2>1. Own(H, t, c) = H
    BY <1>2 DEF Own
  <2> QED BY <1>2, <2>1, UntouchedTransitive DEF Owned, SameBlocks, Unshared
<1>3. CASE ~Unshared(H, t, c)
  <2> DEFINE K    == H.keys[H.entries[t][c]]
             new  == [d \in {c} |-> K]
             B    == Born(H, new).heap
             f    == Born(H, new).entries
             G    == Put(B, t, f)
  <2>1. Own(H, t, c) = G
    BY <1>3 DEF Own
  <2>2. K \in SUBSET Lows /\ c \in Chunks
    BY <1>1, EntryType DEF Heaps
  <2> HIDE DEF K
  <2>3. new \in Maps /\ DOMAIN new = {c} /\ Cardinality(DOMAIN new) = 1 /\ new[c] = K
    BY <2>2, SingletonMap
  <2> HIDE DEF new
  <2>4. Gains(H, B, f, new) /\ Fresh(H, f)
    BY <1>1, <2>3, BornGains
  <2>5. Account(B, More(r, f))
    BY <1>1, <2>4, GainsAccount
  <2>6. f \in Entries /\ DOMAIN f = {c} /\ SameTables(H, B) /\ B \in Heaps
    BY <2>3, <2>4 DEF Gains
  <2>7. B.holders[t] # 0 /\ B.entries[t] = H.entries[t]
    BY <2>6 DEF SameTables
  <2> HIDE DEF B, f
  <2>8. Account(G, r) /\ Exchanges(B, G, t, Merged(B.entries[t], f))
    BY <1>1, <2>5, <2>6, <2>7, PutAccount
  <2> HIDE DEF G
  <2>9. \A x \in Tables \ {t} : Untouched(H, G, x)
    <3> SUFFICES ASSUME NEW x \in Tables \ {t} PROVE Untouched(H, G, x)
      OBVIOUS
    <3>1. Untouched(H, B, x)
      BY <2>4, FreshElsewhere
    <3>2. Untouched(B, G, x)
      BY <2>5, <2>8, ExchangesElsewhere
    <3> QED BY <3>1, <3>2, UntouchedTransitive
  <2>10. /\ G.entries[t] = Merged(H.entries[t], f)
         /\ SameBlocks(H, G)
    BY <2>6, <2>7, <2>8 DEF Exchanges, SameBlocks, SameTables, Heaps
  <2>11. /\ DOMAIN G.entries[t] = DOMAIN H.entries[t]
         /\ G.entries[t][c] = f[c]
         /\ \A d \in DOMAIN H.entries[t] : d # c => G.entries[t][d] = H.entries[t][d]
    <3> DEFINE m == Merged(H.entries[t], f)
    <3>1. /\ DOMAIN m = DOMAIN f \cup DOMAIN H.entries[t]
          /\ \A d \in DOMAIN f : m[d] = f[d]
          /\ \A d \in DOMAIN H.entries[t] \ DOMAIN f : m[d] = H.entries[t][d]
      BY <1>1, <2>6, MergedType
    <3>2. G.entries[t] = m
      BY <2>10
    <3> HIDE DEF m
    <3> QED BY <2>6, <3>1, <3>2
  <2>12. f[c] \in Payloads /\ B.refs[f[c]] = 1 /\ B.keys[f[c]] = K
    <3>1. f[c] \in Payloads
      BY <2>6, EntriesElim
    <3>2. H.refs[f[c]] = 0 /\ Count(f, f[c]) = 1
      BY <2>4, <2>6, CountOne DEF Fresh
    <3> QED BY <2>3, <2>4, <2>6, <3>1, <3>2 DEF Gains
  <2>13. G.refs[f[c]] = 1 /\ G.keys[f[c]] = K
    <3>1. G.refs[f[c]] \in Nat /\ G.refs[f[c]] >= 1
      BY <2>8, <2>11, InUse
    <3>2. G.refs[f[c]] <= B.refs[f[c]] /\ (G.refs[f[c]] # 0 => G.keys[f[c]] = B.keys[f[c]])
      BY <2>8, <2>12 DEF Exchanges
    <3> QED BY <2>12, <3>1, <3>2
  <2>14. ASSUME NEW d \in DOMAIN H.entries[t], d # c
         PROVE  /\ G.keys[G.entries[t][d]] = H.keys[H.entries[t][d]]
                /\ H.refs[H.entries[t][d]] = 1 => G.refs[G.entries[t][d]] = 1
    <3> DEFINE p == H.entries[t][d]
    <3>1. p \in Payloads /\ G.entries[t][d] = p
      BY <1>1, <2>11, <2>14, EntryType
    <3>2. SameValue(H, B, t) /\ Untouched(H, B, t)
      BY <2>4, FreshElsewhere DEF Untouched
    <3>3. B.keys[p] = H.keys[p] /\ (H.refs[p] = 1 => B.refs[p] = 1)
      BY <3>2 DEF SameValue, Untouched, StaysAlone
    <3>4. G.refs[p] \in Nat /\ G.refs[p] >= 1
      BY <2>8, <2>11, <3>1, InUse
    <3>5. G.refs[p] <= B.refs[p] /\ (G.refs[p] # 0 => G.keys[p] = B.keys[p])
      BY <2>8, <3>1 DEF Exchanges
    <3> HIDE DEF p
    <3>6. G.keys[p] = H.keys[p] /\ (H.refs[p] = 1 => G.refs[p] = 1)
      BY <3>3, <3>4, <3>5
    <3> QED BY <3>1, <3>6 DEF p
  <2>15. ASSUME NEW d \in DOMAIN H.entries[t]
         PROVE  /\ G.keys[G.entries[t][d]] = H.keys[H.entries[t][d]]
                /\ H.refs[H.entries[t][d]] = 1 => G.refs[G.entries[t][d]] = 1
    BY <2>11, <2>13, <2>14 DEF K
  <2> QED BY <2>1, <2>8, <2>9, <2>10, <2>11, <2>13, <2>15 DEF Owned
<1> QED BY <1>2, <1>3

-----------------------------------------------------------------------------
\* Writing the keys of an entry whose payload is its own.
Writes(H, G, t, c, K) ==
  /\ SameBlocks(H, G) /\ G.entries = H.entries /\ G.refs = H.refs
  /\ G.keys[H.entries[t][c]] = K
  /\ \A d \in DOMAIN H.entries[t] \ {c} : G.keys[H.entries[t][d]] = H.keys[H.entries[t][d]]
  /\ \A x \in Tables \ {t} : Untouched(H, G, x)

LEMMA WrittenAccount ==
  ASSUME NEW H, NEW r, Account(H, r), NEW t \in Tables, NEW c \in DOMAIN H.entries[t],
         Unshared(H, t, c), NEW K \in SUBSET Lows
  PROVE  Account(Written(H, t, c, K), r) /\ Writes(H, Written(H, t, c, K), t, c, K)
<1> DEFINE G == Written(H, t, c, K)
           p == H.entries[t][c]
<1>1. H \in Heaps /\ p \in Payloads /\ H.refs[p] = 1
  BY EntryType DEF Account, Unshared
<1>2. G = [H EXCEPT !.keys[p] = K]
  BY DEF Written
<1> HIDE DEF p, G
<1>3. /\ G \in Heaps /\ SameTables(H, G) /\ G.refs = H.refs
      /\ G.keys = [H.keys EXCEPT ![p] = K]
  BY <1>1, <1>2 DEF Heaps, SameTables
<1>4. G.keys[p] = K /\ \A q \in Payloads : q # p => G.keys[q] = H.keys[q]
  BY <1>1, <1>3 DEF Heaps
<1>5. Account(G, r)
  <2>1. \A x \in Tables : /\ G.holders[x] = 0 => G.entries[x] = NoEntries
                          /\ G.holders[x] > 1 => Counted(G, x)
    BY <1>3 DEF Account, SameTables, Counted, TableSharing, RoomOf
  <2>2. \A q \in Payloads : /\ G.refs[q] = Uses(G.entries, q) + r[q]
                            /\ G.refs[q] > 1 => Refcounted(G)
    BY <1>3 DEF Account, SameTables, Refcounted
  <2>3. \A q \in Payloads : G.refs[q] = 0 => G.keys[q] = {}
    BY <1>1, <1>3, <1>4 DEF Account
  <2> QED BY <1>3, <2>1, <2>2, <2>3 DEF Account
<1>6. ASSUME NEW x \in Tables, NEW d \in DOMAIN H.entries[x], <<x, d>> # <<t, c>>
      PROVE  G.keys[H.entries[x][d]] = H.keys[H.entries[x][d]]
  <2>1. H.entries[x][d] # p
    BY <1>1, <1>6, TwoInUse DEF p
  <2>2. H.entries[x][d] \in Payloads
    BY <1>1, EntryType
  <2> QED BY <1>4, <2>1, <2>2
<1>7. \A x \in Tables \ {t} : Untouched(H, G, x)
  BY <1>3, <1>6 DEF Untouched, SameValue, StaysAlone, SameTables
<1>8. \A d \in DOMAIN H.entries[t] \ {c} : G.keys[H.entries[t][d]] = H.keys[H.entries[t][d]]
  BY <1>6
<1>9. Writes(H, G, t, c, K)
  BY <1>3, <1>4, <1>7, <1>8 DEF Writes, SameBlocks, SameTables, p
<1> QED BY <1>5, <1>9 DEF G

-----------------------------------------------------------------------------
(***************************************************************************)
(* Room for what a call allocates: one more table than those held, and     *)
(* payloads for one more table of containers than those that are full.     *)
(***************************************************************************)
Live(H) == {t \in Tables : H.holders[t] # 0}
Spacious(H) == /\ Cardinality(Live(H)) < Cardinality(Tables)
               /\ (Cardinality(Live(H)) + 1) * Cardinality(Chunks) <= Cardinality(Payloads)

LEMMA LiveFinite ==
  ASSUME NEW H
  PROVE  IsFiniteSet(Live(H)) /\ Cardinality(Live(H)) \in Nat
<1>1. Live(H) \in SUBSET Tables
  BY DEF Live
<1> QED BY <1>1, FS_Subset, FS_CardinalityType, AddressAssumption

LEMMA UnusedEnough ==
  ASSUME NEW H, NEW r, Account(H, r), Spacious(H)
  PROVE  Cardinality(Chunks) <= Cardinality(Unused(H)) + Cardinality(Support(r))
<1> DEFINE A == {at \in Live(H) \X Chunks : at[2] \in DOMAIN H.entries[at[1]]}
           F == [at \in A |-> H.entries[at[1]][at[2]]]
           used == {p \in Payloads : H.refs[p] # 0}
<1>1. IsFiniteSet(Live(H)) /\ Cardinality(Live(H)) \in Nat /\ Cardinality(Chunks) \in Nat
      /\ Cardinality(Payloads) \in Nat /\ H \in Heaps
  BY LiveFinite, FS_CardinalityType, AddressAssumption DEF Account
<1>2. IsFiniteSet(Live(H) \X Chunks)
      /\ Cardinality(Live(H) \X Chunks) = Cardinality(Live(H)) * Cardinality(Chunks)
  BY <1>1, FS_Product, AddressAssumption
<1>3. IsFiniteSet(A) /\ Cardinality(A) <= Cardinality(Live(H)) * Cardinality(Chunks)
  <2>1. A \in SUBSET (Live(H) \X Chunks)
    OBVIOUS
  <2> HIDE DEF A
  <2> QED BY <1>2, <2>1, FS_Subset
<1>4. F \in Surjection(A, Range(F))
  <2> HIDE DEF A
  <2> QED BY DEF Surjection, Range
<1>5. IsFiniteSet(Range(F)) /\ Cardinality(Range(F)) <= Cardinality(A)
  <2> HIDE DEF A, F
  <2> QED BY <1>3, <1>4, FS_Surjection
<1>6. used \subseteq Range(F) \cup Support(r)
  <2> SUFFICES ASSUME NEW p \in Payloads, H.refs[p] # 0, p \notin Support(r) PROVE p \in Range(F)
    OBVIOUS
  <2>1. Uses(H.entries, p) # 0
    <3>1. H.refs[p] = Uses(H.entries, p) + 0 /\ Uses(H.entries, p) \in Nat
      BY <1>1, OnFinite DEF Account, Support, Heaps
    <3> QED BY <3>1
  <2>2. PICK at \in On(H.entries, p) : TRUE
    BY <1>1, <2>1, OnFinite DEF Heaps
  <2>3. at \in Tables \X Chunks /\ at[2] \in DOMAIN H.entries[at[1]] /\ H.entries[at[1]][at[2]] = p
    BY <2>2 DEF On
  <2>4. at[1] \in Live(H)
    BY <2>3, NoEntriesType DEF Account, Live
  <2>5. at \in A
    BY <2>3, <2>4
  <2>6. F[at] = p /\ DOMAIN F = A
    BY <2>3, <2>5
  <2> HIDE DEF F, A
  <2> QED BY <2>5, <2>6 DEF Range
<1>7. IsFiniteSet(Support(r)) /\ Cardinality(Support(r)) \in Nat
  <2>1. Support(r) \in SUBSET Payloads
    BY DEF Support
  <2> QED BY <2>1, FS_Subset, FS_CardinalityType, AddressAssumption
<1>8. IsFiniteSet(used) /\ Cardinality(used) \in Nat /\ IsFiniteSet(Unused(H)) /\ Cardinality(Unused(H)) \in Nat
      /\ Cardinality(used) + Cardinality(Unused(H)) = Cardinality(Payloads)
  <2>1. used \in SUBSET Payloads /\ Unused(H) \in SUBSET Payloads
    BY DEF Unused
  <2>2. used \cap Unused(H) = {} /\ used \cup Unused(H) = Payloads
    BY DEF Unused
  <2>3. IsFiniteSet(used) /\ IsFiniteSet(Unused(H))
    BY <2>1, FS_Subset, AddressAssumption
  <2> HIDE DEF used
  <2> QED BY <2>2, <2>3, FS_CardinalityType, DisjointSum
<1> HIDE DEF used, F, A
<1>9. Cardinality(used) <= Cardinality(Range(F)) + Cardinality(Support(r))
  <2> DEFINE R == Range(F)
  <2>1. IsFiniteSet(R) /\ Cardinality(R) \in Nat
    BY <1>5, FS_CardinalityType
  <2> HIDE DEF R
  <2>2. IsFiniteSet(R \cup Support(r))
        /\ Cardinality(R \cup Support(r)) = Cardinality(R) + Cardinality(Support(r)) - Cardinality(R \cap Support(r))
    BY <2>1, <1>7, FS_Union
  <2>3. Cardinality(R \cap Support(r)) \in Nat
    BY <2>1, FS_Intersection, FS_CardinalityType
  <2>4. used \subseteq R \cup Support(r)
    BY <1>6 DEF R
  <2>5. Cardinality(used) <= Cardinality(R \cup Support(r))
    BY <2>2, <2>4, FS_Subset
  <2>6. Cardinality(used) <= Cardinality(R) + Cardinality(Support(r))
    BY <2>1, <2>2, <2>3, <2>5, <1>7, <1>8
  <2> QED BY <2>6 DEF R
<1>10. Cardinality(Range(F)) \in Nat /\ Cardinality(A) \in Nat
  BY <1>3, <1>5, FS_CardinalityType
<1>11. Cardinality(Live(H)) * Cardinality(Chunks) + Cardinality(Chunks) <= Cardinality(Payloads)
  <2>1. (Cardinality(Live(H)) + 1) * Cardinality(Chunks) <= Cardinality(Payloads)
    BY DEF Spacious
  <2>2. (Cardinality(Live(H)) + 1) * Cardinality(Chunks)
          = Cardinality(Live(H)) * Cardinality(Chunks) + Cardinality(Chunks)
    BY <1>1
  <2> QED BY <2>1, <2>2
<1>12. Cardinality(Live(H)) * Cardinality(Chunks) \in Nat
  BY <1>1
<1> HIDE DEF Live
<1> QED BY <1>1, <1>3, <1>5, <1>7, <1>8, <1>9, <1>10, <1>11, <1>12

-----------------------------------------------------------------------------
(***************************************************************************)
(* Blocks allocated, freed, let go of.  A store that held block t holds n: *)
(***************************************************************************)
Held1(t, x) == IF x = t THEN 1 ELSE 0
HolderMoves(H, G, t, n) ==
  \A x \in Tables : G.holders[x] = H.holders[x] + Held1(n, x) - Held1(t, x)

LEMMA NullIsNoTable == Null \notin Tables /\ Null \notin Payloads /\ Null \in Nat
BY AddressAssumption DEF Null

LEMMA EntriesOfType ==
  ASSUME NEW H \in Heaps, NEW t \in Tables \cup {Null}
  PROVE  /\ EntriesOf(H, t) \in Entries /\ RoomOf(H, t) \in Nat /\ Length(H, t) \in Nat
         /\ t \in Tables => EntriesOf(H, t) = H.entries[t] /\ RoomOf(H, t) = H.room[t]
         /\ t = Null => EntriesOf(H, t) = NoEntries /\ DOMAIN EntriesOf(H, t) = {}
<1>1. EntriesOf(H, t) \in Entries /\ RoomOf(H, t) \in Nat
  BY NoEntriesType DEF EntriesOf, RoomOf, Heaps
<1>2. Length(H, t) \in Nat
  BY <1>1, EntriesElim, FS_CardinalityType DEF Length
<1> QED BY <1>1, <1>2, NullIsNoTable, NoEntriesType DEF EntriesOf, RoomOf

LEMMA FreeTableExists ==
  ASSUME NEW H \in Heaps, Cardinality(Live(H)) < Cardinality(Tables)
  PROVE  FreeTable(H) \in Tables /\ H.holders[FreeTable(H)] = 0
<1> DEFINE free == {t \in Tables : H.holders[t] = 0}
<1>1. free \in SUBSET Nat /\ IsFiniteSet(free)
  <2>1. free \in SUBSET Tables
    OBVIOUS
  <2> QED BY <2>1, FS_Subset, AddressAssumption
<1>2. free # {}
  <2>1. free = {} => Live(H) = Tables
    BY DEF Live
  <2>2. Cardinality(Live(H)) \in Nat /\ Cardinality(Tables) \in Nat
    BY LiveFinite, FS_CardinalityType, AddressAssumption
  <2>3. Live(H) # Tables
    BY <2>2
  <2> QED BY <2>1, <2>3
<1>3. Cardinality(free) \in Nat /\ Cardinality(free) # 0
  BY <1>1, <1>2, FS_CardinalityType, FS_EmptySet
<1>4. \E t \in free : Below(free, t) = 0
  <2> DEFINE n == 0
  <2>1. n \in Nat /\ n < Cardinality(free)
    BY <1>3
  <2> HIDE DEF n
  <2>2. \E t \in free : Below(free, t) = n
    BY <1>1, <2>1, RankExists
  <2> QED BY <2>2 DEF n
<1>5. FreeTable(H) \in free
  BY <1>4 DEF FreeTable
<1> QED BY <1>5

\* An entry a table does not hold is another's, or none.
LEMMA UsesOfFree ==
  ASSUME NEW H, NEW r, Account(H, r), NEW t \in Tables, H.holders[t] = 0, NEW g \in Entries, NEW p
  PROVE  Uses([H.entries EXCEPT ![t] = g], p) = Uses(H.entries, p) + Count(g, p)
<1>1. H.entries \in [Tables -> Entries] /\ H.entries[t] = NoEntries
  BY DEF Account, Heaps
<1>2. Count(NoEntries, p) = 0
  BY NoEntriesType, CountNone
<1>3. Uses([H.entries EXCEPT ![t] = g], p) + 0 = Uses(H.entries, p) + Count(g, p)
  BY <1>1, <1>2, UsesReplaced
<1>4. [H.entries EXCEPT ![t] = g] \in [Tables -> Entries]
  BY <1>1
<1>5. Uses([H.entries EXCEPT ![t] = g], p) \in Nat
  BY <1>4, OnFinite
<1> QED BY <1>3, <1>5

Allocates(H, G, n, f, room) ==
  /\ n \in Tables /\ H.holders[n] = 0
  /\ G.policy = H.policy /\ G.refs = H.refs /\ G.keys = H.keys
  /\ G.entries = [H.entries EXCEPT ![n] = f]
  /\ G.holders = [H.holders EXCEPT ![n] = 1]
  /\ G.room = [H.room EXCEPT ![n] = room]

LEMMA AllocatedFields ==
  ASSUME NEW H \in Heaps, NEW f \in Entries, NEW room \in Nat,
         Cardinality(Live(H)) < Cardinality(Tables)
  PROVE  /\ Allocated(H, f, room).heap \in Heaps
         /\ Allocates(H, Allocated(H, f, room).heap, Allocated(H, f, room).table, f, room)
<1> DEFINE n == FreeTable(H)
           G == Allocated(H, f, room).heap
           e == [H.entries EXCEPT ![n] = f]
           h == [H.holders EXCEPT ![n] = 1]
           m == [H.room EXCEPT ![n] = room]
<1>1. n \in Tables /\ H.holders[n] = 0
  BY FreeTableExists
<1>2. G = [H EXCEPT !.entries = e, !.holders = h, !.room = m] /\ Allocated(H, f, room).table = n
  BY DEF Allocated
<1> HIDE DEF n, G
<1>3. e \in [Tables -> Entries] /\ h \in [Tables -> Nat] /\ m \in [Tables -> Nat]
  BY <1>1 DEF Heaps
<1> HIDE DEF e, h, m
<1>4. G \in Heaps /\ G.policy = H.policy /\ G.refs = H.refs /\ G.keys = H.keys
      /\ G.entries = e /\ G.holders = h /\ G.room = m
  BY <1>2, <1>3 DEF Heaps
<1>5. Allocates(H, G, n, f, room)
  BY <1>1, <1>4 DEF Allocates, e, h, m
<1> QED BY <1>2, <1>4, <1>5 DEF G

LEMMA AllocatesAccount ==
  ASSUME NEW H \in Heaps, NEW r \in [Payloads -> Nat], NEW f \in Entries, NEW room, Account(H, More(r, f)),
         NEW G \in Heaps, NEW n, Allocates(H, G, n, f, room)
  PROVE  /\ Account(G, r)
         /\ \A x \in Tables \ {n} : Untouched(H, G, x)
         /\ \A x \in Tables : G.holders[x] = H.holders[x] + Held1(n, x)
<1>1. n \in Tables /\ H.holders \in [Tables -> Nat] /\ H.entries \in [Tables -> Entries]
      /\ H.room \in [Tables -> Nat]
  BY DEF Allocates, Heaps
<1>2. \A x \in Tables : /\ G.holders[x] = 0 => G.entries[x] = NoEntries
                        /\ G.holders[x] > 1 => Counted(G, x)
  BY <1>1 DEF Account, Allocates, Counted, TableSharing, RoomOf
<1>3. ASSUME NEW p \in Payloads PROVE G.refs[p] = Uses(G.entries, p) + r[p]
  <2>1. H.refs[p] = Uses(H.entries, p) + (r[p] + Count(f, p))
    BY DEF Account, More
  <2>2. Uses(G.entries, p) = Uses(H.entries, p) + Count(f, p) /\ G.refs = H.refs
    BY <1>1, UsesOfFree DEF Allocates
  <2>3. Uses(H.entries, p) \in Nat /\ Count(f, p) \in Nat /\ r[p] \in Nat
    BY <1>1, OnFinite, OfFinite
  <2> QED BY <2>1, <2>2, <2>3
<1>4. \A p \in Payloads : (G.refs[p] > 1 => Refcounted(G)) /\ (G.refs[p] = 0 => G.keys[p] = {})
  BY DEF Account, Allocates, Refcounted
<1>5. Account(G, r)
  BY <1>2, <1>3, <1>4 DEF Account
<1>6. \A x \in Tables \ {n} : Untouched(H, G, x)
  BY <1>1 DEF Untouched, SameValue, StaysAlone, Allocates
<1>7. \A x \in Tables : G.holders[x] = H.holders[x] + Held1(n, x)
  BY <1>1 DEF Allocates, Held1
<1> QED BY <1>5, <1>6, <1>7

LEMMA MoreNone ==
  ASSUME NEW r \in [Payloads -> Nat]
  PROVE  More(r, NoEntries) = r
<1>1. \A p \in Payloads : Count(NoEntries, p) = 0
  BY NoEntriesType, CountNone
<1>2. \A p \in Payloads : r[p] + 0 = r[p]
  OBVIOUS
<1> QED BY <1>1, <1>2 DEF More

-----------------------------------------------------------------------------
\* A table emptied.
Empties(H, G, t) ==
  /\ SameBlocks(H, G)
  /\ t \in Tables => G.entries[t] = NoEntries
  /\ \A x \in Tables \ {t} : Untouched(H, G, x)

LEMMA ExchangeAll ==
  ASSUME NEW H, NEW r, Account(H, r), NEW t \in Tables
  PROVE  LET G == Exchanged(H, H.entries[t], t, NoEntries)
         IN  Account(G, r) /\ Exchanges(H, G, t, NoEntries)
<1> DEFINE e == H.entries[t]
<1>1. H \in Heaps /\ r \in [Payloads -> Nat] /\ e \in Entries /\ NoEntries \in Entries
  BY NoEntriesType DEF Account, Heaps
<1>2. ASSUME NEW p \in Payloads
      PROVE  Count(e, p) + r[p] = Count(e, p) + Count(NoEntries, p) + r[p]
  <2>1. Count(NoEntries, p) = 0 /\ Count(e, p) \in Nat /\ r[p] \in Nat
    BY <1>1, NoEntriesType, CountNone, OfFinite
  <2> HIDE DEF e
  <2> QED BY <2>1
<1>3. \A p \in Payloads : Count(H.entries[t], p) + r[p] = Count(e, p) + Count(NoEntries, p) + r[p]
  BY <1>2
<1> HIDE DEF e
<1>4. Account(Exchanged(H, e, t, NoEntries), r) /\ Exchanges(H, Exchanged(H, e, t, NoEntries), t, NoEntries)
  BY <1>1, <1>3, ExchangedAccount
<1> QED BY <1>4 DEF e

LEMMA EmptiedAccount ==
  ASSUME NEW H, NEW r, Account(H, r), NEW t \in Tables \cup {Null}
  PROVE  Account(Emptied(H, t), r) /\ Empties(H, Emptied(H, t), t)
<1>1. CASE t = Null
  BY <1>1, NullIsNoTable, UntouchedTransitive DEF Emptied, Empties, SameBlocks
<1>2. CASE t # Null
  <2> DEFINE G == Exchanged(H, H.entries[t], t, NoEntries)
  <2>1. t \in Tables /\ Emptied(H, t) = G
    BY <1>2 DEF Emptied, Exchanged
  <2>2. Account(G, r) /\ Exchanges(H, G, t, NoEntries)
    BY <2>1, ExchangeAll
  <2> HIDE DEF G
  <2>3. \A x \in Tables \ {t} : Untouched(H, G, x)
    BY <2>1, <2>2, ExchangesElsewhere
  <2>4. G.entries[t] = NoEntries /\ SameBlocks(H, G)
    BY <2>1, <2>2 DEF Exchanges, SameBlocks, Account, Heaps
  <2> QED BY <2>1, <2>2, <2>3, <2>4 DEF Empties
<1> QED BY <1>1, <1>2

\* A table let go of by one of its holders.
Releases(H, G, t) ==
  /\ G.policy = H.policy
  /\ \A x \in Tables : G.holders[x] = H.holders[x] - Held1(t, x)
  /\ \A x \in Tables : x # t \/ H.holders[t] > 1 => Untouched(H, G, x)

LEMMA NullNotShared ==
  ASSUME NEW H
  PROVE  ~IsShared(H, Null) /\ ~Counted(H, Null)
BY PolicyAssumption DEF IsShared, Counted, RoomOf, Null

LEMMA DroppedNothing ==
  ASSUME NEW H, NEW r, Account(H, r)
  PROVE  Account(Dropped(H, NoEntries), r) /\ SameTables(H, Dropped(H, NoEntries))
         /\ \A x \in Tables : Untouched(H, Dropped(H, NoEntries), x)
<1> DEFINE G == Dropped(H, NoEntries)
<1>1. H \in Heaps /\ r \in [Payloads -> Nat] /\ NoEntries \in Entries /\ Account(H, More(r, NoEntries))
  BY NoEntriesType, MoreNone DEF Account
<1>2. /\ Account(G, r) /\ SameTables(H, G)
      /\ \A p \in Payloads : /\ G.refs[p] = H.refs[p] - Count(NoEntries, p)
                             /\ G.refs[p] # 0 => G.keys[p] = H.keys[p]
  BY <1>1, DroppedAccount
<1>3. \A p \in Payloads : Count(NoEntries, p) = 0 /\ H.refs[p] \in Nat
  BY <1>1, NoEntriesType, CountNone DEF Heaps
<1> HIDE DEF G
<1>4. \A p \in Payloads : G.refs[p] = H.refs[p]
  BY <1>2, <1>3
<1>5. \A x \in Tables : Untouched(H, G, x)
  <2> SUFFICES ASSUME NEW x \in Tables PROVE Untouched(H, G, x)
    OBVIOUS
  <2>1. G.entries[x] = H.entries[x] /\ G.room[x] = H.room[x]
    BY <1>2 DEF SameTables
  <2>2. ASSUME NEW c \in DOMAIN H.entries[x]
        PROVE  G.keys[H.entries[x][c]] = H.keys[H.entries[x][c]]
               /\ G.refs[H.entries[x][c]] = H.refs[H.entries[x][c]]
    <3>1. H.entries[x][c] \in Payloads
      BY <1>1, EntryType
    <3>2. H.refs[H.entries[x][c]] # 0
      BY InUse
    <3> QED BY <1>2, <1>4, <3>1, <3>2
  <2> QED BY <2>1, <2>2 DEF Untouched, SameValue, StaysAlone
<1> QED BY <1>2, <1>5 DEF G

LEMMA HoldersSharedOrOne ==
  ASSUME NEW H, NEW r, Account(H, r), NEW t \in Tables, H.holders[t] # 0
  PROVE  /\ IsShared(H, t) <=> H.holders[t] > 1
         /\ ~IsShared(H, t) <=> H.holders[t] = 1
<1>1. H.holders[t] \in Nat
  BY DEF Account, Heaps
<1> QED BY <1>1 DEF Account, IsShared

LEMMA ReleasedAccount ==
  ASSUME NEW H, NEW r, Account(H, r), NEW t \in Tables \cup {Null},
         t \in Tables => H.holders[t] # 0
  PROVE  Account(Released(H, t), r) /\ Releases(H, Released(H, t), t)
<1>0. H \in Heaps /\ H.holders \in [Tables -> Nat] /\ H.room \in [Tables -> Nat]
  BY DEF Account, Heaps
<1>1. CASE t = Null
  <2>1. Released(H, t) = Dropped(H, NoEntries)
    BY <1>1, NullNotShared DEF Released, Freed, EntriesOf
  <2> DEFINE G == Dropped(H, NoEntries)
  <2>2. Account(G, r) /\ SameTables(H, G) /\ \A x \in Tables : Untouched(H, G, x)
    BY DroppedNothing
  <2> HIDE DEF G
  <2>3. \A x \in Tables : G.holders[x] = H.holders[x] - Held1(t, x)
    BY <1>0, <1>1, <2>2, NullIsNoTable DEF SameTables, Held1
  <2> QED BY <2>1, <2>2, <2>3 DEF Releases, G, SameTables
<1>2. CASE t # Null /\ IsShared(H, t)
  <2> DEFINE G == Released(H, t)
             h == [H.holders EXCEPT ![t] = H.holders[t] - 1]
  <2>1. t \in Tables /\ H.holders[t] > 1 /\ Counted(H, t)
    BY <1>2, HoldersSharedOrOne DEF Account
  <2>2. h \in [Tables -> Nat]
    BY <1>0, <2>1
  <2>3. G = [H EXCEPT !.holders = h]
    BY <1>2 DEF Released
  <2> HIDE DEF G, h
  <2>4. G \in Heaps /\ G.policy = H.policy /\ G.entries = H.entries /\ G.holders = h
        /\ G.room = H.room /\ G.keys = H.keys /\ G.refs = H.refs
    BY <1>0, <2>2, <2>3 DEF Heaps
  <2>5. \A x \in Tables : G.holders[x] = H.holders[x] - Held1(t, x)
    BY <1>0, <2>1, <2>4 DEF h, Held1
  <2>6. ASSUME NEW x \in Tables
        PROVE  /\ G.holders[x] = 0 => G.entries[x] = NoEntries
               /\ G.holders[x] > 1 => Counted(G, x)
    <3>1. G.holders[x] = 0 => H.holders[x] = 0
      BY <1>0, <2>1, <2>5 DEF Held1
    <3>2. G.holders[x] > 1 => H.holders[x] > 1
      BY <1>0, <2>1, <2>5 DEF Held1
    <3> QED BY <2>4, <3>1, <3>2 DEF Account, Counted, TableSharing, RoomOf
  <2>7. Account(G, r)
    BY <2>4, <2>6 DEF Account, Refcounted
  <2>8. \A x \in Tables : Untouched(H, G, x)
    BY <2>4 DEF Untouched, SameValue, StaysAlone
  <2> QED BY <2>4, <2>5, <2>7, <2>8 DEF Releases, G
<1>3. CASE t # Null /\ ~IsShared(H, t)
  <2> DEFINE X == Exchanged(H, H.entries[t], t, NoEntries)
             G == Released(H, t)
             h == [H.holders EXCEPT ![t] = 0]
             m == [H.room EXCEPT ![t] = 0]
  <2>1. t \in Tables /\ H.holders[t] = 1
    BY <1>3, HoldersSharedOrOne
  <2>2. Account(X, r) /\ Exchanges(H, X, t, NoEntries)
    BY <2>1, ExchangeAll
  <2>3. G = [X EXCEPT !.holders[t] = 0, !.room[t] = 0]
    BY <1>3 DEF Released, Freed, EntriesOf, Exchanged
  <2> HIDE DEF X, G
  <2>4. h \in [Tables -> Nat] /\ m \in [Tables -> Nat] /\ X \in Heaps
    BY <1>0, <2>2 DEF Account
  <2>5. G = [X EXCEPT !.holders = h, !.room = m]
    BY <2>2, <2>3 DEF Exchanges
  <2> HIDE DEF h, m
  <2>6. G \in Heaps /\ G.policy = H.policy /\ G.entries = X.entries /\ G.holders = h
        /\ G.room = m /\ G.keys = X.keys /\ G.refs = X.refs
    BY <2>2, <2>4, <2>5 DEF Heaps, Exchanges
  <2>7. \A x \in Tables : G.holders[x] = H.holders[x] - Held1(t, x)
    BY <1>0, <2>1, <2>6 DEF h, Held1
  <2>8. ASSUME NEW x \in Tables \ {t}
        PROVE  /\ G.holders[x] = H.holders[x] /\ G.room[x] = H.room[x] /\ G.entries[x] = H.entries[x]
               /\ X.holders[x] = H.holders[x] /\ X.room[x] = H.room[x] /\ X.entries[x] = H.entries[x]
    BY <1>0, <2>2, <2>6 DEF h, m, Exchanges, Heaps
  <2>9. G.holders[t] = 0 /\ G.entries[t] = NoEntries
    BY <1>0, <2>1, <2>2, <2>6 DEF h, Exchanges, Heaps
  <2>10. ASSUME NEW x \in Tables
         PROVE  /\ G.holders[x] = 0 => G.entries[x] = NoEntries
                /\ G.holders[x] > 1 => Counted(G, x)
    BY <2>6, <2>8, <2>9 DEF Account, Counted, TableSharing, RoomOf
  <2>11. Account(G, r)
    BY <2>2, <2>6, <2>10 DEF Account, Refcounted, Exchanges
  <2>12. ASSUME NEW x \in Tables \ {t} PROVE Untouched(H, G, x)
    <3>1. Untouched(H, X, x)
      BY <2>1, <2>2, ExchangesElsewhere
    <3>2. Untouched(X, G, x)
      BY <2>6, <2>8 DEF Untouched, SameValue, StaysAlone
    <3> QED BY <3>1, <3>2, UntouchedTransitive
  <2>13. ~(H.holders[t] > 1)
    BY <2>1
  <2> QED BY <2>6, <2>7, <2>11, <2>12, <2>13 DEF Releases, G
<1> QED BY <1>1, <1>2, <1>3

-----------------------------------------------------------------------------
(***************************************************************************)
(* A store's table t exchanged for n, with the same containers: detached,  *)
(* moved, or copied for another store.                                     *)
(***************************************************************************)
ValueIn(H, t) == ValueOf(H, EntriesOf(H, t))

Rehoused(H, G, t, n) ==
  /\ G.policy = H.policy
  /\ HolderMoves(H, G, t, n)
  /\ n # t => n \in Tables /\ H.holders[n] = 0
  /\ ValueIn(G, n) = ValueIn(H, t)
  /\ \A x \in Tables \ {t, n} : Untouched(H, G, x)
  /\ t \in Tables /\ H.holders[t] > 1 => SameValue(H, G, t)

LEMMA SameValueIn ==
  ASSUME NEW H, NEW G, NEW t \in Tables \cup {Null}, t = Null \/ SameValue(H, G, t)
  PROVE  ValueIn(G, t) = ValueIn(H, t)
<1>1. CASE t = Null
  BY <1>1 DEF ValueIn, ValueOf, EntriesOf, NoEntries
<1>2. CASE t # Null
  BY <1>2 DEF SameValue, ValueIn, ValueOf, EntriesOf
<1> QED BY <1>1, <1>2

LEMMA SupportOfNone ==
  /\ None \in [Payloads -> Nat] /\ Support(None) = {} /\ Cardinality(Support(None)) = 0
<1>1. Support(None) = {}
  BY DEF Support, None
<1> QED BY <1>1, FS_EmptySet DEF None

\* A heap with room has payloads for the containers of a table.
HasRoom(H) == Cardinality(Chunks) <= Cardinality(Unused(H))

LEMMA SpaciousHasRoom ==
  ASSUME NEW H, Account(H, None), Spacious(H)
  PROVE  HasRoom(H)
<1>1. Cardinality(Chunks) <= Cardinality(Unused(H)) + 0
  BY UnusedEnough, SupportOfNone
<1>2. IsFiniteSet(Unused(H))
  <2>1. Unused(H) \in SUBSET Payloads
    BY DEF Unused
  <2> QED BY <2>1, FS_Subset, AddressAssumption
<1>3. Cardinality(Unused(H)) \in Nat
  BY <1>2, FS_CardinalityType
<1> QED BY <1>1, <1>3 DEF HasRoom

LEMMA FitsRoom ==
  ASSUME NEW H, HasRoom(H), NEW S \in SUBSET Chunks
  PROVE  Cardinality(S) <= Cardinality(Unused(H))
<1>1. IsFiniteSet(Unused(H))
  <2>1. Unused(H) \in SUBSET Payloads
    BY DEF Unused
  <2> QED BY <2>1, FS_Subset, AddressAssumption
<1>2. Cardinality(S) <= Cardinality(Chunks) /\ Cardinality(S) \in Nat /\ Cardinality(Chunks) \in Nat
      /\ Cardinality(Unused(H)) \in Nat
  BY <1>1, FS_Subset, FS_CardinalityType, AddressAssumption
<1> QED BY <1>2 DEF HasRoom

LEMMA TableInUse ==
  ASSUME NEW H, NEW r, Account(H, r), NEW t \in Tables \cup {Null}
  PROVE  \A c \in DOMAIN EntriesOf(H, t) : H.refs[EntriesOf(H, t)[c]] # 0
<1> SUFFICES ASSUME NEW c \in DOMAIN EntriesOf(H, t) PROVE H.refs[EntriesOf(H, t)[c]] # 0
  OBVIOUS
<1>1. H \in Heaps
  BY DEF Account
<1>2. t \in Tables /\ EntriesOf(H, t) = H.entries[t]
  BY <1>1, EntriesOfType
<1> QED BY <1>2, InUse

LEMMA LargerType ==
  ASSUME NEW m \in Nat, NEW n \in Nat
  PROVE  Larger(m, n) \in Nat /\ Larger(m, n) >= m /\ Larger(m, n) >= n
BY DEF Larger

LEMMA DetachedAccount ==
  ASSUME NEW H, Account(H, None), Spacious(H), NEW t \in Tables, IsShared(H, t), H.holders[t] # 0,
         NEW least \in Nat
  PROVE  LET at == Detached(H, t, least)
         IN  /\ Account(at.heap, None) /\ Rehoused(H, at.heap, t, at.table)
             /\ at.table \in Tables \ {t} /\ at.heap.holders[at.table] = 1
<1> DEFINE e == H.entries[t]
           C == Copied(H, e).heap
           g == Copied(H, e).entries
           m == Larger(Length(H, t), least)
           A == Allocated(C, g, m).heap
           n == Allocated(C, g, m).table
           K == Released(A, t)
<1>1. H \in Heaps /\ None \in [Payloads -> Nat] /\ e \in Entries /\ EntriesOf(H, t) = e /\ t # Null
  BY NullIsNoTable DEF Account, Heaps, EntriesOf
<1>2. Detached(H, t, least).heap = K /\ Detached(H, t, least).table = n
  BY DEF Detached, Allocated
<1>3. /\ Gains(H, C, g, ValueOf(H, e))
      /\ Refcounted(H) => g = e
      /\ ~Refcounted(H) => Fresh(H, g)
  <2>1. \A c \in DOMAIN e : H.refs[e[c]] # 0
    BY <1>1, TableInUse
  <2>2. DOMAIN e \in SUBSET Chunks
    BY <1>1, EntriesElim
  <2>3. Cardinality(DOMAIN e) <= Cardinality(Unused(H))
    BY <2>2, SpaciousHasRoom, FitsRoom
  <2> HIDE DEF e
  <2> QED BY <1>1, <2>1, <2>3, CopiedGains
<1>4. Account(C, More(None, g)) /\ C \in Heaps /\ SameTables(H, C) /\ g \in Entries /\ DOMAIN g = DOMAIN e
  <2> HIDE DEF C, g
  <2>1. Account(C, More(None, g))
    BY <1>1, <1>3, GainsAccount
  <2> QED BY <1>3, <2>1 DEF Gains, ValueOf
<1>5. m \in Nat
  BY <1>1, EntriesOfType, LargerType
<1> HIDE DEF C, g, m
<1>6. A \in Heaps /\ Allocates(C, A, n, g, m)
  <2>1. Cardinality(Live(C)) < Cardinality(Tables)
    BY <1>4 DEF Spacious, Live, SameTables
  <2> QED BY <1>4, <1>5, <2>1, AllocatedFields
<1> HIDE DEF A, n
<1>7. /\ Account(A, None)
      /\ \A x \in Tables \ {n} : Untouched(C, A, x)
      /\ \A x \in Tables : A.holders[x] = C.holders[x] + Held1(n, x)
  <2> DEFINE r == None
  <2>1. r \in [Payloads -> Nat] /\ Account(C, More(r, g))
    BY <1>1, <1>4
  <2> HIDE DEF r
  <2>2. /\ Account(A, r)
        /\ \A x \in Tables \ {n} : Untouched(C, A, x)
        /\ \A x \in Tables : A.holders[x] = C.holders[x] + Held1(n, x)
    <3>1. C \in Heaps /\ A \in Heaps /\ g \in Entries /\ Allocates(C, A, n, g, m)
      BY <1>4, <1>6
    <3> QED BY <2>1, <3>1, AllocatesAccount
  <2> QED BY <2>2 DEF r
<1>8. n \in Tables /\ n # t /\ H.holders[n] = 0 /\ A.holders[n] = 1 /\ H.holders \in [Tables -> Nat]
  BY <1>1, <1>4, <1>6 DEF Allocates, SameTables, Heaps
<1>9. A.holders[t] = H.holders[t] /\ H.holders[t] > 1
  BY <1>4, <1>7, <1>8, HoldersSharedOrOne DEF SameTables, Held1
<1>10. Account(K, None) /\ Releases(A, K, t)
  BY <1>7, <1>9, ReleasedAccount
<1> HIDE DEF K
<1>11. \A x \in Tables : Untouched(A, K, x)
  BY <1>9, <1>10 DEF Releases
<1>12. \A x \in Tables : K.holders[x] = H.holders[x] + Held1(n, x) - Held1(t, x)
  <2> SUFFICES ASSUME NEW x \in Tables
               PROVE  K.holders[x] = H.holders[x] + Held1(n, x) - Held1(t, x)
    OBVIOUS
  <2>1. K.holders[x] = A.holders[x] - Held1(t, x)
    BY <1>10 DEF Releases
  <2>2. A.holders[x] = H.holders[x] + Held1(n, x)
    BY <1>4, <1>7 DEF SameTables
  <2>3. H.holders[x] \in Nat /\ Held1(n, x) \in Nat /\ Held1(t, x) \in Nat
    BY <1>8 DEF Held1
  <2> QED BY <2>1, <2>2, <2>3
<1>13. K.holders[n] = 1
  BY <1>8, <1>12 DEF Held1
<1>14. \A x \in Tables : SameValue(H, C, x)
  BY <1>3, GainsElsewhere
<1>15. \A x \in Tables \ {t} : Untouched(H, C, x)
  <2>1. CASE Refcounted(H)
    <3>1. \A c \in DOMAIN g : \E d \in DOMAIN H.entries[t] : g[c] = H.entries[t][d]
      BY <1>3, <2>1
    <3> QED BY <1>3, <3>1, CopiedElsewhere
  <2>2. CASE ~Refcounted(H)
    BY <1>3, <2>2, FreshElsewhere
  <2> QED BY <2>1, <2>2
<1>16. \A x \in Tables \ {t, n} : Untouched(H, K, x)
  BY <1>7, <1>11, <1>15, UntouchedTransitive
<1>17. SameValue(H, K, t)
  BY <1>7, <1>8, <1>11, <1>14, UntouchedTransitive DEF Untouched
<1>18. ValueIn(K, n) = ValueIn(H, t)
  <2>1. A.entries[n] = g /\ A.keys = C.keys /\ n # Null
    BY <1>4, <1>6, <1>8, NullIsNoTable DEF Allocates, Heaps
  <2>2. K.entries[n] = g /\ \A c \in DOMAIN g : K.keys[g[c]] = C.keys[g[c]]
    BY <1>8, <1>11, <2>1 DEF Untouched, SameValue
  <2>3. \A c \in DOMAIN g : C.keys[g[c]] = H.keys[e[c]]
    BY <1>3, <1>4 DEF Gains, ValueOf
  <2> QED BY <1>1, <1>4, <2>1, <2>2, <2>3 DEF ValueIn, ValueOf, EntriesOf
<1>19. K.policy = H.policy
  BY <1>4, <1>6, <1>10 DEF Releases, Allocates, SameTables
<1>20. Rehoused(H, K, t, n)
  BY <1>8, <1>12, <1>16, <1>17, <1>18, <1>19 DEF Rehoused, HolderMoves
<1> QED BY <1>2, <1>8, <1>10, <1>13, <1>20

\* A table moved to a block with room for more, whatever the call holds.
Relocates(H, G, t, n) ==
  /\ G.policy = H.policy /\ G.refs = H.refs /\ G.keys = H.keys
  /\ HolderMoves(H, G, t, n)
  /\ n \in Tables /\ G.holders[n] = 1
  /\ n # t => H.holders[n] = 0
  /\ G.entries[n] = EntriesOf(H, t)
  /\ \A x \in Tables \ {t, n} : Untouched(H, G, x)

LEMMA RelocatedAccount ==
  ASSUME NEW H, NEW r, Account(H, r), Cardinality(Live(H)) < Cardinality(Tables),
         NEW t \in Tables \cup {Null}, t \in Tables => H.holders[t] = 1, NEW room \in Nat
  PROVE  LET at == Relocated(H, t, room)
         IN  /\ Account(at.heap, r) /\ Relocates(H, at.heap, t, at.table)
             /\ at.table # t
<1> DEFINE e == EntriesOf(H, t)
           A == Allocated(H, e, room).heap
           n == Allocated(H, e, room).table
           K == Freed(A, t)
<1>1. H \in Heaps /\ e \in Entries /\ r \in [Payloads -> Nat] /\ H.holders \in [Tables -> Nat]
      /\ H.entries \in [Tables -> Entries] /\ H.room \in [Tables -> Nat]
  BY EntriesOfType DEF Account, Heaps
<1>2. Relocated(H, t, room).heap = K /\ Relocated(H, t, room).table = n
  BY DEF Relocated, Allocated
<1>3. A \in Heaps /\ Allocates(H, A, n, e, room)
  <2> HIDE DEF e
  <2> QED BY <1>1, AllocatedFields
<1> HIDE DEF A, n
<1>4. n \in Tables /\ n # t /\ H.holders[n] = 0
  BY <1>3, NullIsNoTable DEF Allocates
<1>5. CASE t = Null
  <2>1. K = A /\ e = NoEntries
    BY <1>5 DEF Freed, EntriesOf
  <2>2. Account(H, More(r, e))
    BY <1>1, <2>1, MoreNone
  <2> HIDE DEF e, K
  <2>3. /\ Account(A, r)
        /\ \A x \in Tables \ {n} : Untouched(H, A, x)
        /\ \A x \in Tables : A.holders[x] = H.holders[x] + Held1(n, x)
    <3>1. H \in Heaps /\ A \in Heaps /\ e \in Entries /\ r \in [Payloads -> Nat]
          /\ Account(H, More(r, e)) /\ Allocates(H, A, n, e, room)
      BY <1>1, <1>3, <2>2
    <3> QED BY <3>1, AllocatesAccount DEF SameTables
  <2>4. \A x \in Tables : A.holders[x] = H.holders[x] + Held1(n, x) - Held1(t, x)
    <3> SUFFICES ASSUME NEW x \in Tables
                 PROVE  A.holders[x] = H.holders[x] + Held1(n, x) - Held1(t, x)
      OBVIOUS
    <3>1. A.holders[x] = H.holders[x] + Held1(n, x)
      BY <2>3
    <3>2. H.holders[x] \in Nat /\ Held1(n, x) \in Nat /\ Held1(t, x) = 0
      BY <1>1, <1>5, NullIsNoTable DEF Held1
    <3> QED BY <3>1, <3>2
  <2>5. A.holders[n] = 1 /\ A.entries[n] = e
    BY <1>1, <1>3, <1>4 DEF Allocates
  <2>6. Relocates(H, A, t, n)
    BY <1>3, <1>4, <2>3, <2>4, <2>5 DEF Relocates, HolderMoves, Allocates, e
  <2> QED BY <1>2, <1>4, <2>1, <2>3, <2>6
<1>6. CASE t # Null
  <2> DEFINE E == [A.entries EXCEPT ![t] = NoEntries]
             h == [A.holders EXCEPT ![t] = 0]
             m == [A.room EXCEPT ![t] = 0]
  <2>1. t \in Tables /\ e = H.entries[t] /\ H.holders[t] = 1
    BY <1>6 DEF EntriesOf
  <2>2. /\ A.entries \in [Tables -> Entries] /\ A.holders \in [Tables -> Nat]
        /\ A.room \in [Tables -> Nat]
    BY <1>3 DEF Heaps
  <2>3. E \in [Tables -> Entries] /\ h \in [Tables -> Nat] /\ m \in [Tables -> Nat]
    BY <2>2, NoEntriesType
  <2>4. K = [A EXCEPT !.entries = E, !.holders = h, !.room = m]
    BY <1>6 DEF Freed
  <2> HIDE DEF K, E, h, m, e
  <2>5. /\ K \in Heaps /\ K.policy = H.policy /\ K.refs = H.refs /\ K.keys = H.keys
        /\ K.entries = E /\ K.holders = h /\ K.room = m
    BY <1>3, <2>3, <2>4 DEF Heaps, Allocates
  <2>6. ASSUME NEW x \in Tables
        PROVE  /\ K.entries[x] = IF x = n THEN e ELSE IF x = t THEN NoEntries ELSE H.entries[x]
               /\ K.holders[x] = IF x = n THEN 1 ELSE IF x = t THEN 0 ELSE H.holders[x]
               /\ x \notin {n, t} => K.room[x] = H.room[x]
    BY <1>1, <1>3, <1>4, <2>1, <2>2, <2>5 DEF Allocates, E, h, m
  <2>7. ASSUME NEW p \in Payloads PROVE Uses(K.entries, p) = Uses(H.entries, p)
    <3>1. Uses(A.entries, p) = Uses(H.entries, p) + Count(e, p)
      BY <1>1, <1>3, <1>4, UsesOfFree DEF Allocates
    <3>2. A.entries[t] = e
      BY <1>1, <1>3, <1>4, <2>1 DEF Allocates
    <3>3. Uses(E, p) + Count(A.entries[t], p) = Uses(A.entries, p) + Count(NoEntries, p)
      BY <2>1, <2>2, NoEntriesType, UsesReplaced DEF E
    <3>4. Count(NoEntries, p) = 0
      BY NoEntriesType, CountNone
    <3>5. Uses(E, p) \in Nat /\ Uses(H.entries, p) \in Nat /\ Count(e, p) \in Nat
      BY <1>1, <2>3, OnFinite, OfFinite
    <3> QED BY <2>5, <3>1, <3>2, <3>3, <3>4, <3>5
  <2>8. ASSUME NEW x \in Tables
        PROVE  /\ K.holders[x] = 0 => K.entries[x] = NoEntries
               /\ K.holders[x] > 1 => Counted(K, x)
    BY <1>4, <2>5, <2>6 DEF Account, Counted, TableSharing, RoomOf
  <2>9. Account(K, r)
    BY <1>1, <2>5, <2>7, <2>8 DEF Account, Refcounted
  <2>10. \A x \in Tables \ {t, n} : Untouched(H, K, x)
    BY <2>5, <2>6 DEF Untouched, SameValue, StaysAlone
  <2>11. \A x \in Tables : K.holders[x] = H.holders[x] + Held1(n, x) - Held1(t, x)
    BY <1>1, <1>4, <2>1, <2>6 DEF Held1
  <2>12. K.holders[n] = 1 /\ K.entries[n] = e
    BY <1>4, <2>6
  <2>13. Relocates(H, K, t, n)
    BY <1>4, <2>5, <2>10, <2>11, <2>12 DEF Relocates, HolderMoves, e
  <2> QED BY <1>2, <1>4, <2>9, <2>13 DEF K
<1> QED BY <1>5, <1>6

LEMMA RelocatesNothing ==
  ASSUME NEW H, NEW r, Account(H, r), NEW t \in Tables, H.holders[t] = 1
  PROVE  Relocates(H, H, t, t)
<1>1. H.holders \in [Tables -> Nat] /\ t # Null
  BY NullIsNoTable DEF Account, Heaps
<1>2. HolderMoves(H, H, t, t)
  BY <1>1 DEF HolderMoves, Held1
<1> QED BY <1>1, <1>2, UntouchedTransitive DEF Relocates, EntriesOf

LEMMA WithRoomAccount ==
  ASSUME NEW H, NEW r, Account(H, r), Cardinality(Live(H)) < Cardinality(Tables),
         NEW t \in Tables \cup {Null}, t \in Tables => H.holders[t] = 1,
         NEW required \in Nat, required # 0
  PROVE  LET at == WithRoom(H, t, required)
         IN  Account(at.heap, r) /\ Relocates(H, at.heap, t, at.table)
<1>1. H \in Heaps
  BY DEF Account
<1>2. CASE required <= RoomOf(H, t)
  <2>1. t \in Tables
    BY <1>2 DEF RoomOf
  <2>2. WithRoom(H, t, required).heap = H /\ WithRoom(H, t, required).table = t
    BY <1>2 DEF WithRoom
  <2> QED BY <2>1, <2>2, RelocatesNothing
<1>3. CASE ~(required <= RoomOf(H, t))
  <2> DEFINE room == Grown(H, t, required)
  <2>1. RoomOf(H, t) \in Nat
    BY <1>1, EntriesOfType
  <2>2. 2 * RoomOf(H, t) \in Nat /\ LeastRoom \in Nat
    BY <2>1, PolicyAssumption
  <2>3. room \in Nat
    BY <2>2, LargerType DEF Grown
  <2>4. WithRoom(H, t, required) = Relocated(H, t, room)
    BY <1>3 DEF WithRoom
  <2> HIDE DEF room
  <2> QED BY <2>3, <2>4, RelocatedAccount
<1> QED BY <1>2, <1>3

\* A table copied for another store, which holds n of it.
CopyOf(H, G, t, n) ==
  /\ G.policy = H.policy
  /\ \A x \in Tables : G.holders[x] = H.holders[x] + Held1(n, x)
  /\ n \in Tables \cup {Null} /\ (n \in Tables => H.holders[n] = 0 \/ (n = t /\ Length(H, t) # 0))
  /\ ValueIn(G, n) = ValueIn(H, t)
  /\ \A x \in Tables \ {t, n} : Untouched(H, G, x)
  /\ t \in Tables => SameValue(H, G, t)

LEMMA CopyAccount ==
  ASSUME NEW H, Account(H, None), Spacious(H), NEW t \in Tables \cup {Null},
         t \in Tables => H.holders[t] # 0
  PROVE  LET copy == Copy(H, t)
         IN  Account(copy.heap, None) /\ CopyOf(H, copy.heap, t, copy.table)
<1>1. H \in Heaps /\ None \in [Payloads -> Nat] /\ H.holders \in [Tables -> Nat] /\ H.room \in [Tables -> Nat]
  BY DEF Account, Heaps
<1>2. CASE CanShare(H, t)
  <2> DEFINE h == [H.holders EXCEPT ![t] = H.holders[t] + 1]
             G == Copy(H, t).heap
  <2>1. t \in Tables /\ Counted(H, t)
    BY <1>2, NullNotShared DEF CanShare
  <2>2. h \in [Tables -> Nat]
    BY <1>1, <2>1
  <2>3. G = [H EXCEPT !.holders = h] /\ Copy(H, t).table = t
    BY <1>2 DEF Copy
  <2> HIDE DEF h, G
  <2>4. G \in Heaps /\ G.policy = H.policy /\ G.entries = H.entries /\ G.holders = h
        /\ G.room = H.room /\ G.keys = H.keys /\ G.refs = H.refs
    BY <1>1, <2>2, <2>3 DEF Heaps
  <2>5. \A x \in Tables : G.holders[x] = H.holders[x] + Held1(t, x)
    BY <1>1, <2>1, <2>4 DEF h, Held1
  <2>6. ASSUME NEW x \in Tables
        PROVE  /\ G.holders[x] = 0 => G.entries[x] = NoEntries
               /\ G.holders[x] > 1 => Counted(G, x)
    <3>1. G.holders[x] = 0 => H.holders[x] = 0
      BY <1>1, <2>5 DEF Held1
    <3>2. G.holders[x] > 1 => H.holders[x] > 1 \/ x = t
      BY <1>1, <2>5 DEF Held1
    <3> QED BY <2>1, <2>4, <3>1, <3>2 DEF Account, Counted, TableSharing, RoomOf
  <2>7. Account(G, None)
    BY <2>4, <2>6 DEF Account, Refcounted
  <2>8. \A x \in Tables : Untouched(H, G, x)
    BY <2>4 DEF Untouched, SameValue, StaysAlone
  <2>9. ValueIn(G, t) = ValueIn(H, t)
    BY <2>1, <2>8, SameValueIn DEF Untouched
  <2>10. CopyOf(H, G, t, t)
    BY <1>2, <2>1, <2>4, <2>5, <2>8, <2>9 DEF CopyOf, Untouched, CanShare
  <2> QED BY <2>3, <2>7, <2>10 DEF G
<1>3. CASE ~CanShare(H, t) /\ Length(H, t) = 0
  <2>1. Copy(H, t).heap = H /\ Copy(H, t).table = Null
    BY <1>3 DEF Copy
  <2>2. DOMAIN EntriesOf(H, t) = {}
    BY <1>1, <1>3, EntriesOfType, EntriesElim, FS_EmptySet DEF Length
  <2>3. ValueIn(H, Null) = ValueIn(H, t)
    BY <1>1, <2>2, EntriesOfType DEF ValueIn, ValueOf
  <2>4. \A x \in Tables : H.holders[x] = H.holders[x] + Held1(Null, x)
    BY <1>1, NullIsNoTable DEF Held1
  <2> QED BY <2>1, <2>3, <2>4, NullIsNoTable, UntouchedTransitive DEF CopyOf
<1>4. CASE ~CanShare(H, t) /\ Length(H, t) # 0
  <2> DEFINE e == H.entries[t]
             C == Copied(H, e).heap
             g == Copied(H, e).entries
             m == Length(H, t)
             A == Allocated(C, g, m).heap
             n == Allocated(C, g, m).table
  <2>1. t \in Tables
    <3>1. t = Null => Length(H, t) = 0
      BY NoEntriesType, FS_EmptySet DEF Length, EntriesOf
    <3> QED BY <1>4, <3>1
  <2>2. e \in Entries /\ EntriesOf(H, t) = e
    BY <1>1, <2>1, EntriesOfType DEF Heaps
  <2>3. Copy(H, t) = Allocated(C, g, m)
    BY <1>4 DEF Copy
  <2>4. /\ Gains(H, C, g, ValueOf(H, e))
        /\ Refcounted(H) => g = e
        /\ ~Refcounted(H) => Fresh(H, g)
    <3>1. \A c \in DOMAIN e : H.refs[e[c]] # 0
      BY <2>1, <2>2, TableInUse
    <3>2. DOMAIN e \in SUBSET Chunks
      BY <2>2, EntriesElim
    <3>3. Cardinality(DOMAIN e) <= Cardinality(Unused(H))
      BY <3>2, SpaciousHasRoom, FitsRoom
    <3> HIDE DEF e
    <3> QED BY <1>1, <2>2, <3>1, <3>3, CopiedGains
  <2> HIDE DEF C, g
  <2>5. Account(C, More(None, g))
    BY <1>1, <2>4, GainsAccount
  <2>6. C \in Heaps /\ SameTables(H, C) /\ g \in Entries /\ DOMAIN g = DOMAIN e
    BY <2>4 DEF Gains, ValueOf
  <2>7. m \in Nat
    BY <1>1, EntriesOfType
  <2> HIDE DEF m
  <2>8. A \in Heaps /\ Allocates(C, A, n, g, m)
    <3>1. Cardinality(Live(C)) < Cardinality(Tables)
      BY <2>6 DEF Spacious, Live, SameTables
    <3> QED BY <2>6, <2>7, <3>1, AllocatedFields
  <2> HIDE DEF A, n
  <2>9. /\ Account(A, None)
        /\ \A x \in Tables \ {n} : Untouched(C, A, x)
        /\ \A x \in Tables : A.holders[x] = C.holders[x] + Held1(n, x)
    <3> DEFINE r == None
    <3>1. r \in [Payloads -> Nat] /\ Account(C, More(r, g))
      BY <1>1, <2>5
    <3> HIDE DEF r
    <3>2. C \in Heaps /\ A \in Heaps /\ g \in Entries /\ Allocates(C, A, n, g, m)
      BY <2>6, <2>8
    <3>3. /\ Account(A, r)
          /\ \A x \in Tables \ {n} : Untouched(C, A, x)
          /\ \A x \in Tables : A.holders[x] = C.holders[x] + Held1(n, x)
      BY <3>1, <3>2, AllocatesAccount
    <3> QED BY <3>3 DEF r
  <2>10. n \in Tables /\ n # t /\ H.holders[n] = 0 /\ A.policy = H.policy
    BY <2>1, <2>6, <2>8 DEF Allocates, SameTables
  <2>11. \A x \in Tables : SameValue(H, C, x)
    BY <2>4, GainsElsewhere
  <2>12. \A x \in Tables \ {t} : Untouched(H, C, x)
    <3>1. CASE Refcounted(H)
      <4>1. \A c \in DOMAIN g : \E d \in DOMAIN H.entries[t] : g[c] = H.entries[t][d]
        BY <2>4, <3>1
      <4> QED BY <2>1, <2>4, <4>1, CopiedElsewhere
    <3>2. CASE ~Refcounted(H)
      BY <2>4, <3>2, FreshElsewhere
    <3> QED BY <3>1, <3>2
  <2>13. \A x \in Tables \ {t, n} : Untouched(H, A, x)
    BY <2>9, <2>12, UntouchedTransitive
  <2>14. SameValue(H, A, t)
    BY <2>1, <2>9, <2>10, <2>11, UntouchedTransitive DEF Untouched
  <2>15. ValueIn(A, n) = ValueIn(H, t)
    <3>1. A.entries[n] = g /\ A.keys = C.keys /\ n # Null
      BY <2>6, <2>8, <2>10, NullIsNoTable DEF Allocates, Heaps
    <3>2. \A c \in DOMAIN g : C.keys[g[c]] = H.keys[e[c]]
      BY <2>4, <2>6 DEF Gains, ValueOf
    <3> QED BY <2>2, <2>6, <3>1, <3>2 DEF ValueIn, ValueOf, EntriesOf
  <2>16. \A x \in Tables : A.holders[x] = H.holders[x] + Held1(n, x)
    BY <2>6, <2>9 DEF SameTables
  <2>17. CopyOf(H, A, t, n)
    BY <2>10, <2>13, <2>14, <2>15, <2>16 DEF CopyOf
  <2> QED BY <2>3, <2>9, <2>17 DEF A, n
<1> QED BY <1>2, <1>3, <1>4

-----------------------------------------------------------------------------
(***************************************************************************)
(* Parked payloads taken from the pool q for the containers from names.    *)
(***************************************************************************)
Taken(H, q, from) ==
  IF DOMAIN from = {} THEN H
  ELSE [H EXCEPT !.entries[q] = Restrict(@, DOMAIN @ \ Range(from))]
Kept(H, q, from) == [c \in DOMAIN from |-> H.entries[q][from[c]]]

Chosen(H, q, from) ==
  /\ DOMAIN from \subseteq Chunks
  /\ \A c \in DOMAIN from : from[c] \in DOMAIN EntriesOf(H, q) /\ H.refs[H.entries[q][from[c]]] = 1
  /\ \A c, d \in DOMAIN from : from[c] = from[d] => c = d

\* Handles no entry of a table is: each is the only one on its payload.
Loose(H, k) ==
  /\ \A c \in DOMAIN k : H.refs[k[c]] = 1
  /\ \A c, d \in DOMAIN k : k[c] = k[d] => c = d

Takes(H, G, q, k) ==
  /\ SameBlocks(H, G) /\ G.refs = H.refs /\ G.keys = H.keys
  /\ Loose(H, k)
  /\ \A x \in Tables \ {q} : /\ G.entries[x] = H.entries[x]
                             /\ \A d \in DOMAIN H.entries[x] : \A c \in DOMAIN k : k[c] # H.entries[x][d]

LEMMA TakenAccount ==
  ASSUME NEW H, NEW r, Account(H, r), NEW q \in Tables \cup {Null}, q \in Tables => H.holders[q] # 0,
         NEW from, Chosen(H, q, from)
  PROVE  /\ Kept(H, q, from) \in Entries /\ DOMAIN Kept(H, q, from) = DOMAIN from
         /\ Account(Taken(H, q, from), More(r, Kept(H, q, from)))
         /\ Takes(H, Taken(H, q, from), q, Kept(H, q, from))
         /\ \A c \in DOMAIN from : r[Kept(H, q, from)[c]] = 0
<1> DEFINE k == Kept(H, q, from)
<1>1. H \in Heaps /\ r \in [Payloads -> Nat] /\ H.entries \in [Tables -> Entries]
      /\ H.refs \in [Payloads -> Nat]
  BY DEF Account, Heaps
<1>2. CASE DOMAIN from = {}
  <2>1. k \in Entries /\ DOMAIN k = {}
    BY <1>2, EntriesIntro DEF Kept
  <2>2. k = NoEntries
    BY <2>1, NoEntriesOnly
  <2>3. More(r, k) = r
    BY <1>1, <2>2, MoreNone
  <2>4. Taken(H, q, from) = H
    BY <1>2 DEF Taken
  <2> HIDE DEF k
  <2>5. Takes(H, H, q, k)
    BY <2>1 DEF Takes, SameBlocks, Loose
  <2>6. k \in Entries /\ DOMAIN k = DOMAIN from /\ Account(Taken(H, q, from), More(r, k))
        /\ Takes(H, Taken(H, q, from), q, k)
    BY <1>2, <2>1, <2>3, <2>4, <2>5
  <2> QED BY <1>2, <2>6 DEF k
<1>3. CASE DOMAIN from # {}
  <2> DEFINE e == H.entries[q]
             R == Range(from)
             g == Restrict(e, DOMAIN e \ R)
             h == Restrict(e, R)
             E == [H.entries EXCEPT ![q] = g]
             G == Taken(H, q, from)
  <2>1. q \in Tables
    BY <1>1, <1>3, EntriesOfType DEF Chosen
  <2>2. e \in Entries /\ EntriesOf(H, q) = e
    BY <1>1, <2>1, EntriesOfType
  <2>3. R \in SUBSET DOMAIN e /\ DOMAIN e \ R \in SUBSET DOMAIN e
    BY <2>2 DEF Chosen, Range
  <2>4. g \in Entries /\ h \in Entries /\ DOMAIN h = R /\ \A d \in R : h[d] = e[d]
    BY <2>2, <2>3, RestrictType
  <2>5. E \in [Tables -> Entries]
    BY <1>1, <2>4
  <2>6. G = [H EXCEPT !.entries = E]
    BY <1>3 DEF Taken
  <2>7. \A c \in DOMAIN from : from[c] \in DOMAIN e /\ from[c] \in R /\ k[c] = e[from[c]]
                               /\ H.refs[e[from[c]]] = 1 /\ c \in Chunks
    BY <2>2 DEF Chosen, Kept, Range
  <2>8. k \in Entries /\ DOMAIN k = DOMAIN from
    <3>1. DOMAIN k = DOMAIN from
      BY DEF Kept
    <3>2. \A c \in DOMAIN from : k[c] \in Payloads
      BY <1>1, <2>1, <2>7, EntryType
    <3>3. k \in [DOMAIN k -> Payloads] /\ DOMAIN k \subseteq Chunks
      BY <2>7, <3>1, <3>2 DEF Kept
    <3> QED BY <3>1, <3>3, EntriesIntro
  <2>9. \A d \in R : \E c \in DOMAIN from : d = from[c]
    BY DEF Range
  <2> HIDE DEF k, R
  <2>10. \A d \in R : H.refs[e[d]] = 1
    BY <2>7, <2>9
  <2>11. ASSUME NEW c \in DOMAIN e, NEW d \in DOMAIN e, e[c] = e[d], H.refs[e[c]] = 1
         PROVE  c = d
    <3>1. H.refs[e[c]] > 1 => H.refs[e[c]] # 1
      OBVIOUS
    <3> QED BY <2>1, <2>11, <3>1, TwoInUse
  <2>12. Loose(H, k)
    <3>1. \A c, d \in DOMAIN k : k[c] = k[d] => from[c] = from[d]
      BY <2>7, <2>8, <2>11
    <3> QED BY <2>7, <2>8, <3>1 DEF Loose, Chosen
  <2>13. \A c, d \in DOMAIN h : h[c] = h[d] => c = d
    BY <2>3, <2>4, <2>10, <2>11
  <2>14. ASSUME NEW p \in Payloads PROVE Count(h, p) = Count(k, p)
    <3>1. (\E c \in DOMAIN h : h[c] = p) <=> (\E c \in DOMAIN k : k[c] = p)
      BY <2>4, <2>7, <2>8, <2>9
    <3>2. \A c, d \in DOMAIN k : k[c] = k[d] => c = d
      BY <2>12 DEF Loose
    <3>3. CASE \E c \in DOMAIN k : k[c] = p
      BY <2>4, <2>8, <2>13, <3>1, <3>2, <3>3, CountOne
    <3>4. CASE ~\E c \in DOMAIN k : k[c] = p
      BY <2>4, <2>8, <2>13, <3>1, <3>2, <3>4, CountOne
    <3> QED BY <3>3, <3>4
  <2>15. ASSUME NEW p \in Payloads PROVE Uses(E, p) + Count(k, p) = Uses(H.entries, p)
    <3>1. Count(e, p) = Count(h, p) + Count(g, p)
      BY <2>2, <2>3, CountSplit
    <3>2. Uses(E, p) + Count(e, p) = Uses(H.entries, p) + Count(g, p)
      BY <1>1, <2>1, <2>4, UsesReplaced
    <3>3. Uses(E, p) \in Nat /\ Uses(H.entries, p) \in Nat /\ Count(e, p) \in Nat /\ Count(g, p) \in Nat
          /\ Count(h, p) \in Nat
      BY <1>1, <2>2, <2>4, <2>5, OnFinite, OfFinite
    <3> HIDE DEF E, e, g, h
    <3>4. Count(h, p) = Count(k, p)
      BY <2>14
    <3> QED BY <3>1, <3>2, <3>3, <3>4
  <2>16. \A x \in Tables \ {q} : E[x] = H.entries[x]
    OBVIOUS
  <2> HIDE DEF E, e, g, h, G
  <2>17. G \in Heaps /\ SameBlocks(H, G) /\ G.entries = E /\ G.refs = H.refs /\ G.keys = H.keys
    BY <1>1, <2>5, <2>6 DEF Heaps, SameBlocks
  <2>18. More(r, k) \in [Payloads -> Nat] /\ \A p \in Payloads : More(r, k)[p] = r[p] + Count(k, p)
    <3>1. \A p \in Payloads : Count(k, p) \in Nat
      BY <2>8, OfFinite
    <3> QED BY <1>1, <3>1 DEF More
  <2>19. ASSUME NEW p \in Payloads PROVE G.refs[p] = Uses(G.entries, p) + More(r, k)[p]
    <3>1. Uses(E, p) \in Nat /\ Count(k, p) \in Nat /\ r[p] \in Nat
      BY <1>1, <2>5, <2>8, OnFinite, OfFinite
    <3>2. H.refs[p] = Uses(H.entries, p) + r[p]
      BY DEF Account
    <3> QED BY <2>15, <2>17, <2>18, <3>1, <3>2
  <2>20. Account(G, More(r, k))
    BY <2>1, <2>16, <2>17, <2>18, <2>19 DEF Account, SameBlocks, Counted, TableSharing, RoomOf, Refcounted
  <2>21. ASSUME NEW x \in Tables \ {q}, NEW d \in DOMAIN H.entries[x], NEW c \in DOMAIN k
         PROVE  k[c] # H.entries[x][d]
    <3>1. from[c] \in DOMAIN H.entries[q] /\ k[c] = H.entries[q][from[c]] /\ H.refs[k[c]] = 1
      BY <2>7, <2>8 DEF e
    <3>2. k[c] = H.entries[x][d] => H.refs[k[c]] > 1
      BY <2>1, <3>1, TwoInUse
    <3> QED BY <3>1, <3>2
  <2>22. Takes(H, G, q, k)
    BY <2>12, <2>16, <2>17, <2>21 DEF Takes
  <2>23. ASSUME NEW c \in DOMAIN from PROVE r[k[c]] = 0
    BY <2>1, <2>7, InUse DEF e
  <2> QED BY <2>8, <2>20, <2>22, <2>23 DEF G, k
<1> QED BY <1>2, <1>3

-----------------------------------------------------------------------------
(***************************************************************************)
(* Handles for the containers new, some of them in payloads of the pool q. *)
(* What the call holds already, r, keeps its keys.                         *)
(***************************************************************************)
Makes(H, G, q, r, f, new) ==
  /\ SameBlocks(H, G)
  /\ f \in Entries /\ DOMAIN f = DOMAIN new
  /\ \A c \in DOMAIN f : G.keys[f[c]] = new[c]
  /\ \A x \in Tables \ {q} : Untouched(H, G, x)
  /\ \A p \in Payloads : r[p] # 0 => G.keys[p] = H.keys[p]

LEMMA MadeAccount ==
  ASSUME NEW H, NEW r, Account(H, r), NEW q \in Tables \cup {Null}, q \in Tables => H.holders[q] # 0,
         NEW new \in Maps, Cardinality(DOMAIN new) <= Cardinality(Unused(H)),
         NEW from, Chosen(H, q, from), DOMAIN from \subseteq DOMAIN new
  PROVE  LET made == Made(H, q, new, from)
         IN  Account(made.heap, More(r, made.entries)) /\ Makes(H, made.heap, q, r, made.entries, new)
<1> DEFINE k == Kept(H, q, from)
           T == Taken(H, q, from)
           rest == Restrict(new, DOMAIN new \ DOMAIN from)
           B == Born(T, rest).heap
           f == Born(T, rest).entries
           m == [c \in DOMAIN new |-> IF c \in DOMAIN from THEN k[c] ELSE f[c]]
           K == [p \in Payloads |-> IF p \in Range(k) THEN new[CHOOSE c \in DOMAIN k : k[c] = p] ELSE B.keys[p]]
           G == [B EXCEPT !.keys = K]
           s == More(r, k)
<1>1. H \in Heaps /\ r \in [Payloads -> Nat] /\ H.refs \in [Payloads -> Nat]
  BY DEF Account, Heaps
<1>2. Made(H, q, new, from).heap = G /\ Made(H, q, new, from).entries = m
  BY DEF Made, Kept, Taken
<1>3. /\ k \in Entries /\ DOMAIN k = DOMAIN from /\ Account(T, s) /\ Takes(H, T, q, k)
      /\ \A c \in DOMAIN from : r[k[c]] = 0
  BY TakenAccount
<1>4. /\ DOMAIN new \subseteq Chunks /\ IsFiniteSet(DOMAIN new)
      /\ new \in [DOMAIN new -> SUBSET Lows]
  BY MapsElim
<1>5. /\ rest \in Maps /\ DOMAIN rest = DOMAIN new \ DOMAIN from
      /\ \A c \in DOMAIN rest : rest[c] = new[c]
  <2>1. DOMAIN rest = DOMAIN new \ DOMAIN from /\ rest \in [DOMAIN rest -> SUBSET Lows]
    BY <1>4 DEF Restrict
  <2> QED BY <1>4, <2>1, MapsIntro DEF Restrict
<1>6. Cardinality(DOMAIN rest) <= Cardinality(Unused(T))
  <2>1. Unused(T) = Unused(H)
    BY <1>3 DEF Unused, Takes
  <2>2. Cardinality(DOMAIN rest) <= Cardinality(DOMAIN new)
    BY <1>4, <1>5, FS_Subset
  <2>3. Cardinality(DOMAIN rest) \in Nat /\ Cardinality(DOMAIN new) \in Nat /\ Cardinality(Unused(H)) \in Nat
    <3>1. IsFiniteSet(Unused(H))
      BY FS_Subset, AddressAssumption DEF Unused
    <3> QED BY <1>4, <1>5, <3>1, FS_Subset, FS_CardinalityType
  <2> QED BY <2>1, <2>2, <2>3
<1> HIDE DEF T, k, rest, B, f, s
<1>7. Gains(T, B, f, rest) /\ Fresh(T, f)
  <2>1. T \in Heaps
    BY <1>3 DEF Account
  <2> QED BY <1>3, <1>5, <1>6, <2>1, BornGains DEF B, f
<1>8. Account(B, More(s, f))
  <2>1. T \in Heaps
    BY <1>3 DEF Account
  <2> QED BY <1>3, <1>7, <2>1, GainsAccount
<1>9. f \in Entries /\ DOMAIN f = DOMAIN new \ DOMAIN from /\ B \in Heaps
  BY <1>5, <1>7 DEF Gains
<1>10. m \in Entries /\ DOMAIN m = DOMAIN new
  <2>1. \A c \in DOMAIN new : m[c] \in Payloads
    BY <1>3, <1>9, EntriesElim
  <2>2. m \in [DOMAIN m -> Payloads]
    BY <2>1
  <2> QED BY <1>4, <2>2, EntriesIntro
<1>11. (\A c \in DOMAIN k : m[c] = k[c]) /\ (\A c \in DOMAIN f : m[c] = f[c])
  BY <1>3, <1>9
<1> HIDE DEF m
<1>12. ASSUME NEW p \in Payloads PROVE Count(m, p) = Count(k, p) + Count(f, p)
  <2>1. DOMAIN k \in SUBSET DOMAIN m /\ DOMAIN m \ DOMAIN k = DOMAIN f
    BY <1>3, <1>9, <1>10
  <2>2. Count(m, p) = Count(Restrict(m, DOMAIN k), p) + Count(Restrict(m, DOMAIN m \ DOMAIN k), p)
    BY <1>10, <2>1, CountSplit
  <2>3. Restrict(m, DOMAIN k) = k
    BY <1>3, <1>11, EntriesElim DEF Restrict
  <2>4. Restrict(m, DOMAIN f) = f
    BY <1>9, <1>11, EntriesElim DEF Restrict
  <2> QED BY <2>1, <2>2, <2>3, <2>4
<1>13. More(r, m) = More(s, f)
  <2>1. \A p \in Payloads : Count(k, p) \in Nat /\ Count(f, p) \in Nat /\ r[p] \in Nat
    BY <1>1, <1>3, <1>9, OfFinite
  <2>2. \A p \in Payloads : r[p] + Count(m, p) = (r[p] + Count(k, p)) + Count(f, p)
    BY <1>12, <2>1
  <2> QED BY <2>2 DEF More, s
<1>14. ASSUME NEW c \in DOMAIN k PROVE K[k[c]] = new[c] /\ k[c] \in Payloads /\ T.refs[k[c]] = 1
  <2>1. k[c] \in Payloads /\ k[c] \in Range(k)
    BY <1>3, EntriesElim DEF Range
  <2>2. (CHOOSE d \in DOMAIN k : k[d] = k[c]) = c
    BY <1>3 DEF Takes, Loose
  <2> QED BY <1>3, <2>1, <2>2 DEF Takes, Loose
<1>15. \A p \in Payloads : (\A c \in DOMAIN k : k[c] # p) => K[p] = B.keys[p]
  BY DEF Range
<1>16. K \in [Payloads -> SUBSET Lows]
  <2>1. ASSUME NEW p \in Payloads PROVE K[p] \in SUBSET Lows
    <3>1. CASE \A c \in DOMAIN k : k[c] # p
      BY <1>9, <1>15, <3>1 DEF Heaps
    <3>2. CASE ~\A c \in DOMAIN k : k[c] # p
      <4>1. PICK c \in DOMAIN k : k[c] = p
        BY <3>2
      <4> QED BY <1>3, <1>4, <1>14, <4>1
    <3> QED BY <3>1, <3>2
  <2> QED BY <2>1
<1> HIDE DEF K
<1>17. /\ G \in Heaps /\ SameBlocks(B, G) /\ G.entries = B.entries /\ G.refs = B.refs /\ G.keys = K
  BY <1>9, <1>16 DEF Heaps, SameBlocks
<1> HIDE DEF G
<1>18. \A p \in Payloads : T.refs[p] # 0 => B.refs[p] # 0
  <2>1. \A p \in Payloads : B.refs[p] = T.refs[p] + Count(f, p) /\ T.refs[p] \in Nat /\ Count(f, p) \in Nat
    BY <1>1, <1>3, <1>7, <1>9, OfFinite DEF Gains, Takes
  <2> QED BY <2>1
<1>19. Account(G, More(r, m))
  <2>1. ASSUME NEW p \in Payloads, G.refs[p] = 0 PROVE G.keys[p] = {}
    <3>1. \A c \in DOMAIN k : k[c] # p
      BY <1>14, <1>17, <1>18, <2>1
    <3> QED BY <1>8, <1>15, <1>17, <2>1, <3>1 DEF Account
  <2> QED BY <1>8, <1>13, <1>17, <2>1 DEF Account, SameBlocks, Counted, TableSharing, RoomOf, Refcounted
<1>20. ASSUME NEW c \in DOMAIN m PROVE G.keys[m[c]] = new[c]
  <2>1. CASE c \in DOMAIN k
    BY <1>11, <1>14, <1>17, <2>1
  <2>2. CASE c \notin DOMAIN k
    <3>1. c \in DOMAIN f /\ m[c] = f[c] /\ f[c] \in Payloads
      BY <1>3, <1>9, <1>10, <1>11, <2>2, EntriesElim
    <3>2. T.refs[f[c]] = 0 /\ B.keys[f[c]] = new[c]
      BY <1>5, <1>7, <3>1 DEF Fresh, Gains
    <3>3. \A d \in DOMAIN k : k[d] # f[c]
      BY <1>14, <3>2
    <3> QED BY <1>15, <1>17, <3>1, <3>2, <3>3
  <2> QED BY <2>1, <2>2
<1>21. ASSUME NEW x \in Tables \ {q} PROVE Untouched(H, G, x)
  <2>1. Untouched(T, B, x)
    BY <1>3, <1>7, FreshElsewhere
  <2>2. T.entries[x] = H.entries[x] /\ T.room[x] = H.room[x] /\ T.refs = H.refs /\ T.keys = H.keys
    BY <1>3 DEF Takes, SameBlocks
  <2>3. ASSUME NEW d \in DOMAIN H.entries[x] PROVE G.keys[H.entries[x][d]] = B.keys[H.entries[x][d]]
    <3>1. H.entries[x][d] \in Payloads
      BY <1>1, EntryType
    <3>2. \A c \in DOMAIN k : k[c] # H.entries[x][d]
      BY <1>3 DEF Takes
    <3> QED BY <1>15, <1>17, <3>1, <3>2
  <2> QED BY <1>17, <2>1, <2>2, <2>3 DEF Untouched, SameValue, StaysAlone, SameBlocks
<1>22. ASSUME NEW p \in Payloads, r[p] # 0 PROVE G.keys[p] = H.keys[p]
  <2>1. \A c \in DOMAIN k : k[c] # p
    BY <1>3, <1>22
  <2>2. H.refs[p] # 0
    <3>1. H.refs[p] = Uses(H.entries, p) + r[p] /\ r[p] \in Nat
      BY DEF Account
    <3>2. Uses(H.entries, p) \in Nat
      BY <1>1, OnFinite DEF Heaps
    <3> QED BY <1>22, <3>1, <3>2
  <2>3. B.keys[p] = H.keys[p]
    BY <1>3, <1>7, <2>2 DEF Gains, Takes
  <2> QED BY <1>15, <1>17, <2>1, <2>3
<1>23. SameBlocks(H, G)
  BY <1>3, <1>7, <1>17 DEF Takes, Gains, SameBlocks, SameTables
<1>24. Makes(H, G, q, r, m, new)
  BY <1>10, <1>20, <1>21, <1>22, <1>23 DEF Makes
<1> QED BY <1>2, <1>19, <1>24

-----------------------------------------------------------------------------
\* What a call holds is in use.
LEMMA InHand ==
  ASSUME NEW H, NEW r, Account(H, r), NEW p \in Payloads, r[p] # 0
  PROVE  H.refs[p] # 0
<1>1. H.refs[p] = Uses(H.entries, p) + r[p] /\ r[p] \in Nat
  BY DEF Account
<1>2. Uses(H.entries, p) \in Nat
  BY OnFinite DEF Heaps, Account
<1> QED BY <1>1, <1>2

\* What Put leaves in the table, and elsewhere.
Puts(H, G, t, g, r) ==
  /\ SameBlocks(H, G)
  /\ DOMAIN G.entries[t] = DOMAIN g \cup DOMAIN H.entries[t]
  /\ \A d \in DOMAIN g : /\ G.keys[G.entries[t][d]] = H.keys[g[d]]
                         /\ H.refs[g[d]] = 1 => G.refs[G.entries[t][d]] = 1
  /\ \A d \in DOMAIN H.entries[t] \ DOMAIN g :
       /\ G.keys[G.entries[t][d]] = H.keys[H.entries[t][d]]
       /\ H.refs[H.entries[t][d]] = 1 => G.refs[G.entries[t][d]] = 1
  /\ \A x \in Tables \ {t} : Untouched(H, G, x)
  /\ \A p \in Payloads : r[p] # 0 => G.keys[p] = H.keys[p]

LEMMA PutPlaces ==
  ASSUME NEW H \in Heaps, NEW r \in [Payloads -> Nat], NEW g \in Entries, Account(H, More(r, g)),
         NEW t \in Tables, H.holders[t] # 0
  PROVE  Account(Put(H, t, g), r) /\ Puts(H, Put(H, t, g), t, g, r)
<1> DEFINE G == Put(H, t, g)
           e == H.entries[t]
           m == Merged(e, g)
<1>1. Account(G, r) /\ Exchanges(H, G, t, m)
  BY PutAccount
<1>2. e \in Entries
  BY DEF Heaps
<1>3. /\ m \in Entries /\ DOMAIN m = DOMAIN g \cup DOMAIN e
      /\ \A c \in DOMAIN g : m[c] = g[c]
      /\ \A c \in DOMAIN e \ DOMAIN g : m[c] = e[c]
  BY <1>2, MergedType
<1> HIDE DEF G, m
<1>4. G.entries[t] = m
  BY <1>1 DEF Exchanges, Heaps
<1>5. ASSUME NEW d \in DOMAIN m
      PROVE  /\ m[d] \in Payloads /\ G.keys[m[d]] = H.keys[m[d]]
             /\ H.refs[m[d]] = 1 => G.refs[m[d]] = 1
  <2>1. m[d] \in Payloads
    BY <1>3, EntriesElim
  <2>2. G.refs[m[d]] \in Nat /\ G.refs[m[d]] >= 1
    BY <1>1, <1>4, InUse
  <2>3. G.refs[m[d]] <= H.refs[m[d]] /\ (G.refs[m[d]] # 0 => G.keys[m[d]] = H.keys[m[d]])
    BY <1>1, <2>1 DEF Exchanges
  <2> QED BY <2>1, <2>2, <2>3
<1>6. \A x \in Tables \ {t} : Untouched(H, G, x)
  BY <1>1, ExchangesElsewhere
<1>7. \A p \in Payloads : r[p] # 0 => G.keys[p] = H.keys[p]
  BY <1>1, InHand DEF Exchanges
<1>8. Puts(H, G, t, g, r)
  BY <1>1, <1>3, <1>4, <1>5, <1>6, <1>7 DEF Puts, SameBlocks, Exchanges
<1> QED BY <1>1, <1>8 DEF G

\* Payloads for as many containers as a table has room for besides f.
LEMMA SupportOfMore ==
  ASSUME NEW f \in Entries
  PROVE  IsFiniteSet(Support(More(None, f))) /\ Cardinality(Support(More(None, f))) <= Cardinality(DOMAIN f)
<1> DEFINE D == DOMAIN f
           P == Support(More(None, f))
<1>1. IsFiniteSet(D) /\ f \in [D -> Payloads]
  BY EntriesElim
<1>2. \A p \in Payloads : More(None, f)[p] = Count(f, p)
  BY OfFinite DEF More, None
<1>3. ASSUME NEW p \in P PROVE p \in Payloads /\ \E c \in D : f[c] = p
  <2>1. p \in Payloads /\ Count(f, p) # 0
    BY <1>2 DEF Support
  <2> QED BY <2>1, CountNone
<1> HIDE DEF P
<1>4. CASE P = {}
  BY <1>1, <1>4, FS_EmptySet, FS_CardinalityType DEF P
<1>5. CASE P # {}
  <2> DEFINE E == {c \in D : f[c] \in P}
             g == [c \in E |-> f[c]]
  <2>1. IsFiniteSet(E) /\ Cardinality(E) <= Cardinality(D)
    BY <1>1, FS_Subset
  <2>2. g \in Surjection(E, P)
    BY <1>3 DEF Surjection
  <2> HIDE DEF E, g
  <2>3. IsFiniteSet(P) /\ Cardinality(P) <= Cardinality(E)
    BY <2>1, <2>2, FS_Surjection
  <2>4. Cardinality(P) \in Nat /\ Cardinality(E) \in Nat /\ Cardinality(D) \in Nat
    BY <1>1, <2>1, <2>3, FS_CardinalityType
  <2> QED BY <2>1, <2>3, <2>4 DEF P
<1> QED BY <1>4, <1>5

LEMMA SpaciousFor ==
  ASSUME NEW H, NEW f \in Entries, Account(H, More(None, f)), Spacious(H),
         NEW S \in SUBSET (Chunks \ DOMAIN f)
  PROVE  Cardinality(S) <= Cardinality(Unused(H))
<1> DEFINE D == DOMAIN f
           P == Support(More(None, f))
           U == Unused(H)
<1>1. D \subseteq Chunks /\ IsFiniteSet(D) /\ IsFiniteSet(S) /\ IsFiniteSet(Chunks) /\ IsFiniteSet(U)
      /\ IsFiniteSet(S \cup D)
  <2>1. IsFiniteSet(U)
    BY FS_Subset, AddressAssumption DEF Unused
  <2> QED BY <2>1, EntriesElim, FS_Subset, FS_Union, AddressAssumption
<1>2. Cardinality(Chunks) <= Cardinality(U) + Cardinality(P)
  BY UnusedEnough
<1>3. IsFiniteSet(P) /\ Cardinality(P) <= Cardinality(D)
  BY SupportOfMore
<1>4. S \cup D \subseteq Chunks /\ S \cap D = {}
  BY <1>1
<1> HIDE DEF D, P, U
<1>5. Cardinality(S \cup D) = Cardinality(S) + Cardinality(D)
  BY <1>1, <1>4, DisjointSum
<1>6. Cardinality(S \cup D) <= Cardinality(Chunks)
  BY <1>1, <1>4, FS_Subset
<1>7. /\ Cardinality(S) \in Nat /\ Cardinality(D) \in Nat /\ Cardinality(P) \in Nat /\ Cardinality(U) \in Nat
      /\ Cardinality(Chunks) \in Nat
  BY <1>1, <1>3, FS_CardinalityType
<1> QED BY <1>2, <1>3, <1>5, <1>6, <1>7 DEF U

-----------------------------------------------------------------------------
(***************************************************************************)
(* The keys of f united into the chunks S of table t.                      *)
(***************************************************************************)
UnionOf(H, t, f, d) == H.keys[H.entries[t][d]] \cup H.keys[f[d]]
InPlace(H, t, S) == {d \in S : Unshared(H, t, d)}

Grows(H, t, f, I) ==
  [H EXCEPT !.keys = [p \in Payloads |->
     @[p] \cup UNION {UnionOf(H, t, f, c) : c \in {d \in I : H.entries[t][d] = p}}]]

LEMMA GrowsAccount ==
  ASSUME NEW H, NEW r, Account(H, r), NEW t \in Tables, NEW f \in Entries,
         NEW I, I \subseteq DOMAIN f \cap DOMAIN H.entries[t], \A c \in I : Unshared(H, t, c)
  PROVE  LET G == Grows(H, t, f, I)
         IN  /\ Account(G, r) /\ SameBlocks(H, G) /\ G.entries = H.entries /\ G.refs = H.refs
             /\ \A c \in I : G.keys[H.entries[t][c]] = UnionOf(H, t, f, c)
             /\ \A c \in DOMAIN H.entries[t] \ I : G.keys[H.entries[t][c]] = H.keys[H.entries[t][c]]
             /\ \A x \in Tables \ {t} : Untouched(H, G, x)
<1> DEFINE e == H.entries[t]
           Added(p) == UNION {UnionOf(H, t, f, c) : c \in {d \in I : e[d] = p}}
           K == [p \in Payloads |-> H.keys[p] \cup Added(p)]
           G == Grows(H, t, f, I)
<1>1. H \in Heaps /\ e \in Entries /\ H.keys \in [Payloads -> SUBSET Lows]
  BY DEF Account, Heaps
<1>2. \A c \in DOMAIN e : e[c] \in Payloads
  BY <1>1, EntriesElim
<1>3. \A c \in DOMAIN f : f[c] \in Payloads
  BY EntriesElim
<1>4. \A c \in I : c \in DOMAIN e /\ c \in DOMAIN f /\ H.refs[e[c]] = 1 /\ UnionOf(H, t, f, c) \in SUBSET Lows
  BY <1>1, <1>2, <1>3 DEF UnionOf, Unshared
<1>5. ASSUME NEW p \in Payloads, NEW c \in I, e[c] = p
      PROVE  Added(p) = UnionOf(H, t, f, c)
  <2>1. ASSUME NEW d \in I, e[d] = p PROVE d = c
    <3>1. e[c] = e[d] /\ H.refs[e[c]] = 1
      BY <1>4, <1>5, <2>1
    <3>2. <<t, c>> # <<t, d>> => H.refs[e[c]] > 1
      BY <1>4, <3>1, TwoInUse
    <3> QED BY <3>1, <3>2
  <2>2. {d \in I : e[d] = p} = {c}
    BY <1>5, <2>1
  <2> HIDE DEF e
  <2> QED BY <2>2
<1>6. ASSUME NEW p \in Payloads, \A c \in I : e[c] # p
      PROVE  Added(p) = {}
  BY <1>6
<1>7. K \in [Payloads -> SUBSET Lows]
  BY <1>1, <1>4
<1>8. G = [H EXCEPT !.keys = K]
  BY DEF Grows
<1>9. (\A p \in Payloads : K[p] = H.keys[p] \cup Added(p))
  OBVIOUS
<1> HIDE DEF K, G, Added
<1>10. G \in Heaps /\ SameBlocks(H, G) /\ G.entries = H.entries /\ G.refs = H.refs /\ G.keys = K
  BY <1>1, <1>7, <1>8 DEF Heaps, SameBlocks
<1>11. ASSUME NEW c \in I PROVE G.keys[e[c]] = UnionOf(H, t, f, c)
  <2>1. e[c] \in Payloads
    BY <1>2, <1>4
  <2>2. Added(e[c]) = UnionOf(H, t, f, c)
    BY <1>5, <2>1
  <2> QED BY <1>9, <1>10, <2>1, <2>2 DEF UnionOf
<1>12. ASSUME NEW p \in Payloads, \A c \in I : e[c] # p PROVE G.keys[p] = H.keys[p]
  BY <1>6, <1>9, <1>10, <1>12
<1>13. ASSUME NEW x \in Tables, NEW d \in DOMAIN H.entries[x], x # t \/ d \notin I
       PROVE  G.keys[H.entries[x][d]] = H.keys[H.entries[x][d]]
  <2>1. H.entries[x][d] \in Payloads
    BY <1>1, EntryType
  <2>2. ASSUME NEW c \in I PROVE e[c] # H.entries[x][d]
    <3>1. c \in DOMAIN H.entries[t] /\ H.refs[H.entries[t][c]] = 1 /\ <<t, c>> # <<x, d>>
      BY <1>4, <1>13
    <3>2. H.entries[t][c] = H.entries[x][d] => H.refs[H.entries[t][c]] > 1
      BY <3>1, TwoInUse
    <3> QED BY <3>1, <3>2
  <2> QED BY <1>12, <2>1, <2>2
<1>14. Account(G, r)
  <2>1. ASSUME NEW p \in Payloads, H.refs[p] = 0 PROVE G.keys[p] = {}
    <3>1. \A c \in I : e[c] # p
      BY <1>4, <2>1
    <3> QED BY <1>12, <2>1, <3>1 DEF Account
  <2> QED BY <1>10, <2>1 DEF Account, SameBlocks, Counted, TableSharing, RoomOf, Refcounted
<1>15. \A x \in Tables \ {t} : Untouched(H, G, x)
  BY <1>10, <1>13 DEF Untouched, SameValue, StaysAlone, SameBlocks
<1>16. \A c \in DOMAIN H.entries[t] \ I : G.keys[H.entries[t][c]] = H.keys[H.entries[t][c]]
  BY <1>13
<1> QED BY <1>10, <1>11, <1>14, <1>15, <1>16 DEF G

Unites(H, G, t, q, f, S) ==
  /\ SameBlocks(H, G)
  /\ DOMAIN G.entries[t] = DOMAIN H.entries[t]
  /\ \A d \in DOMAIN H.entries[t] :
       /\ G.keys[G.entries[t][d]] = IF d \in S THEN UnionOf(H, t, f, d) ELSE H.keys[H.entries[t][d]]
       /\ H.refs[H.entries[t][d]] = 1 => G.refs[G.entries[t][d]] = 1
  /\ \A x \in Tables \ {t, q} : Untouched(H, G, x)

LEMMA UnitedAccount ==
  ASSUME NEW H, Account(H, None), Spacious(H), NEW t \in Tables, H.holders[t] # 0,
         NEW q \in Tables \cup {Null}, q # t, q \in Tables => H.holders[q] # 0,
         NEW f \in Entries, NEW S, S \subseteq DOMAIN f \cap DOMAIN H.entries[t],
         NEW from, Chosen(H, q, from), DOMAIN from \subseteq {d \in S : ~Unshared(H, t, d)}
  PROVE  Account(UnitedIn(H, t, q, f, S, from), None)
         /\ Unites(H, UnitedIn(H, t, q, f, S, from), t, q, f, S)
<1> DEFINE I == InPlace(H, t, S)
           e == H.entries[t]
           both == [c \in S |-> UnionOf(H, t, f, c)]
           new == Restrict(both, S \ I)
           W == Grows(H, t, f, I)
           G == Made(W, q, new, from).heap
           m == Made(W, q, new, from).entries
           P == Put(G, t, m)
           r == None
<1>1. H \in Heaps /\ e \in Entries /\ r \in [Payloads -> Nat] /\ H.keys \in [Payloads -> SUBSET Lows]
      /\ H.entries \in [Tables -> Entries] /\ H.holders \in [Tables -> Nat]
  BY SupportOfNone DEF Account, Heaps
<1>2. UnitedIn(H, t, q, f, S, from) = P
  <2>1. W = [H EXCEPT !.keys = [p \in Payloads |->
               H.keys[p] \cup UNION {both[c] : c \in {d \in I : H.entries[t][d] = p}}]]
    BY DEF Grows, InPlace
  <2> QED BY <2>1 DEF UnitedIn, InPlace, UnionOf
<1>3. I \subseteq S /\ I \subseteq DOMAIN f \cap DOMAIN H.entries[t] /\ \A c \in I : Unshared(H, t, c)
  BY DEF InPlace
<1> HIDE DEF W, r, I
<1>4. /\ Account(W, r) /\ SameBlocks(H, W) /\ W.entries = H.entries /\ W.refs = H.refs
      /\ \A c \in I : W.keys[H.entries[t][c]] = UnionOf(H, t, f, c)
      /\ \A c \in DOMAIN H.entries[t] \ I : W.keys[H.entries[t][c]] = H.keys[H.entries[t][c]]
      /\ \A x \in Tables \ {t} : Untouched(H, W, x)
  BY <1>3, GrowsAccount DEF W, r
<1>5. /\ new \in Maps /\ DOMAIN new = S \ I /\ \A c \in S \ I : new[c] = UnionOf(H, t, f, c)
  <2>1. \A c \in S : UnionOf(H, t, f, c) \in SUBSET Lows /\ c \in Chunks
    <3>1. \A c \in S : c \in Chunks /\ e[c] \in Payloads /\ f[c] \in Payloads
      BY <1>1, EntriesElim
    <3> QED BY <1>1, <3>1 DEF UnionOf
  <2>2. DOMAIN new = S \ I /\ \A c \in S \ I : new[c] = UnionOf(H, t, f, c)
    BY DEF Restrict
  <2>3. new \in [DOMAIN new -> SUBSET Lows] /\ DOMAIN new \subseteq Chunks
    BY <2>1, <2>2 DEF Restrict
  <2> QED BY <2>2, <2>3, MapsIntro
<1>6. Cardinality(DOMAIN new) <= Cardinality(Unused(W))
  <2>1. HasRoom(H)
    BY SpaciousHasRoom
  <2>2. Unused(W) = Unused(H)
    BY <1>4 DEF Unused
  <2>3. DOMAIN new \in SUBSET Chunks
    BY <1>1, <1>5, EntriesElim
  <2> HIDE DEF new
  <2> QED BY <2>1, <2>2, <2>3, FitsRoom
<1>7. Chosen(W, q, from) /\ DOMAIN from \subseteq DOMAIN new /\ (q \in Tables => W.holders[q] # 0)
  <2>1. DOMAIN from \subseteq S \ I
    BY <1>3 DEF InPlace, I
  <2> QED BY <1>4, <1>5, <2>1 DEF Chosen, EntriesOf, SameBlocks
<1> HIDE DEF new, G, m, both
<1>8. Account(G, More(r, m)) /\ Makes(W, G, q, r, m, new)
  BY <1>4, <1>5, <1>6, <1>7, MadeAccount DEF G, m
<1>9. G \in Heaps /\ m \in Entries /\ DOMAIN m = S \ I /\ G.holders[t] # 0 /\ SameBlocks(W, G)
      /\ \A c \in DOMAIN m : G.keys[m[c]] = new[c]
  BY <1>4, <1>5, <1>8 DEF Makes, SameBlocks, Account
<1>10. Account(P, r) /\ Puts(G, P, t, m, r)
  BY <1>1, <1>8, <1>9, PutPlaces DEF P
<1>11. Untouched(W, G, t)
  BY <1>8 DEF Makes
<1>12. G.entries[t] = e /\ \A d \in DOMAIN e : /\ G.keys[e[d]] = W.keys[e[d]]
                                               /\ H.refs[e[d]] = 1 => G.refs[e[d]] = 1
  BY <1>4, <1>11 DEF Untouched, SameValue, StaysAlone
<1> HIDE DEF P
<1>13. DOMAIN P.entries[t] = DOMAIN e
  BY <1>9, <1>10, <1>12 DEF Puts
<1>14. ASSUME NEW d \in DOMAIN e
       PROVE  /\ P.keys[P.entries[t][d]] = IF d \in S THEN UnionOf(H, t, f, d) ELSE H.keys[e[d]]
              /\ H.refs[e[d]] = 1 => P.refs[P.entries[t][d]] = 1
  <2>1. CASE d \in S \ I
    <3>1. P.keys[P.entries[t][d]] = new[d]
      BY <1>9, <1>10, <2>1 DEF Puts
    <3>2. H.refs[e[d]] # 1
      BY <2>1 DEF I, InPlace, Unshared
    <3> QED BY <1>5, <2>1, <3>1, <3>2
  <2>2. CASE d \notin S \ I
    <3>1. /\ P.keys[P.entries[t][d]] = W.keys[e[d]]
          /\ H.refs[e[d]] = 1 => P.refs[P.entries[t][d]] = 1
      BY <1>9, <1>10, <1>12, <2>2 DEF Puts
    <3>2. W.keys[e[d]] = IF d \in S THEN UnionOf(H, t, f, d) ELSE H.keys[e[d]]
      BY <1>3, <1>4, <2>2
    <3> QED BY <3>1, <3>2
  <2> QED BY <2>1, <2>2
<1>15. \A x \in Tables \ {t, q} : Untouched(H, P, x)
  <2> SUFFICES ASSUME NEW x \in Tables \ {t, q} PROVE Untouched(H, P, x)
    OBVIOUS
  <2>1. Untouched(H, W, x) /\ Untouched(W, G, x) /\ Untouched(G, P, x)
    BY <1>4, <1>8, <1>10 DEF Makes, Puts
  <2>2. Untouched(H, G, x)
    BY <2>1, UntouchedTransitive
  <2> QED BY <2>1, <2>2, UntouchedTransitive
<1>16. SameBlocks(H, P)
  BY <1>4, <1>9, <1>10 DEF Puts, SameBlocks
<1>17. Unites(H, P, t, q, f, S)
  BY <1>13, <1>14, <1>15, <1>16 DEF Unites
<1> QED BY <1>2, <1>10, <1>17 DEF r

-----------------------------------------------------------------------------
\* A parked payload lost.
Wastes(H, G, q) == SameBlocks(H, G) /\ \A x \in Tables \ {q} : Untouched(H, G, x)

LEMMA WastedAccount ==
  ASSUME NEW H, NEW r, Account(H, r), NEW q \in Tables \cup {Null}, q \in Tables => H.holders[q] # 0,
         NEW G \in Wasted(H, q)
  PROVE  Account(G, r) /\ Wastes(H, G, q)
<1>1. CASE G = H
  BY <1>1, UntouchedTransitive DEF Wastes, SameBlocks
<1>2. CASE G # H
  <2>1. PICK d \in Reusable(H, q) :
          G = [Dropped(H, Restrict(H.entries[q], {d})) EXCEPT !.entries[q] = Restrict(@, DOMAIN @ \ {d})]
    BY <1>2 DEF Wasted
  <2>2. H \in Heaps /\ r \in [Payloads -> Nat]
    BY DEF Account
  <2>3. q \in Tables /\ d \in DOMAIN H.entries[q]
    BY <2>2, EntriesOfType DEF Reusable
  <2> DEFINE e == H.entries[q]
             D == Dropped(H, Restrict(e, {d}))
             S == {d}
  <2>4. D.entries[q] = e
    BY <2>3 DEF Dropped
  <2>5. G = Cut(H, q, S)
    BY <2>1, <2>4 DEF Cut, Exchanged
  <2>6. S \in SUBSET DOMAIN e
    BY <2>3
  <2> HIDE DEF S
  <2>7. Account(G, r) /\ Exchanges(H, G, q, Restrict(e, DOMAIN e \ S))
    BY <2>2, <2>3, <2>5, <2>6, CutAccount
  <2>8. \A x \in Tables \ {q} : Untouched(H, G, x)
    BY <2>3, <2>7, ExchangesElsewhere
  <2> QED BY <2>7, <2>8 DEF Wastes, SameBlocks, Exchanges
<1> QED BY <1>1, <1>2

-----------------------------------------------------------------------------
(***************************************************************************)
(* Entries f a call has got, put in its table once that has the room: n is *)
(* the table then.                                                         *)
(***************************************************************************)
Grafts(H, G, t, n, new) ==
  /\ G.policy = H.policy /\ HolderMoves(H, G, t, n)
  /\ n \in Tables /\ G.holders[n] = 1 /\ (n # t => H.holders[n] = 0)
  /\ DOMAIN G.entries[n] = DOMAIN new \cup DOMAIN EntriesOf(H, t)
  /\ \A d \in DOMAIN new : G.keys[G.entries[n][d]] = new[d]
  /\ \A d \in DOMAIN EntriesOf(H, t) \ DOMAIN new : G.keys[G.entries[n][d]] = H.keys[EntriesOf(H, t)[d]]
  /\ \A x \in Tables \ {t, n} : SameValue(H, G, x)

LEMMA GraftAccount ==
  ASSUME NEW H, NEW r, Account(H, r), NEW t \in Tables \cup {Null},
         NEW C, NEW f, NEW new, Gains(H, C, f, new), Account(C, More(r, f)),
         NEW D, NEW n, Relocates(C, D, t, n), Account(D, More(r, f))
  PROVE  LET G == Put(D, n, f)
         IN  /\ Account(G, r) /\ Grafts(H, G, t, n, new)
             /\ \A x \in Tables \ {t, n} : Untouched(H, C, x) => Untouched(H, G, x)
             /\ Fresh(H, f) => /\ \A d \in DOMAIN new : G.refs[G.entries[n][d]] = 1
                               /\ \A d \in DOMAIN EntriesOf(H, t) \ DOMAIN new :
                                    H.refs[EntriesOf(H, t)[d]] = 1 => G.refs[G.entries[n][d]] = 1
<1> DEFINE G == Put(D, n, f)
           e == EntriesOf(H, t)
<1>1. /\ H \in Heaps /\ r \in [Payloads -> Nat] /\ C \in Heaps /\ D \in Heaps
      /\ f \in Entries /\ DOMAIN f = DOMAIN new /\ SameTables(H, C)
      /\ \A p \in Payloads : C.refs[p] = H.refs[p] + Count(f, p)
  BY DEF Account, Gains
<1>2. /\ D.policy = C.policy /\ D.refs = C.refs /\ D.keys = C.keys /\ HolderMoves(C, D, t, n)
      /\ n \in Tables /\ D.holders[n] = 1 /\ (n # t => C.holders[n] = 0)
      /\ D.entries[n] = EntriesOf(C, t) /\ \A x \in Tables \ {t, n} : Untouched(C, D, x)
  BY DEF Relocates
<1>3. EntriesOf(C, t) = e
  BY <1>1 DEF EntriesOf, SameTables
<1>4. Account(G, r) /\ Puts(D, G, n, f, r)
  BY <1>1, <1>2, PutPlaces
<1> HIDE DEF G
<1>5. G.policy = D.policy /\ G.holders = D.holders /\ DOMAIN G.entries[n] = DOMAIN new \cup DOMAIN e
  BY <1>1, <1>2, <1>3, <1>4 DEF Puts, SameBlocks
<1>6. HolderMoves(H, G, t, n) /\ G.policy = H.policy
  BY <1>1, <1>2, <1>5 DEF HolderMoves, SameTables
<1>7. ASSUME NEW d \in DOMAIN new
      PROVE  G.keys[G.entries[n][d]] = new[d] /\ (C.refs[f[d]] = 1 => G.refs[G.entries[n][d]] = 1)
  <2>1. C.keys[f[d]] = new[d]
    BY <1>1 DEF Gains
  <2> QED BY <1>1, <1>2, <1>4, <2>1 DEF Puts
<1>8. ASSUME NEW x \in Tables PROVE SameValue(H, C, x)
  BY GainsElsewhere
<1>9. \A d \in DOMAIN e : C.keys[e[d]] = H.keys[e[d]]
  <2>1. CASE t = Null
    BY <2>1, NoEntriesType DEF EntriesOf
  <2>2. CASE t \in Tables
    BY <1>1, <1>8, <2>2, EntriesOfType DEF SameValue
  <2> QED BY <2>1, <2>2
<1>10. ASSUME NEW d \in DOMAIN e \ DOMAIN new
       PROVE  G.keys[G.entries[n][d]] = H.keys[e[d]] /\ (C.refs[e[d]] = 1 => G.refs[G.entries[n][d]] = 1)
  BY <1>1, <1>2, <1>3, <1>4, <1>9 DEF Puts
<1>11. ASSUME NEW x \in Tables \ {t, n}
       PROVE  SameValue(H, G, x) /\ (Untouched(H, C, x) => Untouched(H, G, x))
  <2>1. SameValue(H, C, x) /\ Untouched(C, D, x) /\ Untouched(D, G, x)
    BY <1>2, <1>4, <1>8 DEF Puts
  <2>2. Untouched(C, G, x)
    BY <2>1, UntouchedTransitive
  <2>3. SameValue(H, G, x)
    BY <2>1, <2>2, UntouchedTransitive DEF Untouched
  <2> QED BY <2>2, <2>3, UntouchedTransitive
<1>12. Grafts(H, G, t, n, new)
  BY <1>1, <1>2, <1>5, <1>6, <1>7, <1>10, <1>11 DEF Grafts, SameTables
<1>13. ASSUME Fresh(H, f)
       PROVE  /\ \A d \in DOMAIN new : G.refs[G.entries[n][d]] = 1
              /\ \A d \in DOMAIN e \ DOMAIN new : H.refs[e[d]] = 1 => G.refs[G.entries[n][d]] = 1
  <2>1. ASSUME NEW d \in DOMAIN new PROVE C.refs[f[d]] = 1
    <3>1. f[d] \in Payloads /\ H.refs[f[d]] = 0
      BY <1>1, <1>13, EntriesElim DEF Fresh
    <3>2. \A a, b \in DOMAIN f : f[a] = f[b] => a = b
      BY <1>13 DEF Fresh
    <3>3. Count(f, f[d]) = 1
      BY <1>1, <3>2, CountOne
    <3> QED BY <1>1, <3>1, <3>3
  <2>2. ASSUME NEW d \in DOMAIN e, H.refs[e[d]] = 1 PROVE C.refs[e[d]] = 1
    <3>1. t \in Tables
      BY NoEntriesType DEF EntriesOf
    <3>2. Untouched(H, C, t)
      BY <1>13, <3>1, FreshElsewhere
    <3> QED BY <1>1, <2>2, <3>1, <3>2, EntriesOfType DEF Untouched, StaysAlone
  <2> QED BY <1>7, <1>10, <2>1, <2>2
<1> QED BY <1>4, <1>11, <1>12, <1>13 DEF G

\* Copies of handles in the tables U, with containers of their own or theirs.
HandlesOf(H, U, f) ==
  \A c \in DOMAIN f : \E u \in Tables \cap U : \E d \in DOMAIN H.entries[u] : f[c] = H.entries[u][d]
Lends(H, C, g, f, U) ==
  /\ Gains(H, C, g, ValueOf(H, f)) /\ Account(C, More(None, g)) /\ Live(C) = Live(H)
  /\ \A x \in Tables \ U : Untouched(H, C, x)
  /\ ~Refcounted(H) => Fresh(H, g)

LEMMA CopiedFrom ==
  ASSUME NEW H, Account(H, None), Spacious(H), NEW U, NEW f \in Entries, HandlesOf(H, U, f)
  PROVE  Lends(H, Copied(H, f).heap, Copied(H, f).entries, f, U)
<1> DEFINE C == Copied(H, f).heap
           g == Copied(H, f).entries
           r == None
           new == ValueOf(H, f)
<1>1. H \in Heaps /\ r \in [Payloads -> Nat] /\ Account(H, r)
  BY SupportOfNone DEF Account
<1>2. \A c \in DOMAIN f : H.refs[f[c]] # 0
  <2> SUFFICES ASSUME NEW c \in DOMAIN f PROVE H.refs[f[c]] # 0
    OBVIOUS
  <2>1. PICK u \in Tables : \E d \in DOMAIN H.entries[u] : f[c] = H.entries[u][d]
    BY DEF HandlesOf
  <2>2. PICK d \in DOMAIN H.entries[u] : f[c] = H.entries[u][d]
    BY <2>1
  <2>3. H.refs[H.entries[u][d]] >= 1
    BY <1>1, InUse
  <2> QED BY <2>2, <2>3
<1>3. Cardinality(DOMAIN f) <= Cardinality(Unused(H))
  BY EntriesElim, SpaciousHasRoom, FitsRoom
<1> HIDE DEF C, g, r, new
<1>4. /\ Gains(H, C, g, new)
      /\ Refcounted(H) => g = f
      /\ ~Refcounted(H) => Fresh(H, g)
  BY <1>1, <1>2, <1>3, CopiedGains DEF C, g, new
<1>5. Account(C, More(r, g))
  BY <1>1, <1>4, GainsAccount
<1>6. Live(C) = Live(H)
  BY <1>4 DEF Live, Gains, SameTables
<1>7. ASSUME NEW x \in Tables \ U PROVE Untouched(H, C, x)
  <2>1. CASE Refcounted(H)
    <3>1. ASSUME NEW c \in DOMAIN H.entries[x], H.refs[H.entries[x][c]] = 1
          PROVE  Count(g, H.entries[x][c]) = 0
      <4>1. ASSUME NEW a \in DOMAIN f, f[a] = H.entries[x][c] PROVE FALSE
        <5>1. PICK u \in Tables \cap U : \E d \in DOMAIN H.entries[u] : f[a] = H.entries[u][d]
          BY <4>1 DEF HandlesOf
        <5>2. PICK d \in DOMAIN H.entries[u] : f[a] = H.entries[u][d]
          BY <5>1
        <5>3. <<x, c>> # <<u, d>> /\ H.entries[x][c] = H.entries[u][d]
          BY <4>1, <5>2
        <5>4. H.refs[H.entries[x][c]] > 1
          BY <1>1, <5>3, TwoInUse
        <5> QED BY <3>1, <5>4
      <4> QED BY <1>4, <2>1, <4>1, CountNone
    <3> QED BY <1>1, <1>4, <3>1, GainsElsewhere
  <2>2. CASE ~Refcounted(H)
    BY <1>1, <1>4, <2>2, FreshElsewhere
  <2> QED BY <2>1, <2>2
<1>8. Lends(H, C, g, f, U)
  BY <1>4, <1>5, <1>6, <1>7 DEF Lends, r, new
<1> QED BY <1>8 DEF C, g

\* Chunks inserted that are new.
Inserted(H, t, new, required) ==
  LET born == Born(H, new)
      in   == WithRoom(born.heap, t, required)
  IN  [heap |-> Put(in.heap, in.table, born.entries), table |-> in.table]

Inserts(H, G, t, n, new) ==
  /\ Grafts(H, G, t, n, new)
  /\ \A x \in Tables \ {t, n} : Untouched(H, G, x)
  /\ \A d \in DOMAIN new : G.refs[G.entries[n][d]] = 1
  /\ \A d \in DOMAIN EntriesOf(H, t) \ DOMAIN new :
       H.refs[EntriesOf(H, t)[d]] = 1 => G.refs[G.entries[n][d]] = 1

LEMMA InsertedAccount ==
  ASSUME NEW H, Account(H, None), Spacious(H), NEW t \in Tables \cup {Null}, t \in Tables => H.holders[t] = 1,
         NEW new \in Maps, NEW required \in Nat, required # 0
  PROVE  LET at == Inserted(H, t, new, required)
         IN  Account(at.heap, None) /\ Inserts(H, at.heap, t, at.table, new)
<1> DEFINE C == Born(H, new).heap
           f == Born(H, new).entries
           D == WithRoom(C, t, required).heap
           n == WithRoom(C, t, required).table
           G == Put(D, n, f)
           r == None
<1>1. H \in Heaps /\ r \in [Payloads -> Nat] /\ Account(H, r)
  BY SupportOfNone DEF Account
<1>2. Cardinality(DOMAIN new) <= Cardinality(Unused(H))
  <2>1. DOMAIN new \in SUBSET Chunks
    BY MapsElim
  <2> QED BY <2>1, SpaciousHasRoom, FitsRoom
<1> HIDE DEF r
<1>3. Gains(H, C, f, new) /\ Fresh(H, f)
  BY <1>1, <1>2, BornGains
<1> HIDE DEF C, f
<1>4. Account(C, More(r, f))
  BY <1>1, <1>3, GainsAccount
<1>5. Cardinality(Live(C)) < Cardinality(Tables) /\ (t \in Tables => C.holders[t] = 1)
  <2>1. Live(C) = Live(H)
    BY <1>3 DEF Live, Gains, SameTables
  <2> QED BY <1>3, <2>1 DEF Spacious, Gains, SameTables
<1>6. Account(D, More(r, f)) /\ Relocates(C, D, t, n)
  <2> DEFINE s == More(r, f)
  <2> HIDE DEF s
  <2>1. Account(C, s)
    BY <1>4 DEF s
  <2>2. Account(D, s) /\ Relocates(C, D, t, n)
    BY <1>5, <2>1, WithRoomAccount
  <2> QED BY <2>2 DEF s
<1> HIDE DEF D, n, G
<1>7. /\ Account(G, r) /\ Grafts(H, G, t, n, new)
      /\ \A x \in Tables \ {t, n} : Untouched(H, C, x) => Untouched(H, G, x)
      /\ \A d \in DOMAIN new : G.refs[G.entries[n][d]] = 1
      /\ \A d \in DOMAIN EntriesOf(H, t) \ DOMAIN new :
           H.refs[EntriesOf(H, t)[d]] = 1 => G.refs[G.entries[n][d]] = 1
  BY <1>1, <1>3, <1>4, <1>6, GraftAccount DEF G
<1>8. \A x \in Tables : Untouched(H, C, x)
  BY <1>1, <1>3, FreshElsewhere
<1>9. Account(G, None) /\ Inserts(H, G, t, n, new)
  BY <1>2, <1>7, <1>8 DEF Inserts, r
<1> QED BY <1>9 DEF G, D, n, C, f, Inserted

-----------------------------------------------------------------------------
(***************************************************************************)
(* An empty table n filled: with copies of the handles f, and with the     *)
(* containers new, some in payloads of the pool q.                         *)
(***************************************************************************)
Fills(H, G, n, q, f, new) ==
  /\ SameBlocks(H, G)
  /\ DOMAIN G.entries[n] = DOMAIN f \cup DOMAIN new
  /\ \A d \in DOMAIN f : G.keys[G.entries[n][d]] = H.keys[f[d]]
  /\ \A d \in DOMAIN new : G.keys[G.entries[n][d]] = new[d]
  /\ \A x \in Tables \ {n, q} : SameValue(H, G, x)

FilledFrom(H, n, q, f, new, from) ==
  LET copy == Copied(H, f)
      made == Made(copy.heap, q, new, from)
  IN  Put(Put(made.heap, n, copy.entries), n, made.entries)

LEMMA MoreCommutes ==
  ASSUME NEW f \in Entries, NEW g \in Entries
  PROVE  /\ More(More(None, f), g) = More(More(None, g), f)
         /\ More(None, f) \in [Payloads -> Nat]
         /\ \A d \in DOMAIN f : More(None, f)[f[d]] # 0
<1>1. \A p \in Payloads : Count(f, p) \in Nat /\ Count(g, p) \in Nat
  BY OfFinite
<1>2. \A p \in Payloads : More(None, f)[p] = Count(f, p) /\ More(None, g)[p] = Count(g, p)
  BY <1>1 DEF More, None
<1>3. \A p \in Payloads : More(None, f)[p] + Count(g, p) = More(None, g)[p] + Count(f, p)
  BY <1>1, <1>2
<1>4. More(More(None, f), g) = More(More(None, g), f)
  BY <1>3 DEF More
<1>5. More(None, f) \in [Payloads -> Nat]
  <2>1. DOMAIN More(None, f) = Payloads /\ More(None, f) = [p \in Payloads |-> None[p] + Count(f, p)]
    BY DEF More
  <2> QED BY <1>1, <1>2, <2>1
<1>6. \A d \in DOMAIN f : More(None, f)[f[d]] # 0
  <2> SUFFICES ASSUME NEW d \in DOMAIN f PROVE More(None, f)[f[d]] # 0
    OBVIOUS
  <2>1. f[d] \in Payloads
    BY EntriesElim
  <2>2. Count(f, f[d]) # 0
    BY CountNone
  <2> QED BY <1>2, <2>1, <2>2
<1> QED BY <1>4, <1>5, <1>6

LEMMA FilledAccount ==
  ASSUME NEW H, Account(H, None), Spacious(H), NEW n \in Tables, H.holders[n] # 0, DOMAIN H.entries[n] = {},
         NEW q \in Tables \cup {Null}, q # n, q \in Tables => H.holders[q] # 0,
         NEW U, q \notin U, NEW f \in Entries, HandlesOf(H, U, f),
         NEW new \in Maps, DOMAIN f \cap DOMAIN new = {},
         NEW from, Chosen(H, q, from), DOMAIN from \subseteq DOMAIN new
  PROVE  LET G == FilledFrom(H, n, q, f, new, from)
         IN  /\ Account(G, None) /\ Fills(H, G, n, q, f, new)
             /\ \A x \in Tables \ {n, q} : x \notin U => Untouched(H, G, x)
<1> DEFINE C == Copied(H, f).heap
           g == Copied(H, f).entries
           M == Made(C, q, new, from).heap
           m == Made(C, q, new, from).entries
           P == Put(M, n, g)
           G == Put(P, n, m)
           r == More(None, g)
           s == More(None, m)
<1>1. /\ Gains(H, C, g, ValueOf(H, f)) /\ Account(C, More(None, g)) /\ Live(C) = Live(H)
      /\ \A x \in Tables \ U : Untouched(H, C, x)
      /\ ~Refcounted(H) => Fresh(H, g)
  BY CopiedFrom DEF Lends
<1> HIDE DEF C, g
<1>2. H \in Heaps /\ C \in Heaps /\ SameTables(H, C) /\ g \in Entries /\ DOMAIN g = DOMAIN f
      /\ \A d \in DOMAIN f : C.keys[g[d]] = H.keys[f[d]]
  BY <1>1 DEF Gains, Account, ValueOf
<1>3. DOMAIN new \in SUBSET (Chunks \ DOMAIN g) /\ DOMAIN new \subseteq Chunks
  BY <1>2, MapsElim
<1>4. Cardinality(DOMAIN new) <= Cardinality(Unused(C))
  <2>1. Spacious(C)
    BY <1>1 DEF Spacious
  <2> QED BY <1>1, <1>2, <1>3, <2>1, SpaciousFor
<1>5. Chosen(C, q, from) /\ (q \in Tables => C.holders[q] # 0)
  <2>1. EntriesOf(C, q) = EntriesOf(H, q) /\ C.entries = H.entries /\ C.holders = H.holders
    BY <1>2 DEF EntriesOf, SameTables
  <2>2. ASSUME NEW c \in DOMAIN from PROVE C.refs[C.entries[q][from[c]]] = 1
    <3>1. from[c] \in DOMAIN EntriesOf(H, q) /\ H.refs[H.entries[q][from[c]]] = 1
      BY DEF Chosen
    <3>2. q \in Tables
      BY <3>1, NoEntriesType DEF EntriesOf
    <3>3. Untouched(H, C, q) /\ EntriesOf(H, q) = H.entries[q]
      BY <1>1, <1>2, <3>2, EntriesOfType
    <3> QED BY <2>1, <3>1, <3>3 DEF Untouched, StaysAlone
  <2> QED BY <2>1, <2>2 DEF Chosen
<1> HIDE DEF r, s, M, m
<1>6. Account(M, More(r, m)) /\ Makes(C, M, q, r, m, new)
  <2>1. Account(C, r)
    BY <1>1 DEF r
  <2> QED BY <1>4, <1>5, <2>1, MadeAccount DEF M, m
<1>7. /\ M \in Heaps /\ SameBlocks(C, M) /\ m \in Entries /\ DOMAIN m = DOMAIN new
      /\ \A c \in DOMAIN m : M.keys[m[c]] = new[c]
      /\ \A x \in Tables \ {q} : Untouched(C, M, x)
      /\ \A p \in Payloads : r[p] # 0 => M.keys[p] = C.keys[p]
  BY <1>6 DEF Makes, Account
<1>8. /\ More(r, m) = More(s, g) /\ s \in [Payloads -> Nat] /\ r \in [Payloads -> Nat]
      /\ \A d \in DOMAIN g : r[g[d]] # 0
      /\ \A d \in DOMAIN m : s[m[d]] # 0
  BY <1>2, <1>7, MoreCommutes DEF r, s
<1>9. M.holders[n] # 0 /\ M.entries[n] = H.entries[n]
  <2>1. Untouched(C, M, n)
    BY <1>7
  <2> QED BY <1>2, <1>7, <2>1 DEF SameBlocks, SameTables, Untouched, SameValue
<1>10. Account(P, s) /\ Puts(M, P, n, g, s)
  <2>1. Account(M, More(s, g))
    BY <1>6, <1>8
  <2> QED BY <1>2, <1>7, <1>8, <1>9, <2>1, PutPlaces
<1> HIDE DEF P
<1>11. P \in Heaps /\ P.holders[n] # 0 /\ DOMAIN P.entries[n] = DOMAIN f /\ None \in [Payloads -> Nat]
  BY <1>2, <1>9, <1>10, SupportOfNone DEF Puts, SameBlocks, Account
<1>12. Account(G, None) /\ Puts(P, G, n, m, None)
  <2> DEFINE z == None
  <2>1. Account(P, More(z, m)) /\ z \in [Payloads -> Nat]
    BY <1>10, <1>11 DEF s
  <2> HIDE DEF z
  <2>2. Account(G, z) /\ Puts(P, G, n, m, z)
    BY <1>7, <1>11, <2>1, PutPlaces
  <2> QED BY <2>2 DEF z
<1> HIDE DEF G
<1>13. SameBlocks(H, G)
  BY <1>2, <1>7, <1>10, <1>12 DEF Puts, SameBlocks, SameTables
<1>14. DOMAIN G.entries[n] = DOMAIN f \cup DOMAIN new
  BY <1>7, <1>11, <1>12 DEF Puts
<1>15. ASSUME NEW d \in DOMAIN f PROVE G.keys[G.entries[n][d]] = H.keys[f[d]]
  <2>1. d \in DOMAIN P.entries[n] \ DOMAIN m /\ d \in DOMAIN g
    BY <1>2, <1>7, <1>11
  <2>2. G.keys[G.entries[n][d]] = P.keys[P.entries[n][d]]
    BY <1>12, <2>1 DEF Puts
  <2>3. P.keys[P.entries[n][d]] = M.keys[g[d]]
    BY <1>10, <2>1 DEF Puts
  <2>4. g[d] \in Payloads /\ M.keys[g[d]] = C.keys[g[d]]
    BY <1>2, <1>7, <1>8, <2>1, EntriesElim
  <2> QED BY <1>2, <2>2, <2>3, <2>4
<1>16. ASSUME NEW d \in DOMAIN new PROVE G.keys[G.entries[n][d]] = new[d]
  <2>1. G.keys[G.entries[n][d]] = P.keys[m[d]]
    BY <1>7, <1>12 DEF Puts
  <2>2. m[d] \in Payloads /\ s[m[d]] # 0
    BY <1>7, <1>8, EntriesElim
  <2>3. P.keys[m[d]] = M.keys[m[d]]
    BY <1>10, <2>2 DEF Puts
  <2> QED BY <1>7, <2>1, <2>3
<1>17. ASSUME NEW x \in Tables \ {n, q}
       PROVE  SameValue(H, G, x) /\ (x \notin U => Untouched(H, G, x))
  <2>1. Untouched(C, M, x) /\ Untouched(M, P, x) /\ Untouched(P, G, x)
    BY <1>7, <1>10, <1>12 DEF Puts
  <2>2. Untouched(C, P, x)
    BY <2>1, UntouchedTransitive
  <2>3. Untouched(C, G, x)
    BY <2>1, <2>2, UntouchedTransitive
  <2>4. SameValue(H, C, x)
    BY <1>1, <1>2, GainsElsewhere
  <2>5. SameValue(H, G, x)
    BY <2>3, <2>4, UntouchedTransitive DEF Untouched
  <2>6. x \notin U => Untouched(H, G, x)
    BY <1>1, <2>3, UntouchedTransitive
  <2> QED BY <2>5, <2>6
<1>18. Fills(H, G, n, q, f, new)
  BY <1>13, <1>14, <1>15, <1>16, <1>17 DEF Fills
<1>19. G = FilledFrom(H, n, q, f, new, from)
  BY DEF FilledFrom, G, P, M, m, C, g
<1> QED BY <1>12, <1>17, <1>18, <1>19
=============================================================================
