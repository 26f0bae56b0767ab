------------------------ MODULE PayloadHandlesProofs ------------------------
(***************************************************************************)
(* What PayloadHandles keeps, for any handles, domain, image and number of *)
(* refused allocations.  The operations are reasoned about in the world    *)
(* they run in: Sound(w, V) says that the handles of w hold the values V,  *)
(* that their headers tell of them, and that the heap is accounted for.    *)
(*                                                                         *)
(* The barrier ends in Private (the same values, nobody else to read them  *)
(* where they lie), what writes after it needs Own, and a whole call ends  *)
(* in Done: the image as it was, and either the values it should leave or, *)
(* thrown, those there were.  Two lemmas say when a table and a heap stay  *)
(* sound: InPlace for a payload written where it is, Rehoused for a handle *)
(* that changes its place.  The last part carries Done to the state.       *)
(***************************************************************************)
EXTENDS PayloadHandles, FiniteSetTheorems, TLAPS

-----------------------------------------------------------------------------
\* A set of naturals has a least element, a set of values a greatest one.
LEMMA LeastExists ==
  ASSUME NEW S \in SUBSET Nat, S # {}
  PROVE  Min(S) \in S /\ \A x \in S : Min(S) <= x
<1>1. \E x \in S : \A y \in S : ~(<<y, x>> \in OpToRel(<, Nat))
  BY NatLessThanWellFounded, WFMin
<1>2. PICK x \in S : \A y \in S : ~(<<y, x>> \in OpToRel(<, Nat))
  BY <1>1
<1>3. ASSUME NEW y \in S PROVE x <= y
  <2>1. ~(<<y, x>> \in OpToRel(<, Nat))
    BY <1>2
  <2>2. ~(y < x)
    BY <2>1, Zenon DEF OpToRel
  <2>3. QED
    BY <2>2
<1>4. QED
  BY <1>3 DEF Min

LEMMA GreatestExists ==
  ASSUME NEW S \in SUBSET Values, S # {}
  PROVE  Max(S) \in S /\ \A x \in S : Max(S) >= x
<1> DEFINE T == {n \in Nat : LastValue - n \in S}
<1>1. \A x \in S : x \in Int /\ 0 <= x /\ x <= LastValue /\ LastValue \in Int
  BY SizesAssumption DEF Values
<1>2. \A x \in S : LastValue - x \in T
  <2> SUFFICES ASSUME NEW x \in S PROVE LastValue - x \in T
    OBVIOUS
  <2>1. LastValue - x \in Nat /\ LastValue - (LastValue - x) = x
    BY <1>1
  <2>2. QED
    BY <2>1
<1>3. T \in SUBSET Nat /\ T # {}
  BY <1>2
<1> DEFINE m == Min(T)
<1>4. m \in T /\ \A n \in T : m <= n
  BY <1>3, LeastExists
<1> HIDE DEF m
<1>5. LastValue - m \in S /\ m \in Int
  BY <1>4
<1> HIDE DEF T
<1>6. \A x \in S : LastValue - m >= x
  BY <1>1, <1>2, <1>4, <1>5
<1>7. \E y \in S : \A x \in S : y >= x
  BY <1>5, <1>6
<1>8. QED
  BY <1>7 DEF Max

\* The endpoints of a set of values bound it.
LEMMA EndsBound ==
  ASSUME NEW S \in SUBSET Values, S # {}
  PROVE  /\ Ends(S) \in Int \X Int /\ Ends(S)[1] = Min(S) /\ Ends(S)[2] = Max(S)
         /\ Min(S) \in S /\ Max(S) \in S
         /\ \A v \in S : Min(S) <= v /\ v <= Max(S)
<1>1. S \in SUBSET Nat /\ \A v \in S : v \in Int
  BY DEF Values
<1>2. Min(S) \in S /\ \A x \in S : Min(S) <= x
  BY <1>1, LeastExists
<1>3. Max(S) \in S /\ \A x \in S : Max(S) >= x
  BY GreatestExists
<1>4. QED
  BY <1>1, <1>2, <1>3 DEF Ends

\* Every value is in the run that begins at or below it.
LEMMA FirstOfRun ==
  ASSUME NEW T \in SUBSET Values, NEW u \in T
  PROVE  \E g \in RunsOf(T) : u \in Group(T, g)
<1> DEFINE D == {x \in 0..u : x..u \subseteq T}
           g == Min(D)
<1>1. u \in Nat /\ T \subseteq Nat
  BY DEF Values
<1>2. D \in SUBSET Nat /\ u \in D
  BY <1>1
<1>3. g \in D /\ \A x \in D : g <= x
  <2>1. D # {}
    BY <1>2
  <2>2. QED
    BY <1>2, <2>1, LeastExists
<1>4. g \in Nat /\ g <= u /\ g..u \subseteq T
  BY <1>1, <1>3
<1> HIDE DEF g
<1>5. g \in T
  BY <1>1, <1>4
<1>6. g - 1 \notin T
  <2> SUFFICES ASSUME g - 1 \in T PROVE FALSE
    OBVIOUS
  <2>1. g - 1 \in 0..u
    BY <1>1, <1>4
  <2>2. \A x \in (g - 1)..u : x = g - 1 \/ x \in g..u
    BY <1>1, <1>4
  <2>3. (g - 1)..u \subseteq T
    BY <1>4, <2>2
  <2>4. g - 1 \in D
    BY <2>1, <2>3
  <2>5. g <= g - 1
    BY <1>3, <2>4
  <2>6. QED
    BY <1>4, <2>5
<1>7. QED
  BY <1>1, <1>4, <1>5, <1>6 DEF RunsOf, Group

\* The elements a payload of each kind takes.
LEMMA Counts ==
  ASSUME NEW S \in SUBSET Values
  PROVE  /\ IsFiniteSet(S) /\ Cardinality(S) \in Nat /\ (Cardinality(S) = 0 <=> S = {})
         /\ RunsOf(S) \in SUBSET S /\ IsFiniteSet(RunsOf(S)) /\ Cardinality(RunsOf(S)) \in Nat
         /\ Cardinality(RunsOf(S)) = 0 <=> S = {}
         /\ CountOf("array", S) = Cardinality(S)
         /\ CountOf("run", S) = Cardinality(RunsOf(S))
         /\ CountOf("bitset", S) = WordCount
         /\ \A kind \in {"array", "run", "bitset"} : CountOf(kind, S) \in Nat
<1>1. IsFiniteSet(Values)
  BY SizesAssumption, FS_Interval DEF Values
<1>2. IsFiniteSet(S) /\ Cardinality(S) \in Nat /\ (Cardinality(S) = 0 <=> S = {})
  BY <1>1, FS_Subset, FS_CardinalityType, FS_EmptySet
<1>3. RunsOf(S) \in SUBSET S
  BY DEF RunsOf
<1>4. IsFiniteSet(RunsOf(S)) /\ Cardinality(RunsOf(S)) \in Nat
      /\ (Cardinality(RunsOf(S)) = 0 <=> RunsOf(S) = {})
  BY <1>2, <1>3, FS_Subset, FS_CardinalityType, FS_EmptySet
<1>5. RunsOf(S) = {} <=> S = {}
  <2>1. ASSUME S # {} PROVE RunsOf(S) # {}
    BY <2>1, FirstOfRun
  <2>2. QED
    BY <1>3, <2>1
<1>6. /\ CountOf("array", S) = Cardinality(S)
      /\ CountOf("run", S) = Cardinality(RunsOf(S))
      /\ CountOf("bitset", S) = WordCount
  BY DEF CountOf
<1>7. QED
  BY <1>2, <1>3, <1>4, <1>5, <1>6, SizesAssumption


LEMMA LeastOfTwo ==
  ASSUME NEW x \in Int, NEW y \in Int
  PROVE  /\ Min({x, y}) \in Int /\ Min({x, y}) <= x /\ Min({x, y}) <= y
         /\ Max({x, y}) \in Int /\ Max({x, y}) >= x /\ Max({x, y}) >= y
<1>1. \E z \in {x, y} : \A u \in {x, y} : z <= u
  OBVIOUS
<1>2. Min({x, y}) \in {x, y} /\ \A u \in {x, y} : Min({x, y}) <= u
  BY <1>1 DEF Min
<1>3. \E z \in {x, y} : \A u \in {x, y} : z >= u
  OBVIOUS
<1>4. Max({x, y}) \in {x, y} /\ \A u \in {x, y} : Max({x, y}) >= u
  BY <1>3 DEF Max
<1>5. QED
  BY <1>2, <1>4

-----------------------------------------------------------------------------
(***************************************************************************)
(* What is kept, as a predicate on the world an operation is in.           *)
(***************************************************************************)
Worlds == [h : [Handles -> Header], b : [Blocks -> Cell], m : [Images -> SUBSET Values],
           left : Nat, thrown : BOOLEAN]
OnBlock(H, b) == {g \in Handles : H[g].at = b /\ H[g].owner # "borrowed"}

\* The block b of the heap B is accounted for by the handles Q of the table H.
Accounted(H, B, b, Q) ==
  /\ B[b].live <=> Q # {}
  /\ B[b].live => B[b].rc = (IF counted THEN Cardinality(Q) ELSE 1)
  /\ ~counted => Cardinality(Q) <= 1
  /\ \A g \in Q : H[g].capacity = B[b].bytes
\* The header r is on a place that it may be on.
Placed(r, B) ==
  /\ r.count <= r.capacity
  /\ r.at = Inline => r.owner = "unique"
  /\ counted /\ r.owner = "unique" => r.at = Inline
  /\ r.at \in Blocks => B[r.at].live
  /\ r.at \in Images => r.owner = "borrowed"
\* The header r tells of the values S.
Tells(r, S) ==
  /\ r.count = CountOf(r.kind, S)
  /\ r.card \in 0..Cardinality(S)
  /\ r.exact => r.card = Cardinality(S)
  /\ r.ends # Nothing => \A v \in S : r.ends[1] <= v /\ v <= r.ends[2]
  /\ r.kind # "bitset" => r.exact
  /\ r.kind # "bitset" /\ S # {} => r.ends = Ends(S)

Sound(w, V) ==
  /\ w \in Worlds
  /\ V \in [Handles -> SUBSET Values]
  /\ \A b \in Blocks : Accounted(w.h, w.b, b, OnBlock(w.h, b))
  /\ \A g \in Handles : Placed(w.h[g], w.b) /\ Held(w, g) = V[g] /\ Tells(w.h[g], V[g])

\* The payload of h is nobody else's to read.
Own(w, h) ==
  /\ w.h[h].owner # "borrowed"
  /\ w.h[h].at \in Blocks => \A g \in Handles \ {h} : w.h[g].at # w.h[h].at
\* MayChange in a world.
Unaliased(w, h) == \A g \in Handles :
  w.h[g].owner = "borrowed" /\ w.h[g].at \in Blocks /\ w.h[g].at = w.h[h].at
     => w.h[h].owner = "borrowed" \/ ~Unshared(w, h)

\* y is x but for the counts and endpoints in the header of h.
Edits(x, y, h) ==
  /\ y \in Worlds /\ y.b = x.b /\ y.m = x.m /\ y.thrown = x.thrown
  /\ y.h = [x.h EXCEPT ![h] = y.h[h]]
  /\ y.h[h].at = x.h[h].at /\ y.h[h].owner = x.h[h].owner
  /\ y.h[h].capacity = x.h[h].capacity /\ y.h[h].kind = x.h[h].kind
  /\ y.h[h].here = x.h[h].here
\* y is x but for the header of h and the payload, which holds S.
Rewrites(x, y, h, S) ==
  /\ y \in Worlds /\ y.m = x.m /\ y.thrown = x.thrown
  /\ y.h = [x.h EXCEPT ![h] = y.h[h]]
  /\ y.h[h].at = x.h[h].at /\ y.h[h].owner = x.h[h].owner
  /\ y.h[h].capacity = x.h[h].capacity /\ y.h[h].kind = x.h[h].kind
  /\ x.h[h].at = Inline => y.h[h].here = S /\ y.b = x.b
  /\ x.h[h].at \in Blocks => y.b = [x.b EXCEPT ![x.h[h].at].values = S]

-----------------------------------------------------------------------------
\* Places do not overlap.
LEMMA PlacesApart ==
  /\ Inline \notin Blocks /\ Inline \notin Images
  /\ \A i \in Images : i \notin Blocks
  BY PlacesAssumption DEF Inline

LEMMA HeldHere ==
  ASSUME NEW w, NEW g, w.h[g].at = Inline
  PROVE  Held(w, g) = w.h[g].here
  BY PlacesApart DEF Held

LEMMA HeldOnBlock ==
  ASSUME NEW w, NEW g, w.h[g].at \in Blocks
  PROVE  Held(w, g) = w.b[w.h[g].at].values
  BY PlacesApart DEF Held

LEMMA HeldInImage ==
  ASSUME NEW w, NEW g, w.h[g].at \in Images
  PROVE  Held(w, g) = w.m[w.h[g].at]
  BY PlacesApart DEF Held

LEMMA HeldSame ==
  ASSUME NEW w, NEW x, NEW g, w.h[g] \in Header, x.h[g] = w.h[g], x.m = w.m,
         w.h[g].at \in Blocks => x.b[w.h[g].at].values = w.b[w.h[g].at].values
  PROVE  Held(x, g) = Held(w, g)
<1>1. w.h[g].at = Inline \/ w.h[g].at \in Blocks \/ w.h[g].at \in Images
  BY DEF Header
<1>2. CASE w.h[g].at = Inline
  BY <1>2, HeldHere
<1>3. CASE w.h[g].at \in Blocks
  <2>1. x.h[g].at \in Blocks
    BY <1>3
  <2>2. Held(x, g) = x.b[x.h[g].at].values /\ Held(w, g) = w.b[w.h[g].at].values
    BY <1>3, <2>1, HeldOnBlock
  <2>3. QED
    BY <1>3, <2>2
<1>4. CASE w.h[g].at \in Images
  BY <1>4, HeldInImage
<1>5. QED
  BY <1>1, <1>2, <1>3, <1>4

\* The setters of the header.
LEMMA HeaderSet ==
  ASSUME NEW w \in Worlds, NEW h \in Handles, NEW r \in Header,
         r.at = w.h[h].at, r.owner = w.h[h].owner, r.capacity = w.h[h].capacity,
         r.kind = w.h[h].kind, r.here = w.h[h].here,
         NEW y, y = [w EXCEPT !.h = [w.h EXCEPT ![h] = r]]
  PROVE  Edits(w, y, h) /\ y.h[h] = r
<1>1. w.h \in [Handles -> Header]
  BY DEF Worlds
<1>2. y \in Worlds /\ y.h[h] = r
  BY <1>1 DEF Worlds
<1>3. y.h = [w.h EXCEPT ![h] = y.h[h]] /\ y.b = w.b /\ y.m = w.m /\ y.thrown = w.thrown
  BY <1>1, <1>2 DEF Worlds
<1>4. QED
  BY <1>2, <1>3 DEF Edits

LEMMA EndsSet ==
  ASSUME NEW w \in Worlds, NEW h \in Handles, NEW e \in Endpoints
  PROVE  /\ Edits(w, SetEnds(w, h, e), h)
         /\ SetEnds(w, h, e).h[h].count = w.h[h].count
         /\ SetEnds(w, h, e).h[h].card = w.h[h].card
         /\ SetEnds(w, h, e).h[h].exact = w.h[h].exact
         /\ SetEnds(w, h, e).h[h].ends = e
<1> DEFINE r == [w.h[h] EXCEPT !.ends = e]
<1>1. SetEnds(w, h, e) = [w EXCEPT !.h = [w.h EXCEPT ![h] = r]]
  BY DEF SetEnds, Set
<1>2. w.h[h] \in Header
  BY DEF Worlds
<1>3. /\ r \in Header /\ r.at = w.h[h].at /\ r.owner = w.h[h].owner
      /\ r.capacity = w.h[h].capacity /\ r.kind = w.h[h].kind /\ r.here = w.h[h].here
  BY <1>2 DEF Header
<1> DEFINE y == SetEnds(w, h, e)
<1>4. y = [w EXCEPT !.h = [w.h EXCEPT ![h] = r]]
  BY <1>1
<1> HIDE DEF r, y
<1>5. Edits(w, y, h) /\ y.h[h] = r
  BY <1>3, <1>4, HeaderSet
<1>6. r.count = w.h[h].count /\ r.card = w.h[h].card
      /\ r.exact = w.h[h].exact /\ r.ends = e
  BY <1>2 DEF r, Header
<1>7. QED
  BY <1>5, <1>6 DEF y

LEMMA CountSet ==
  ASSUME NEW w \in Worlds, NEW h \in Handles, NEW n \in Nat
  PROVE  /\ Edits(w, SetCount(w, h, n), h)
         /\ SetCount(w, h, n).h[h].count = n
         /\ SetCount(w, h, n).h[h].card = w.h[h].card
         /\ SetCount(w, h, n).h[h].exact = w.h[h].exact
         /\ SetCount(w, h, n).h[h].ends = w.h[h].ends
<1> DEFINE r == [w.h[h] EXCEPT !.count = n]
<1>1. SetCount(w, h, n) = [w EXCEPT !.h = [w.h EXCEPT ![h] = r]]
  BY DEF SetCount, Set
<1>2. w.h[h] \in Header
  BY DEF Worlds
<1>3. /\ r \in Header /\ r.at = w.h[h].at /\ r.owner = w.h[h].owner
      /\ r.capacity = w.h[h].capacity /\ r.kind = w.h[h].kind /\ r.here = w.h[h].here
  BY <1>2 DEF Header
<1> DEFINE y == SetCount(w, h, n)
<1>4. y = [w EXCEPT !.h = [w.h EXCEPT ![h] = r]]
  BY <1>1
<1> HIDE DEF r, y
<1>5. Edits(w, y, h) /\ y.h[h] = r
  BY <1>3, <1>4, HeaderSet
<1>6. r.count = n /\ r.card = w.h[h].card
      /\ r.exact = w.h[h].exact /\ r.ends = w.h[h].ends
  BY <1>2 DEF r, Header
<1>7. QED
  BY <1>5, <1>6 DEF y

LEMMA CardinalitySet ==
  ASSUME NEW w \in Worlds, NEW h \in Handles, NEW n \in Int
  PROVE  /\ Edits(w, SetCardinality(w, h, n), h)
         /\ SetCardinality(w, h, n).h[h].count = w.h[h].count
         /\ SetCardinality(w, h, n).h[h].card = n
         /\ SetCardinality(w, h, n).h[h].exact
         /\ SetCardinality(w, h, n).h[h].ends = w.h[h].ends
<1> DEFINE r == [w.h[h] EXCEPT !.card = n, !.exact = TRUE]
<1>2. w.h[h] \in Header /\ w.h \in [Handles -> Header]
  BY DEF Worlds
<1>1. SetCardinality(w, h, n) = [w EXCEPT !.h = [w.h EXCEPT ![h] = r]]
  BY <1>2 DEF SetCardinality, Worlds
<1>3. /\ r \in Header /\ r.at = w.h[h].at /\ r.owner = w.h[h].owner
      /\ r.capacity = w.h[h].capacity /\ r.kind = w.h[h].kind /\ r.here = w.h[h].here
  BY <1>2 DEF Header
<1> DEFINE y == SetCardinality(w, h, n)
<1>4. y = [w EXCEPT !.h = [w.h EXCEPT ![h] = r]]
  BY <1>1
<1> HIDE DEF r, y
<1>5. Edits(w, y, h) /\ y.h[h] = r
  BY <1>3, <1>4, HeaderSet
<1>6. r.count = w.h[h].count /\ r.card = n
      /\ r.exact /\ r.ends = w.h[h].ends
  BY <1>2 DEF r, Header
<1>7. QED
  BY <1>5, <1>6 DEF y

LEMMA CardinalityNamed ==
  ASSUME NEW w \in Worlds, NEW h \in Handles, NEW n \in Int, NEW y, y = SetCardinality(w, h, n)
  PROVE  Edits(w, y, h) /\ y.h[h].count = w.h[h].count /\ y.h[h].card = n
         /\ y.h[h].exact /\ y.h[h].ends = w.h[h].ends
  BY CardinalitySet

LEMMA CardinalityAdjusted ==
  ASSUME NEW w \in Worlds, NEW h \in Handles, NEW delta \in Int
  PROVE  /\ Edits(w, Adjust(w, h, delta), h)
         /\ Adjust(w, h, delta).h[h].count = w.h[h].count
         /\ Adjust(w, h, delta).h[h].card = w.h[h].card + delta
         /\ Adjust(w, h, delta).h[h].exact = w.h[h].exact
         /\ Adjust(w, h, delta).h[h].ends = w.h[h].ends
<1> DEFINE r == [w.h[h] EXCEPT !.card = w.h[h].card + delta]
<1>2. w.h[h] \in Header /\ w.h \in [Handles -> Header]
  BY DEF Worlds
<1>1. Adjust(w, h, delta) = [w EXCEPT !.h = [w.h EXCEPT ![h] = r]]
  BY <1>2 DEF Adjust, Worlds
<1>3. /\ r \in Header /\ r.at = w.h[h].at /\ r.owner = w.h[h].owner
      /\ r.capacity = w.h[h].capacity /\ r.kind = w.h[h].kind /\ r.here = w.h[h].here
  BY <1>2 DEF Header
<1> DEFINE y == Adjust(w, h, delta)
<1>4. y = [w EXCEPT !.h = [w.h EXCEPT ![h] = r]]
  BY <1>1
<1> HIDE DEF r, y
<1>5. Edits(w, y, h) /\ y.h[h] = r
  BY <1>3, <1>4, HeaderSet
<1>6. r.count = w.h[h].count /\ r.card = w.h[h].card + delta
      /\ r.exact = w.h[h].exact /\ r.ends = w.h[h].ends
  BY <1>2 DEF r, Header
<1>7. QED
  BY <1>5, <1>6 DEF y

\* Writing the payload where it is.
LEMMA PutRewrites ==
  ASSUME NEW w \in Worlds, NEW h \in Handles, NEW S \in SUBSET Values,
         w.h[h].at \notin Images
  PROVE  /\ Rewrites(w, Put(w, h, S), h, S)
         /\ \E here \in SUBSET Values :
              Put(w, h, S).h[h] = [w.h[h] EXCEPT !.here = here]
<1> DEFINE y == Put(w, h, S)
<1>1. w.h[h] \in Header /\ w.h \in [Handles -> Header] /\ w.b \in [Blocks -> Cell]
  BY DEF Worlds
<1>2. w.h[h].at = Inline \/ w.h[h].at \in Blocks
  BY <1>1 DEF Header
<1>3. CASE w.h[h].at = Inline
  <2> DEFINE r == [w.h[h] EXCEPT !.here = S]
  <2>1. y = [w EXCEPT !.h = [w.h EXCEPT ![h] = r]]
    BY <1>3, PlacesApart DEF Put, Set
  <2>2. r \in Header /\ r.at = w.h[h].at /\ r.owner = w.h[h].owner
        /\ r.capacity = w.h[h].capacity /\ r.kind = w.h[h].kind /\ r.here = S
    BY <1>1 DEF Header
  <2> HIDE DEF r, y
  <2>3. y \in Worlds /\ y.h[h] = r
    BY <1>1, <2>1, <2>2 DEF Worlds
  <2>4. y.h = [w.h EXCEPT ![h] = y.h[h]] /\ y.b = w.b /\ y.m = w.m /\ y.thrown = w.thrown
    BY <1>1, <2>1, <2>2, <2>3 DEF Worlds
  <2>5. Rewrites(w, y, h, S)
    BY <1>3, <2>2, <2>3, <2>4, PlacesApart DEF Rewrites
  <2>6. QED
    BY <2>3, <2>5 DEF r, y
<1>4. CASE w.h[h].at \in Blocks
  <2> DEFINE b == w.h[h].at
             c == [w.b[b] EXCEPT !.values = S]
  <2>1. y = [w EXCEPT !.b = [w.b EXCEPT ![b] = c]]
    BY <1>4, PlacesApart DEF Put, Set
  <2>2. c \in Cell
    BY <1>1, <1>4 DEF Cell
  <2> HIDE DEF c, y
  <2>3. y \in Worlds /\ y.h = w.h /\ y.m = w.m /\ y.thrown = w.thrown
        /\ y.b = [w.b EXCEPT ![b] = c]
    BY <1>1, <1>4, <2>1, <2>2 DEF Worlds
  <2>4. y.b = [w.b EXCEPT ![b].values = S]
    BY <2>3 DEF c
  <2>5. y.h = [w.h EXCEPT ![h] = y.h[h]]
    BY <1>1, <2>3
  <2>6. Rewrites(w, y, h, S)
    BY <1>4, <2>3, <2>4, <2>5, PlacesApart DEF Rewrites
  <2>7. [w.h[h] EXCEPT !.here = w.h[h].here] = w.h[h] /\ w.h[h].here \in SUBSET Values
    BY <1>1 DEF Header
  <2>8. QED
    BY <2>3, <2>6, <2>7 DEF y
<1>5. QED
  BY <1>2, <1>3, <1>4

\* An edit of the header after a rewriting belongs to it.
LEMMA RewritesEdited ==
  ASSUME NEW w \in Worlds, NEW h \in Handles, NEW x, NEW y, NEW S,
         Rewrites(w, x, h, S), Edits(x, y, h)
  PROVE  Rewrites(w, y, h, S)
<1>1. w.h \in [Handles -> Header]
  BY DEF Worlds
<1>2. y.h = [w.h EXCEPT ![h] = y.h[h]]
  BY <1>1 DEF Rewrites, Edits
<1>3. QED
  BY <1>2 DEF Rewrites, Edits

LEMMA EditsEdited ==
  ASSUME NEW w \in Worlds, NEW h \in Handles, NEW x, NEW y,
         Edits(w, x, h), Edits(x, y, h)
  PROVE  Edits(w, y, h)
<1>1. w.h \in [Handles -> Header]
  BY DEF Worlds
<1>2. y.h = [w.h EXCEPT ![h] = y.h[h]]
  BY <1>1 DEF Edits
<1>3. QED
  BY <1>2 DEF Edits

-----------------------------------------------------------------------------
(***************************************************************************)
(* Calls that leave every payload where it is.                             *)
(***************************************************************************)
\* The places of the handles and the state of the blocks are as before.
SamePlaces(w, x) ==
  /\ \A g \in Handles : /\ x.h[g].at = w.h[g].at /\ x.h[g].owner = w.h[g].owner
                        /\ x.h[g].capacity = w.h[g].capacity
  /\ \A b \in Blocks : /\ x.b[b].live = w.b[b].live /\ x.b[b].rc = w.b[b].rc
                       /\ x.b[b].bytes = w.b[b].bytes

LEMMA PlacesKept ==
  ASSUME NEW w, NEW x, NEW V, Sound(w, V), SamePlaces(w, x),
         \A g \in Handles : x.h[g].count <= x.h[g].capacity
  PROVE  /\ \A b \in Blocks : Accounted(x.h, x.b, b, OnBlock(x.h, b))
         /\ \A g \in Handles : Placed(x.h[g], x.b)
         /\ \A h \in Handles : Own(w, h) => Own(x, h)
<1>1. \A b : OnBlock(x.h, b) = OnBlock(w.h, b)
  BY DEF SamePlaces, OnBlock
<1>2. ASSUME NEW b \in Blocks PROVE Accounted(x.h, x.b, b, OnBlock(x.h, b))
  <2>1. Accounted(w.h, w.b, b, OnBlock(w.h, b))
    BY DEF Sound
  <2>2. \A g \in OnBlock(w.h, b) : x.h[g].capacity = w.h[g].capacity
    BY DEF SamePlaces, OnBlock
  <2>3. /\ x.b[b].live = w.b[b].live /\ x.b[b].rc = w.b[b].rc
        /\ x.b[b].bytes = w.b[b].bytes
    BY DEF SamePlaces
  <2> DEFINE Q == OnBlock(w.h, b)
  <2>4. OnBlock(x.h, b) = Q /\ Accounted(w.h, w.b, b, Q)
        /\ (\A g \in Q : x.h[g].capacity = w.h[g].capacity)
    BY <1>1, <2>1, <2>2
  <2> HIDE DEF Q
  <2>5. Accounted(x.h, x.b, b, Q)
    BY <2>3, <2>4 DEF Accounted
  <2>6. QED
    BY <2>4, <2>5
<1>3. ASSUME NEW g \in Handles PROVE Placed(x.h[g], x.b)
  <2>1. Placed(w.h[g], w.b)
    BY DEF Sound
  <2>2. /\ x.h[g].at = w.h[g].at /\ x.h[g].owner = w.h[g].owner
        /\ x.h[g].count <= x.h[g].capacity
    BY DEF SamePlaces
  <2>3. x.h[g].at \in Blocks => x.b[x.h[g].at].live = w.b[w.h[g].at].live
    BY <2>2 DEF SamePlaces
  <2>4. QED
    BY <2>1, <2>2, <2>3 DEF Placed
<1>4. ASSUME NEW h \in Handles, Own(w, h) PROVE Own(x, h)
  BY <1>4 DEF Own, SamePlaces
<1>5. QED
  BY <1>2, <1>3, <1>4

\* Only the header of h is touched, which goes on telling the truth.
LEMMA HeaderOnly ==
  ASSUME NEW w, NEW x, NEW V, NEW h \in Handles, Sound(w, V), Edits(w, x, h),
         Tells(x.h[h], V[h]), x.h[h].count <= x.h[h].capacity
  PROVE  Sound(x, V) /\ (\A g \in Handles : Own(w, g) => Own(x, g))
<1>1. w \in Worlds /\ x \in Worlds /\ w.h \in [Handles -> Header] /\ x.h \in [Handles -> Header]
  BY DEF Sound, Edits, Worlds
<1>2. \A g \in Handles \ {h} : x.h[g] = w.h[g]
  BY <1>1 DEF Edits
<1>3. x.b = w.b /\ x.m = w.m /\ x.h[h].at = w.h[h].at /\ x.h[h].owner = w.h[h].owner
      /\ x.h[h].capacity = w.h[h].capacity /\ x.h[h].here = w.h[h].here
  BY DEF Edits
<1>4. SamePlaces(w, x)
  BY <1>2, <1>3 DEF SamePlaces
<1>5. \A g \in Handles : w.h[g].count <= w.h[g].capacity
  BY DEF Sound, Placed
<1>6. \A g \in Handles : x.h[g].count <= x.h[g].capacity
  BY <1>2, <1>5
<1>7. /\ \A b \in Blocks : Accounted(x.h, x.b, b, OnBlock(x.h, b))
      /\ \A g \in Handles : Placed(x.h[g], x.b)
      /\ \A g \in Handles : Own(w, g) => Own(x, g)
  BY <1>4, <1>6, PlacesKept
<1>8. ASSUME NEW g \in Handles PROVE Held(x, g) = V[g] /\ Tells(x.h[g], V[g])
  <2>1. Held(w, g) = V[g] /\ Tells(w.h[g], V[g])
    BY DEF Sound
  <2>2. x.h[g].at = w.h[g].at /\ x.h[g].here = w.h[g].here
    BY <1>2, <1>3
  <2>3. Held(x, g) = Held(w, g)
    BY <1>3, <2>2 DEF Held
  <2>4. Tells(x.h[g], V[g])
    BY <1>2, <2>1
  <2>5. QED
    BY <2>1, <2>3, <2>4
<1>9. V \in [Handles -> SUBSET Values]
  BY DEF Sound
<1>10. QED
  BY <1>1, <1>7, <1>8, <1>9 DEF Sound

\* The payload of h is rewritten where it is, and nobody else reads it there.
LEMMA InPlace ==
  ASSUME NEW w, NEW x, NEW V, NEW h \in Handles, NEW S \in SUBSET Values,
         Sound(w, V), Own(w, h), Rewrites(w, x, h, S),
         Tells(x.h[h], S), x.h[h].count <= x.h[h].capacity
  PROVE  Sound(x, [V EXCEPT ![h] = S]) /\ Own(x, h)
<1> DEFINE N == [V EXCEPT ![h] = S]
<1>1. w \in Worlds /\ x \in Worlds /\ w.h \in [Handles -> Header] /\ x.h \in [Handles -> Header]
      /\ w.b \in [Blocks -> Cell] /\ V \in [Handles -> SUBSET Values]
  BY DEF Sound, Rewrites, Worlds
<1>2. \A g \in Handles \ {h} : x.h[g] = w.h[g]
  BY <1>1 DEF Rewrites
<1>3. x.m = w.m /\ x.h[h].at = w.h[h].at /\ x.h[h].owner = w.h[h].owner
      /\ x.h[h].capacity = w.h[h].capacity
  BY DEF Rewrites
<1>a. w.h[h].at = Inline \/ w.h[h].at \in Blocks
  <2>1. w.h[h].at \notin Images
    BY DEF Sound, Placed, Own
  <2>2. QED
    BY <1>1, <2>1 DEF Header
<1>b. ASSUME NEW b \in Blocks
      PROVE  /\ x.b[b].live = w.b[b].live /\ x.b[b].rc = w.b[b].rc
             /\ x.b[b].bytes = w.b[b].bytes
             /\ b # w.h[h].at => x.b[b] = w.b[b]
  <2>1. CASE w.h[h].at = Inline
    BY <2>1 DEF Rewrites
  <2>2. CASE w.h[h].at \in Blocks
    BY <1>1, <2>2 DEF Rewrites, Cell
  <2>3. QED
    BY <1>a, <2>1, <2>2
<1>4. SamePlaces(w, x)
  BY <1>2, <1>3, <1>b DEF SamePlaces
<1>5. \A g \in Handles : w.h[g].count <= w.h[g].capacity
  BY DEF Sound, Placed
<1>6. \A g \in Handles : x.h[g].count <= x.h[g].capacity
  BY <1>2, <1>5
<1>7. /\ \A b \in Blocks : Accounted(x.h, x.b, b, OnBlock(x.h, b))
      /\ \A g \in Handles : Placed(x.h[g], x.b)
      /\ Own(x, h)
  BY <1>4, <1>6, PlacesKept
<1>8. Held(x, h) = S
  <2>1. CASE w.h[h].at = Inline
    BY <1>3, <2>1, PlacesApart DEF Rewrites, Held
  <2>2. CASE w.h[h].at \in Blocks
    <3>1. x.b[w.h[h].at].values = S
      BY <1>1, <2>2 DEF Rewrites, Cell
    <3>2. QED
      BY <1>3, <2>2, <3>1, PlacesApart DEF Held
  <2>3. QED
    BY <1>a, <2>1, <2>2
<1>9. ASSUME NEW g \in Handles \ {h} PROVE Held(x, g) = V[g] /\ Tells(x.h[g], V[g])
  <2>1. Held(w, g) = V[g] /\ Tells(w.h[g], V[g])
    BY DEF Sound
  <2>2. w.h[g].at \in Blocks => x.b[w.h[g].at] = w.b[w.h[g].at]
    <3>1. w.h[g].at \in Blocks => w.h[g].at # w.h[h].at
      BY DEF Own
    <3>2. QED
      BY <1>b, <3>1
  <2>3. Held(x, g) = Held(w, g)
    <3>1. x.h[g] = w.h[g] /\ w.h[g] \in Header
      BY <1>1, <1>2
    <3>2. w.h[g].at \in Blocks => x.b[w.h[g].at].values = w.b[w.h[g].at].values
      BY <2>2
    <3>3. QED
      BY <1>3, <3>1, <3>2, HeldSame
  <2>4. QED
    BY <1>2, <2>1, <2>3
<1>10. N \in [Handles -> SUBSET Values] /\ N[h] = S /\ \A g \in Handles \ {h} : N[g] = V[g]
  BY <1>1
<1> HIDE DEF N
<1>11. \A g \in Handles : Held(x, g) = N[g] /\ Tells(x.h[g], N[g])
  BY <1>8, <1>9, <1>10
<1>12. Sound(x, N)
  BY <1>1, <1>7, <1>10, <1>11 DEF Sound
<1>13. QED
  BY <1>7, <1>12 DEF N

-----------------------------------------------------------------------------
(***************************************************************************)
(* Calls that move a payload.                                              *)
(***************************************************************************)
\* The heap B is w's after h has let go of its block.
Vacated(w, B, h) ==
  /\ B \in [Blocks -> Cell]
  /\ \A b \in Blocks : Accounted(w.h, B, b, OnBlock(w.h, b) \ {h})
  /\ \A g \in Handles \ {h} : w.h[g].at \in Blocks =>
        B[w.h[g].at].live /\ B[w.h[g].at].values = w.b[w.h[g].at].values
  /\ \A b \in Blocks : ~w.b[b].live => B[b] = w.b[b]

LEMMA OnBlockFinite ==
  ASSUME NEW H, NEW b
  PROVE  /\ IsFiniteSet(OnBlock(H, b)) /\ Cardinality(OnBlock(H, b)) \in Nat
         /\ Cardinality(OnBlock(H, b)) = 0 <=> OnBlock(H, b) = {}
         /\ Cardinality(OnBlock(H, b)) = 1 => \E g : OnBlock(H, b) = {g}
         /\ \A g : IsFiniteSet(OnBlock(H, b) \ {g})
         /\ \A g : Cardinality(OnBlock(H, b) \ {g}) =
                   Cardinality(OnBlock(H, b)) - (IF g \in OnBlock(H, b) THEN 1 ELSE 0)
<1>1. IsFiniteSet(OnBlock(H, b))
  <2>1. OnBlock(H, b) \subseteq Handles
    BY DEF OnBlock
  <2>2. QED
    BY <2>1, PlacesAssumption, FS_Subset
<1> DEFINE Q == OnBlock(H, b)
<1> HIDE DEF Q
<1>2. IsFiniteSet(Q)
  BY <1>1 DEF Q
<1>3. Cardinality(Q) \in Nat /\ (Cardinality(Q) = 0 <=> Q = {})
      /\ (Cardinality(Q) = 1 => \E g : Q = {g})
  BY <1>2, FS_CardinalityType, FS_EmptySet, FS_Singleton
<1>4. \A g : /\ IsFiniteSet(Q \ {g})
            /\ Cardinality(Q \ {g}) = Cardinality(Q) - (IF g \in Q THEN 1 ELSE 0)
  <2> SUFFICES ASSUME NEW g
               PROVE  /\ IsFiniteSet(Q \ {g})
                      /\ Cardinality(Q \ {g}) = Cardinality(Q) - (IF g \in Q THEN 1 ELSE 0)
    OBVIOUS
  <2>1. IsFiniteSet(Q \ {g})
        /\ Cardinality(Q \ {g}) = IF g \in Q THEN Cardinality(Q) - 1 ELSE Cardinality(Q)
    BY <1>2, FS_RemoveElement
  <2>2. QED
    BY <1>3, <2>1
<1>5. QED
  BY <1>2, <1>3, <1>4 DEF Q

\* The barrier lets a handle write only a payload that is its own.
LEMMA Sole ==
  ASSUME NEW w, NEW V, NEW h \in Handles, Sound(w, V), Unaliased(w, h), Unshared(w, h)
  PROVE  Own(w, h) /\ (w.h[h].at \in Blocks => OnBlock(w.h, w.h[h].at) = {h})
<1>1. w.h[h].owner # "borrowed"
  BY DEF Unshared
<1>2. CASE w.h[h].at \notin Blocks
  BY <1>1, <1>2 DEF Own
<1>3. CASE w.h[h].at \in Blocks
  <2> DEFINE b == w.h[h].at
             Q == OnBlock(w.h, b)
  <2>1. h \in Q
    BY <1>1 DEF OnBlock
  <2>2. Spilled(w, h)
    BY <1>3, PlacesApart DEF Spilled
  <2>3. Accounted(w.h, w.b, b, Q)
    BY <1>3 DEF Sound
  <2>4. Cardinality(Q) \in Nat /\ (Cardinality(Q) = 0 <=> Q = {})
        /\ (Cardinality(Q) = 1 => \E g : Q = {g})
    BY OnBlockFinite
  <2>5. Cardinality(Q) = 1
    <3>1. CASE counted
      <4>1. w.b[b].rc = 1
        BY <2>2, <3>1 DEF Unshared
      <4>2. QED
        BY <2>1, <2>3, <3>1, <4>1 DEF Accounted
    <3>2. CASE ~counted
      <4>1. Cardinality(Q) <= 1
        BY <2>3, <3>2 DEF Accounted
      <4>2. Cardinality(Q) # 0
        BY <2>1, <2>4
      <4>3. QED
        BY <2>4, <4>1, <4>2
    <3>3. QED
      BY <3>1, <3>2
  <2>6. Q = {h}
    BY <2>1, <2>4, <2>5
  <2>7. ASSUME NEW g \in Handles \ {h} PROVE w.h[g].at # b
    <3>1. g \notin Q
      BY <2>6
    <3>2. w.h[g].at = b => w.h[g].owner = "borrowed"
      BY <3>1 DEF OnBlock
    <3>3. QED
      BY <1>1, <1>3, <3>2 DEF Unaliased
  <2>8. QED
    BY <1>1, <2>6, <2>7 DEF Own
<1>4. QED
  BY <1>2, <1>3

\* A table with other handles on no block, or a block freed by the only one.
LEMMA VacatedBy ==
  ASSUME NEW w, NEW V, NEW h \in Handles, Sound(w, V), NEW B \in [Blocks -> Cell],
         \A b \in Blocks : b # w.h[h].at => B[b] = w.b[b],
         w.h[h].at \in Blocks =>
           /\ Accounted(w.h, B, w.h[h].at, OnBlock(w.h, w.h[h].at) \ {h})
           /\ w.b[w.h[h].at].live => \A g \in Handles \ {h} : w.h[g].at = w.h[h].at =>
                /\ B[w.h[h].at].live
                /\ B[w.h[h].at].values = w.b[w.h[h].at].values
  PROVE  Vacated(w, B, h)
<1>1. ASSUME NEW b \in Blocks PROVE Accounted(w.h, B, b, OnBlock(w.h, b) \ {h})
  <2>1. CASE b = w.h[h].at
    BY <2>1
  <2>2. CASE b # w.h[h].at
    <3>1. OnBlock(w.h, b) \ {h} = OnBlock(w.h, b)
      BY <2>2 DEF OnBlock
    <3>2. Accounted(w.h, w.b, b, OnBlock(w.h, b)) /\ B[b] = w.b[b]
      BY <2>2 DEF Sound
    <3>3. Accounted(w.h, B, b, OnBlock(w.h, b))
      BY <3>2 DEF Accounted
    <3>4. QED
      BY <3>1, <3>3
  <2>3. QED
    BY <2>1, <2>2
<1>2. \A g \in Handles : w.h[g].at \in Blocks => w.b[w.h[g].at].live
  BY DEF Sound, Placed
<1>3. ASSUME NEW g \in Handles \ {h}, w.h[g].at \in Blocks
      PROVE  B[w.h[g].at].live /\ B[w.h[g].at].values = w.b[w.h[g].at].values
  BY <1>2, <1>3
<1>4. ASSUME NEW b \in Blocks, ~w.b[b].live PROVE B[b] = w.b[b]
  BY <1>2, <1>4
<1>5. QED
  BY <1>1, <1>3, <1>4 DEF Vacated

\* What a handle does to the heap as it lets go of its payload.
LEMMA LetsGo ==
  ASSUME NEW w, NEW V, NEW h \in Handles, Sound(w, V), Unaliased(w, h)
  PROVE  /\ Release(w, h) \in Worlds /\ Release(w, h).h = w.h /\ Release(w, h).m = w.m
         /\ Release(w, h).left = w.left /\ Release(w, h).thrown = w.thrown
         /\ Vacated(w, Release(w, h).b, h)
         /\ \A b \in Blocks : b # w.h[h].at => Release(w, h).b[b] = w.b[b]
<1> DEFINE at == w.h[h].at
           r == w.h[h]
           y == Release(w, h)
<1>1. w \in Worlds /\ w.h \in [Handles -> Header] /\ r \in Header /\ w.b \in [Blocks -> Cell]
  BY DEF Sound, Worlds
<1>2. Placed(r, w.b)
  BY DEF Sound
<1>3. CASE ~Spilled(w, h) \/ r.owner = "borrowed"
  <2>1. y = w
    BY <1>3 DEF Release
  <2>2. ASSUME at \in Blocks PROVE Accounted(w.h, w.b, at, OnBlock(w.h, at) \ {h})
    <3>1. r.owner = "borrowed"
      BY <1>3, <2>2, PlacesApart DEF Spilled
    <3>2. OnBlock(w.h, at) \ {h} = OnBlock(w.h, at)
      BY <3>1 DEF OnBlock
    <3>3. QED
      BY <2>2, <3>2 DEF Sound
  <2>3. at \in Blocks => w.b[at].live
    BY <1>2 DEF Placed
  <2>4. Vacated(w, w.b, h)
    BY <1>1, <2>2, <2>3, VacatedBy
  <2>5. QED
    BY <1>1, <2>1, <2>4
<1>4. CASE Spilled(w, h) /\ r.owner # "borrowed"
  <2>1. at \in Blocks /\ h \in OnBlock(w.h, at)
    <3>1. at # Inline /\ at \notin Images
      BY <1>2, <1>4 DEF Spilled, Placed
    <3>2. QED
      BY <1>1, <1>4, <3>1 DEF Header, OnBlock
  <2>2. Accounted(w.h, w.b, at, OnBlock(w.h, at))
    BY <2>1 DEF Sound
  <2> DEFINE Q == OnBlock(w.h, at)
  <2>3. /\ Cardinality(Q) \in Nat /\ (Cardinality(Q) = 0 <=> Q = {})
        /\ (Cardinality(Q) = 1 => \E g : Q = {g})
        /\ Cardinality(Q \ {h}) = Cardinality(Q) - 1
    BY <2>1, OnBlockFinite
  <2>f. ASSUME Unshared(w, h), y = Freed(w, at)
        PROVE  /\ y \in Worlds /\ y.h = w.h /\ y.m = w.m /\ y.left = w.left /\ y.thrown = w.thrown
               /\ Vacated(w, y.b, h)
               /\ \A b \in Blocks : b # at => y.b[b] = w.b[b]
    <3>1. Own(w, h) /\ Q = {h}
      BY <2>1, <2>f, Sole
    <3>2. Free \in Cell
      BY DEF Free, Cell
    <3>3. y = [w EXCEPT !.b = [w.b EXCEPT ![at] = Free]]
      BY <2>f DEF Freed
    <3> DEFINE B == [w.b EXCEPT ![at] = Free]
    <3>4. B \in [Blocks -> Cell] /\ B[at] = Free /\ \A b \in Blocks : b # at => B[b] = w.b[b]
      BY <1>1, <2>1, <3>2
    <3>5. y \in Worlds /\ y.h = w.h /\ y.m = w.m /\ y.left = w.left /\ y.thrown = w.thrown
          /\ y.b = B
      BY <1>1, <3>3, <3>4 DEF Worlds
    <3>6. Q \ {h} = {} /\ Cardinality({}) = 0
      BY <3>1, FS_EmptySet
    <3>7. Free.live = FALSE
      BY DEF Free
    <3> HIDE DEF B, y, Q
    <3>8. Accounted(w.h, B, at, Q \ {h})
      BY <3>4, <3>6, <3>7 DEF Accounted
    <3>9. \A g \in Handles \ {h} : w.h[g].at # at
      BY <2>1, <3>1 DEF Own
    <3>10. Vacated(w, B, h)
      BY <3>4, <3>8, <3>9, VacatedBy DEF Q
    <3>11. QED
      BY <3>4, <3>5, <3>10
  <2>4. CASE counted /\ r.owner = "shared"
    <3>1. y = LetGo(w, at)
      BY <1>4, <2>4 DEF Release
    <3>2. CASE w.b[at].rc = 1
      <4>1. y = Freed(w, at)
        BY <3>1, <3>2 DEF LetGo
      <4>2. Unshared(w, h)
        BY <1>4, <3>2 DEF Unshared
      <4>3. QED
        BY <2>f, <4>1, <4>2
    <3>3. CASE w.b[at].rc # 1
      <4> DEFINE c == [w.b[at] EXCEPT !.rc = @ - 1]
                 B == [w.b EXCEPT ![at] = c]
      <4>1. y = [w EXCEPT !.b = B]
        BY <3>1, <3>3 DEF LetGo
      <4>2. c \in Cell /\ c.live = w.b[at].live /\ c.rc = w.b[at].rc - 1
            /\ c.bytes = w.b[at].bytes /\ c.values = w.b[at].values
        BY <1>1, <2>1 DEF Cell
      <4> HIDE DEF c
      <4>3. B \in [Blocks -> Cell] /\ B[at] = c /\ \A b \in Blocks : b # at => B[b] = w.b[b]
        BY <1>1, <2>1, <4>2
      <4>4. y \in Worlds /\ y.h = w.h /\ y.m = w.m /\ y.left = w.left /\ y.thrown = w.thrown
            /\ y.b = B
        BY <1>1, <4>1, <4>3 DEF Worlds
      <4> HIDE DEF B, y
      <4>5. w.b[at].live /\ w.b[at].rc = Cardinality(Q)
        BY <2>1, <2>2, <2>4 DEF Accounted
      <4> HIDE DEF Q
      <4>6. Cardinality(Q \ {h}) # 0 /\ w.b[at].rc - 1 = Cardinality(Q \ {h})
        BY <2>3, <3>3, <4>5
      <4>7. Q \ {h} # {}
        BY <4>6, FS_EmptySet
      <4>8. \A g \in Q : w.h[g].capacity = w.b[at].bytes
        BY <2>2 DEF Accounted, Q
      <4>9. Accounted(w.h, B, at, Q \ {h})
        BY <2>4, <4>2, <4>3, <4>5, <4>6, <4>7, <4>8 DEF Accounted
      <4>10. Vacated(w, B, h)
        <5>1. B[at].live /\ B[at].values = w.b[at].values
          BY <4>2, <4>3, <4>5
        <5>2. QED
          BY <4>3, <4>9, <5>1, VacatedBy DEF Q
      <4>11. QED
        BY <4>3, <4>4, <4>10 DEF y
    <3>4. QED
      BY <3>2, <3>3
  <2>5. CASE ~(counted /\ r.owner = "shared")
    <3>1. ~counted
      <4>1. r.owner = "unique" \/ r.owner = "shared"
        BY <1>1, <1>4 DEF Header
      <4>2. QED
        BY <1>2, <1>4, <2>5, <4>1 DEF Placed, Spilled
    <3>2. Unshared(w, h)
      BY <1>4, <3>1 DEF Unshared
    <3>3. y = Freed(w, at)
      BY <1>4, <3>1 DEF Release
    <3>4. QED
      BY <2>f, <3>2, <3>3
  <2>6. QED
    BY <2>4, <2>5
<1>5. QED
  BY <1>3, <1>4

\* There is a free block, since the handles hold fewer than there are.
LEMMA FreshIsFree ==
  ASSUME NEW w, NEW V, Sound(w, V)
  PROVE  /\ Fresh(w) \in Blocks /\ ~w.b[Fresh(w)].live
         /\ \A g \in Handles : w.h[g].at # Fresh(w)
<1> DEFINE Live == {b \in Blocks : w.b[b].live}
           f == [b \in Live |-> CHOOSE g \in Handles : w.h[g].at = b]
<1>1. \A b \in Live : \E g \in Handles : w.h[g].at = b
  <2> SUFFICES ASSUME NEW b \in Live PROVE \E g \in Handles : w.h[g].at = b
    OBVIOUS
  <2>1. OnBlock(w.h, b) # {}
    BY DEF Sound, Accounted
  <2>2. QED
    BY <2>1 DEF OnBlock
<1>2. \A b \in Live : f[b] \in Handles /\ w.h[f[b]].at = b
  BY <1>1
<1>3. f \in Injection(Live, Handles)
  <2>1. f \in [Live -> Handles]
    BY <1>2
  <2>2. \A a, b \in Live : f[a] = f[b] => a = b
    BY <1>2
  <2> HIDE DEF f
  <2>3. QED
    BY <2>1, <2>2 DEF Injection, IsInjective
<1>4. Cardinality(Live) <= Cardinality(Handles)
  <2> HIDE DEF f, Live
  <2>1. QED
    BY <1>3, PlacesAssumption, FS_Injection
<1>5. FreeBlocks(w) \in SUBSET Nat /\ FreeBlocks(w) # {}
  <2>1. Blocks \subseteq Nat
    BY PlacesAssumption
  <2>2. FreeBlocks(w) = {} => Live = Blocks
    BY DEF FreeBlocks
  <2>3. Cardinality(Handles) < Cardinality(Blocks)
        /\ Cardinality(Handles) \in Nat /\ Cardinality(Blocks) \in Nat
    BY PlacesAssumption, RoomAssumption, FS_CardinalityType
  <2>4. Live # Blocks
    BY <1>4, <2>3
  <2>5. QED
    BY <2>1, <2>2, <2>4 DEF FreeBlocks
<1>6. Fresh(w) \in FreeBlocks(w)
  BY <1>5, LeastExists DEF Fresh
<1>7. Fresh(w) \in Blocks /\ ~w.b[Fresh(w)].live
  BY <1>6 DEF FreeBlocks
<1>8. \A g \in Handles : w.h[g].at \in Blocks => w.b[w.h[g].at].live
  BY DEF Sound, Placed
<1>9. QED
  BY <1>7, <1>8

\* h comes to have the header r; the others stay.
LEMMA Rehoused ==
  ASSUME NEW w, NEW x, NEW V, NEW h \in Handles, NEW r \in Header, NEW S \in SUBSET Values,
         Sound(w, V), x \in Worlds, x.h = [w.h EXCEPT ![h] = r], x.m = w.m,
         \A b \in Blocks : Accounted(x.h, x.b, b, (OnBlock(w.h, b) \ {h}) \cup
                              (IF r.at = b /\ r.owner # "borrowed" THEN {h} ELSE {})),
         \A g \in Handles \ {h} : w.h[g].at \in Blocks =>
           x.b[w.h[g].at].live /\ x.b[w.h[g].at].values = w.b[w.h[g].at].values,
         Placed(r, x.b), Held(x, h) = S, Tells(r, S)
  PROVE  Sound(x, [V EXCEPT ![h] = S])
<1> DEFINE N == [V EXCEPT ![h] = S]
<1>1. w.h \in [Handles -> Header] /\ V \in [Handles -> SUBSET Values]
  BY DEF Sound, Worlds
<1>2. x.h[h] = r /\ \A g \in Handles \ {h} : x.h[g] = w.h[g]
  BY <1>1
<1>3. N \in [Handles -> SUBSET Values] /\ N[h] = S /\ \A g \in Handles \ {h} : N[g] = V[g]
  BY <1>1
<1> HIDE DEF N
<1>4. ASSUME NEW b \in Blocks PROVE Accounted(x.h, x.b, b, OnBlock(x.h, b))
  <2>1. OnBlock(x.h, b) = (OnBlock(w.h, b) \ {h}) \cup
                          (IF r.at = b /\ r.owner # "borrowed" THEN {h} ELSE {})
    BY <1>2 DEF OnBlock
  <2>2. QED
    BY <2>1
<1>5. ASSUME NEW g \in Handles \ {h}
      PROVE  Placed(x.h[g], x.b) /\ Held(x, g) = N[g] /\ Tells(x.h[g], N[g])
  <2>1. Placed(w.h[g], w.b) /\ Held(w, g) = V[g] /\ Tells(w.h[g], V[g])
    BY DEF Sound
  <2>2. x.h[g] = w.h[g] /\ N[g] = V[g] /\ w.h[g] \in Header
    BY <1>1, <1>2, <1>3
  <2>3. w.h[g].at \in Blocks =>
           x.b[w.h[g].at].live /\ x.b[w.h[g].at].values = w.b[w.h[g].at].values
    OBVIOUS
  <2>4. Placed(x.h[g], x.b)
    BY <2>1, <2>2, <2>3 DEF Placed
  <2>5. Held(x, g) = Held(w, g)
    <3>1. w.h[g].at \in Blocks => x.b[w.h[g].at].values = w.b[w.h[g].at].values
      BY <2>3
    <3>2. x.h[g] = w.h[g] /\ w.h[g] \in Header /\ x.m = w.m
      BY <2>2
    <3>3. QED
      BY <3>1, <3>2, HeldSame
  <2>6. QED
    BY <2>1, <2>2, <2>4, <2>5
<1>6. Placed(x.h[h], x.b) /\ Held(x, h) = N[h] /\ Tells(x.h[h], N[h])
  BY <1>2, <1>3
<1>7. \A g \in Handles : Placed(x.h[g], x.b) /\ Held(x, g) = N[g] /\ Tells(x.h[g], N[g])
  BY <1>5, <1>6
<1>8. QED
  BY <1>3, <1>4, <1>7 DEF Sound, N

\* A handle that is on no block, or on one that it only borrows.
LEMMA Uncounted ==
  ASSUME NEW w, NEW x, NEW V, NEW h \in Handles, NEW r \in Header, NEW S \in SUBSET Values,
         Sound(w, V), x \in Worlds, x.h = [w.h EXCEPT ![h] = r], x.m = w.m,
         Vacated(w, x.b, h), r.at \in Blocks => r.owner = "borrowed",
         Placed(r, x.b), Held(x, h) = S, Tells(r, S)
  PROVE  Sound(x, [V EXCEPT ![h] = S])
<1>1. w.h \in [Handles -> Header]
  BY DEF Sound, Worlds
<1>2. ASSUME NEW b \in Blocks
      PROVE  Accounted(x.h, x.b, b, (OnBlock(w.h, b) \ {h}) \cup
                       (IF r.at = b /\ r.owner # "borrowed" THEN {h} ELSE {}))
  <2> DEFINE Q == OnBlock(w.h, b) \ {h}
  <2>1. Q \cup (IF r.at = b /\ r.owner # "borrowed" THEN {h} ELSE {}) = Q
    OBVIOUS
  <2>2. Accounted(w.h, x.b, b, Q)
    BY DEF Vacated
  <2>3. \A g \in Q : x.h[g] = w.h[g]
    BY <1>1 DEF OnBlock
  <2> HIDE DEF Q
  <2>4. Accounted(x.h, x.b, b, Q)
    BY <2>2, <2>3 DEF Accounted
  <2>5. QED
    BY <2>1, <2>4 DEF Q
<1>3. \A g \in Handles \ {h} : w.h[g].at \in Blocks =>
        x.b[w.h[g].at].live /\ x.b[w.h[g].at].values = w.b[w.h[g].at].values
  BY DEF Vacated
<1>4. QED
  BY <1>2, <1>3, Rehoused

\* A handle that gets a fresh block.
LEMMA Settles ==
  ASSUME NEW w, NEW x, NEW V, NEW h \in Handles, NEW r \in Header, NEW S \in SUBSET Values,
         NEW B, Vacated(w, B, h),
         Sound(w, V), x \in Worlds, x.h = [w.h EXCEPT ![h] = r], x.m = w.m,
         r.at = Fresh(w), r.owner = (IF counted THEN "shared" ELSE "unique"),
         x.b = [B EXCEPT ![Fresh(w)] =
                  [live |-> TRUE, rc |-> 1, bytes |-> r.capacity, values |-> S]],
         r.count <= r.capacity, Tells(r, S)
  PROVE  Sound(x, [V EXCEPT ![h] = S]) /\ Own(x, h)
<1> DEFINE b == Fresh(w)
           c == [live |-> TRUE, rc |-> 1, bytes |-> r.capacity, values |-> S]
<1>1. w.h \in [Handles -> Header] /\ B \in [Blocks -> Cell]
  BY DEF Sound, Worlds, Vacated
<1>2. b \in Blocks /\ ~w.b[b].live /\ \A g \in Handles : w.h[g].at # b
  BY FreshIsFree
<1>3. x.b[b] = c /\ \A a \in Blocks : a # b => x.b[a] = B[a]
  BY <1>1, <1>2
<1>4. r.owner # "borrowed" /\ x.h[h] = r /\ \A g \in Handles \ {h} : x.h[g] = w.h[g]
  BY <1>1
<1>5. ASSUME NEW a \in Blocks
      PROVE  Accounted(x.h, x.b, a, (OnBlock(w.h, a) \ {h}) \cup
                       (IF r.at = a /\ r.owner # "borrowed" THEN {h} ELSE {}))
  <2> DEFINE Q == OnBlock(w.h, a) \ {h}
  <2>1. CASE a = b
    <3>1. OnBlock(w.h, a) = {}
      BY <1>2, <2>1 DEF OnBlock
    <3>2. Q \cup (IF r.at = a /\ r.owner # "borrowed" THEN {h} ELSE {}) = {h}
      BY <1>4, <2>1, <3>1
    <3>3. Cardinality({h}) = 1
      BY FS_Singleton
    <3>4. x.b[a].live = TRUE /\ x.b[a].rc = 1 /\ x.b[a].bytes = r.capacity
      BY <1>3, <2>1
    <3>5. Accounted(x.h, x.b, a, {h})
      BY <1>4, <3>3, <3>4 DEF Accounted
    <3>6. QED
      BY <3>2, <3>5
  <2>2. CASE a # b
    <3>1. Q \cup (IF r.at = a /\ r.owner # "borrowed" THEN {h} ELSE {}) = Q
      BY <2>2
    <3>2. Accounted(w.h, B, a, Q)
      BY DEF Vacated
    <3>3. \A g \in Q : x.h[g] = w.h[g]
      BY <1>4 DEF OnBlock
    <3> HIDE DEF Q
    <3>4. Accounted(x.h, x.b, a, Q)
      BY <1>3, <2>2, <3>2, <3>3 DEF Accounted
    <3>5. QED
      BY <3>1, <3>4 DEF Q
  <2>3. QED
    BY <2>1, <2>2
<1>6. ASSUME NEW g \in Handles \ {h}, w.h[g].at \in Blocks
      PROVE  x.b[w.h[g].at].live /\ x.b[w.h[g].at].values = w.b[w.h[g].at].values
  BY <1>2, <1>3, <1>6 DEF Vacated
<1>7. Placed(r, x.b)
  <2>1. r.at # Inline /\ r.at \notin Images /\ x.b[r.at].live
    BY <1>2, <1>3, PlacesApart
  <2>2. counted => r.owner # "unique"
    OBVIOUS
  <2>3. QED
    BY <2>1, <2>2 DEF Placed
<1>8. Held(x, h) = S
  <2>1. x.h[h].at \in Blocks /\ x.b[x.h[h].at].values = S
    BY <1>2, <1>3, <1>4
  <2>2. QED
    BY <2>1, HeldOnBlock
<1>9. Sound(x, [V EXCEPT ![h] = S])
  BY <1>5, <1>6, <1>7, <1>8, Rehoused
<1>10. Own(x, h)
  BY <1>2, <1>4 DEF Own
<1>11. QED
  BY <1>9, <1>10

-----------------------------------------------------------------------------
\* A block as it is given out, and with the values put there.
Cellof(n, S) == [live |-> TRUE, rc |-> 1, bytes |-> n, values |-> S]

LEMMA AllocatedWorld ==
  ASSUME NEW w \in Worlds, NEW n \in Nat, Fresh(w) \in Blocks
  PROVE  /\ Allocated(w, n) \in Worlds
         /\ Allocated(w, n).h = w.h /\ Allocated(w, n).m = w.m
         /\ w.left = 0 => Allocated(w, n).thrown = TRUE /\ Allocated(w, n).b = w.b
         /\ w.left # 0 => /\ Allocated(w, n).thrown = w.thrown
                          /\ Allocated(w, n).b = [w.b EXCEPT ![Fresh(w)] = Cellof(n, {})]
<1> DEFINE y == Allocated(w, n)
<1>1. CASE w.left = 0
  <2>1. y = [w EXCEPT !.thrown = TRUE]
    BY <1>1 DEF Allocated
  <2>2. QED
    BY <1>1, <2>1 DEF Worlds
<1>2. CASE w.left # 0
  <2> DEFINE B == [w.b EXCEPT ![Fresh(w)] = Cellof(n, {})]
  <2>1. y = [w EXCEPT !.left = w.left - 1, !.b = B]
    BY <1>2 DEF Allocated, Cellof
  <2>2. Cellof(n, {}) \in Cell
    BY DEF Cellof, Cell
  <2>3. B \in [Blocks -> Cell]
    BY <2>2 DEF Worlds
  <2> HIDE DEF B
  <2>4. w.left - 1 \in Nat
    BY <1>2 DEF Worlds
  <2>5. y \in Worlds /\ y.h = w.h /\ y.m = w.m /\ y.thrown = w.thrown /\ y.b = B
    BY <2>1, <2>3, <2>4 DEF Worlds
  <2>6. QED
    BY <1>2, <2>5 DEF B
<1>3. QED
  BY <1>1, <1>2

\* Letting go of a payload does not touch a fresh block.
LEMMA LetsGoBeside ==
  ASSUME NEW w, NEW V, NEW h \in Handles, Sound(w, V), Unaliased(w, h),
         NEW y \in Worlds, NEW c \in Cell,
         y.h = w.h, y.b = [w.b EXCEPT ![Fresh(w)] = c]
  PROVE  /\ Release(y, h) \in Worlds /\ Release(y, h).h = w.h /\ Release(y, h).m = y.m
         /\ Release(y, h).thrown = y.thrown
         /\ Release(y, h).b = [Release(w, h).b EXCEPT ![Fresh(w)] = c]
<1> DEFINE F == Fresh(w)
           at == w.h[h].at
<1>1. w \in Worlds /\ w.b \in [Blocks -> Cell] /\ w.h \in [Handles -> Header]
  BY DEF Sound, Worlds
<1>2. F \in Blocks /\ at # F
  BY FreshIsFree
<1> HIDE DEF F
<1>3. Spilled(y, h) <=> Spilled(w, h)
  BY DEF Spilled
<1>4. CASE ~Spilled(w, h) \/ w.h[h].owner = "borrowed"
  BY <1>3, <1>4 DEF Release, F
<1>5. CASE Spilled(w, h) /\ w.h[h].owner # "borrowed"
  <2>1. at \in Blocks
    <3>1. Placed(w.h[h], w.b) /\ w.h[h] \in Header
      BY <1>1 DEF Sound
    <3>2. QED
      BY <1>5, <3>1 DEF Header, Spilled, Placed
  <2>2. y.b[at] = w.b[at] /\ y.b = [w.b EXCEPT ![F] = c]
    BY <1>1, <1>2, <2>1 DEF F
  <2>p. ASSUME NEW d \in Cell, Release(w, h) = [w EXCEPT !.b = [w.b EXCEPT ![at] = d]],
               Release(y, h) = [y EXCEPT !.b = [y.b EXCEPT ![at] = d]]
        PROVE  /\ Release(y, h) \in Worlds /\ Release(y, h).h = w.h /\ Release(y, h).m = y.m
               /\ Release(y, h).thrown = y.thrown
               /\ Release(y, h).b = [Release(w, h).b EXCEPT ![F] = c]
    <3>1. Release(w, h).b = [w.b EXCEPT ![at] = d]
      BY <1>1, <2>p DEF Worlds
    <3>2. y.b \in [Blocks -> Cell]
      BY DEF Worlds
    <3> DEFINE Y == [y.b EXCEPT ![at] = d]
    <3>3. Y \in [Blocks -> Cell]
      BY <3>2
    <3>4. Y = [[w.b EXCEPT ![at] = d] EXCEPT ![F] = c]
      BY <1>1, <1>2, <2>1, <2>2
    <3> HIDE DEF Y
    <3>5. Release(y, h) = [y EXCEPT !.b = Y]
      BY <2>p DEF Y
    <3>6. Release(y, h) \in Worlds /\ Release(y, h).h = y.h /\ Release(y, h).m = y.m
          /\ Release(y, h).thrown = y.thrown /\ Release(y, h).b = Y
      BY <3>3, <3>5 DEF Worlds
    <3>7. QED
      BY <3>1, <3>4, <3>6
  <2>3. Free \in Cell
    BY DEF Free, Cell
  <2>4. CASE counted /\ w.h[h].owner = "shared"
    <3>1. CASE w.b[at].rc = 1
      <4>1. Release(w, h) = Freed(w, at) /\ Release(y, h) = Freed(y, at)
        BY <1>3, <1>5, <2>2, <2>4, <3>1 DEF Release, LetGo
      <4>2. QED
        BY <2>3, <2>p, <4>1 DEF Freed, F
    <3>2. CASE w.b[at].rc # 1
      <4> DEFINE d == [w.b[at] EXCEPT !.rc = w.b[at].rc - 1]
      <4>1. Release(w, h) = [w EXCEPT !.b = [w.b EXCEPT ![at] = d]]
        BY <1>5, <2>4, <3>2 DEF Release, LetGo
      <4>2. Release(y, h) = LetGo(y, at)
        BY <1>3, <1>5, <2>4 DEF Release
      <4>3. LetGo(y, at) = [y EXCEPT !.b = [y.b EXCEPT ![at] = [y.b[at] EXCEPT !.rc = y.b[at].rc - 1]]]
        BY <2>2, <3>2 DEF LetGo
      <4>4. d \in Cell /\ d = [y.b[at] EXCEPT !.rc = y.b[at].rc - 1]
        <5>1. w.b[at] \in Cell /\ w.b[at].rc - 1 \in Int
          BY <1>1, <2>1 DEF Cell
        <5>2. d \in Cell
          BY <5>1 DEF Cell
        <5>3. QED
          BY <2>2, <5>2
      <4> HIDE DEF d
      <4>5. Release(y, h) = [y EXCEPT !.b = [y.b EXCEPT ![at] = d]]
        BY <4>2, <4>3, <4>4
      <4>6. /\ Release(y, h) \in Worlds /\ Release(y, h).h = w.h /\ Release(y, h).m = y.m
            /\ Release(y, h).thrown = y.thrown
            /\ Release(y, h).b = [Release(w, h).b EXCEPT ![F] = c]
        BY <2>p, <4>1, <4>4, <4>5
      <4>7. QED
        BY <4>6 DEF F
    <3>3. QED
      BY <3>1, <3>2
  <2>5. CASE ~(counted /\ w.h[h].owner = "shared")
    <3>1. Release(w, h) = Freed(w, at) /\ Release(y, h) = Freed(y, at)
      BY <1>3, <1>5, <2>5 DEF Release
    <3>2. QED
      BY <2>3, <2>p, <3>1 DEF Freed, F
  <2>6. QED
    BY <2>4, <2>5
<1>6. QED
  BY <1>4, <1>5

-----------------------------------------------------------------------------
(***************************************************************************)
(* A payload that lands in a fresh block.                                  *)
(***************************************************************************)
Lands(w, x, h, n, B, S) ==
  /\ x \in Worlds /\ x.m = w.m /\ x.thrown = w.thrown
  /\ x.h = [w.h EXCEPT ![h] = x.h[h]]
  /\ x.h[h].at = Fresh(w) /\ x.h[h].capacity = n
  /\ x.h[h].owner = (IF counted THEN "shared" ELSE "unique")
  /\ x.b = [B EXCEPT ![Fresh(w)] = Cellof(n, S)]

\* The fields of a header that tell of its values.
SameTale(r, s) ==
  /\ r.kind = s.kind /\ r.count = s.count /\ r.card = s.card /\ r.exact = s.exact
  /\ r.ends = s.ends

LEMMA LandsSpilt ==
  ASSUME NEW w, NEW V, Sound(w, V), NEW h \in Handles, NEW y \in Worlds, NEW n \in Nat,
         y.h = [w.h EXCEPT ![h] = y.h[h]], y.m = w.m, y.thrown = w.thrown,
         NEW B, NEW S, y.b = [B EXCEPT ![Fresh(w)] = Cellof(n, S)]
  PROVE  /\ Lands(w, SpillTo(y, h, Fresh(w), n), h, n, B, S)
         /\ SameTale(SpillTo(y, h, Fresh(w), n).h[h], y.h[h])
<1> DEFINE r == [y.h[h] EXCEPT !.at = Fresh(w), !.capacity = n, !.here = {},
                               !.owner = IF counted THEN "shared" ELSE "unique"]
           x == SpillTo(y, h, Fresh(w), n)
<1>1. y.h \in [Handles -> Header] /\ y.h[h] \in Header /\ w.h \in [Handles -> Header]
  BY DEF Sound, Worlds
<1>2. x = [y EXCEPT !.h = [y.h EXCEPT ![h] = r]]
  BY <1>1 DEF SpillTo, Worlds
<1>3. Fresh(w) \in Blocks
  BY FreshIsFree
<1>4. r \in Header /\ r.at = Fresh(w) /\ r.capacity = n
      /\ r.owner = (IF counted THEN "shared" ELSE "unique") /\ SameTale(r, y.h[h])
  BY <1>1, <1>3 DEF Header, SameTale
<1> HIDE DEF r, x
<1>5. x \in Worlds /\ x.b = y.b /\ x.m = y.m /\ x.thrown = y.thrown
      /\ x.h = [y.h EXCEPT ![h] = r]
  BY <1>1, <1>2, <1>4 DEF Worlds
<1>6. x.h[h] = r
  BY <1>1, <1>5
<1>7. x.h = [w.h EXCEPT ![h] = x.h[h]]
  BY <1>1, <1>5, <1>6
<1>8. QED
  BY <1>4, <1>5, <1>6, <1>7 DEF Lands, x

LEMMA LandsPut ==
  ASSUME NEW w, NEW V, Sound(w, V), NEW h \in Handles, NEW x, NEW n \in Nat,
         NEW B \in [Blocks -> Cell], NEW S, NEW T \in SUBSET Values, Lands(w, x, h, n, B, S)
  PROVE  Lands(w, Put(x, h, T), h, n, B, T) /\ Put(x, h, T).h = x.h
<1> DEFINE F == Fresh(w)
           y == Put(x, h, T)
<1>1. F \in Blocks
  BY FreshIsFree
<1>2. x \in Worlds /\ x.h[h].at = F /\ x.b = [B EXCEPT ![F] = Cellof(n, S)]
  BY DEF Lands
<1> DEFINE c == [x.b[F] EXCEPT !.values = T]
<1>3. y = [x EXCEPT !.b = [x.b EXCEPT ![F] = c]]
  BY <1>1, <1>2, PlacesApart DEF Put
<1>4. c = Cellof(n, T) /\ Cellof(n, T) \in Cell
  <2>1. x.b[F] = Cellof(n, S)
    BY <1>1, <1>2
  <2>2. Cellof(n, T) \in Cell
    BY DEF Cellof, Cell
  <2>3. x.b[F] \in Cell
    BY <1>1, <1>2 DEF Worlds
  <2>4. c \in Cell /\ c.live = x.b[F].live /\ c.rc = x.b[F].rc /\ c.bytes = x.b[F].bytes
        /\ c.values = T
    BY <2>3 DEF Cell
  <2>5. x.b[F].live = TRUE /\ x.b[F].rc = 1 /\ x.b[F].bytes = n
    BY <2>1 DEF Cellof
  <2> HIDE DEF c
  <2>6. Cellof(n, T).live = TRUE /\ Cellof(n, T).rc = 1 /\ Cellof(n, T).bytes = n
        /\ Cellof(n, T).values = T
    BY DEF Cellof
  <2>7. c = Cellof(n, T)
    BY <2>2, <2>4, <2>5, <2>6 DEF Cell
  <2>8. QED
    BY <2>2, <2>7
<1> HIDE DEF c, y, F
<1>a. x.b \in [Blocks -> Cell]
  BY <1>2 DEF Worlds
<1> DEFINE Y == [x.b EXCEPT ![F] = Cellof(n, T)]
<1>b. Y \in [Blocks -> Cell] /\ y = [x EXCEPT !.b = Y]
  BY <1>a, <1>3, <1>4
<1> HIDE DEF Y
<1>c. y \in Worlds /\ y.h = x.h /\ y.m = x.m /\ y.thrown = x.thrown /\ y.b = Y
  BY <1>2, <1>b DEF Worlds
<1>5. y \in Worlds /\ y.h = x.h /\ y.m = x.m /\ y.thrown = x.thrown
      /\ y.b = [x.b EXCEPT ![F] = Cellof(n, T)]
  BY <1>c DEF Y
<1>6. y.b = [B EXCEPT ![F] = Cellof(n, T)]
  BY <1>1, <1>2, <1>5
<1>7. QED
  BY <1>5, <1>6 DEF Lands, F, y

LEMMA LandsEdited ==
  ASSUME NEW w, NEW V, Sound(w, V), NEW h \in Handles, NEW x, NEW y, NEW n, NEW B, NEW S,
         Lands(w, x, h, n, B, S), Edits(x, y, h)
  PROVE  Lands(w, y, h, n, B, S)
<1>1. w.h \in [Handles -> Header]
  BY DEF Sound, Worlds
<1>2. y.h = [w.h EXCEPT ![h] = y.h[h]]
  BY <1>1 DEF Lands, Edits
<1>3. QED
  BY <1>2 DEF Lands, Edits

LEMMA Landed ==
  ASSUME NEW w, NEW V, Sound(w, V), NEW h \in Handles, NEW x, NEW n, NEW B,
         NEW S \in SUBSET Values, Lands(w, x, h, n, B, S), Vacated(w, B, h),
         Tells(x.h[h], S), x.h[h].count <= n
  PROVE  Sound(x, [V EXCEPT ![h] = S]) /\ Own(x, h)
<1> DEFINE r == x.h[h]
<1>1. x \in Worlds /\ r \in Header
  BY DEF Lands, Worlds
<1>2. /\ x.m = w.m /\ x.h = [w.h EXCEPT ![h] = r]
      /\ r.at = Fresh(w) /\ r.owner = (IF counted THEN "shared" ELSE "unique")
      /\ x.b = [B EXCEPT ![Fresh(w)] =
                  [live |-> TRUE, rc |-> 1, bytes |-> r.capacity, values |-> S]]
      /\ r.count <= r.capacity /\ Tells(r, S)
  BY DEF Lands, Cellof
<1> HIDE DEF r
<1>3. QED
  BY <1>1, <1>2, Settles

LEMMA SameTells ==
  ASSUME NEW r, NEW s, NEW S, SameTale(r, s), Tells(s, S)
  PROVE  Tells(r, S)
  BY DEF SameTale, Tells

LEMMA SameValues ==
  ASSUME NEW w, NEW V, NEW h \in Handles, V \in [Handles -> SUBSET Values],
         Sound(w, [V EXCEPT ![h] = V[h]])
  PROVE  Sound(w, V)
<1>1. [V EXCEPT ![h] = V[h]] = V
  OBVIOUS
<1>2. QED
  BY <1>1

-----------------------------------------------------------------------------
(***************************************************************************)
(* The barrier and the growth of a payload.                                *)
(***************************************************************************)
\* A call that was refused its allocation has done nothing; one that was not
\* leaves the handle alone on a payload of the same values.
Private(w, x, V, h) ==
  IF x.thrown THEN x \in Worlds /\ x.h = w.h /\ x.b = w.b /\ x.m = w.m
  ELSE Sound(x, V) /\ Own(x, h) /\ SameTale(x.h[h], w.h[h]) /\ x.m = w.m

LEMMA SpiltAndPut ==
  ASSUME NEW w, NEW V, NEW h \in Handles, Sound(w, V), ~w.thrown,
         NEW n \in Nat, w.h[h].count <= n, NEW B, Vacated(w, B, h),
         NEW y \in Worlds, y.h = w.h, y.m = w.m, y.thrown = w.thrown,
         y.b = [B EXCEPT ![Fresh(w)] = Cellof(n, {})],
         NEW x, x = Put(SpillTo(y, h, Fresh(w), n), h, Held(w, h))
  PROVE  Private(w, x, V, h) /\ ~x.thrown /\ x.h[h].capacity = n
<1> DEFINE z == SpillTo(y, h, Fresh(w), n)
<1>1. w.h \in [Handles -> Header] /\ B \in [Blocks -> Cell]
  BY DEF Sound, Worlds, Vacated
<1>2. Held(w, h) = V[h] /\ Tells(w.h[h], V[h]) /\ V \in [Handles -> SUBSET Values]
  BY DEF Sound
<1>3. Lands(w, z, h, n, B, {}) /\ SameTale(z.h[h], w.h[h])
  <2>1. y.h = [w.h EXCEPT ![h] = y.h[h]]
    BY <1>1
  <2>2. Lands(w, z, h, n, B, {}) /\ SameTale(z.h[h], y.h[h])
    BY <2>1, LandsSpilt
  <2>3. QED
    BY <2>2
<1> HIDE DEF z
<1>4. x = Put(z, h, V[h])
  BY <1>2 DEF z
<1>5. Lands(w, x, h, n, B, V[h]) /\ x.h = z.h
  BY <1>1, <1>2, <1>3, <1>4, LandsPut
<1>6. SameTale(x.h[h], w.h[h])
  BY <1>3, <1>5
<1>7. Tells(x.h[h], V[h])
  BY <1>2, <1>6, SameTells
<1>8. x.h[h].count <= n
  BY <1>6 DEF SameTale
<1>9. Sound(x, [V EXCEPT ![h] = V[h]]) /\ Own(x, h)
  BY <1>2, <1>5, <1>7, <1>8, Landed
<1>10. Sound(x, V)
  BY <1>2, <1>9, SameValues
<1>11. x.thrown = w.thrown /\ x.m = w.m /\ x.h[h].capacity = n
  BY <1>5 DEF Lands
<1>12. Private(w, x, V, h)
  BY <1>6, <1>9, <1>10, <1>11 DEF Private
<1>13. QED
  BY <1>11, <1>12

LEMMA GrownIsPrivate ==
  ASSUME NEW w, NEW V, NEW h \in Handles, Sound(w, V), Unaliased(w, h), ~w.thrown,
         NEW required \in Nat
  PROVE  /\ Private(w, Grown(w, h, required), V, h)
         /\ ~Grown(w, h, required).thrown =>
              Grown(w, h, required).h[h].capacity >= required
<1> DEFINE n == Max({required, 2 * w.h[h].capacity})
           got == Allocated(w, n)
           x == Grown(w, h, required)
           S == Held(w, h)
<1>1. w \in Worlds /\ w.h[h] \in Header /\ w.h \in [Handles -> Header]
  BY DEF Sound, Worlds
<1>2. n \in Nat /\ n >= required /\ n >= w.h[h].capacity
  <2>1. w.h[h].capacity \in Nat /\ 2 * w.h[h].capacity \in Int
    BY <1>1 DEF Header
  <2> DEFINE c == 2 * w.h[h].capacity
  <2>c. c \in Int /\ required \in Int
    BY <2>1
  <2> HIDE DEF c
  <2>d. Max({required, c}) \in Int /\ Max({required, c}) >= required /\ Max({required, c}) >= c
    BY <2>c, LeastOfTwo
  <2>2. n \in Int /\ n >= required /\ n >= 2 * w.h[h].capacity
    BY <2>d DEF c
  <2> HIDE DEF n
  <2>3. QED
    BY <2>1, <2>2
<1>3. S = V[h] /\ Tells(w.h[h], V[h]) /\ V \in [Handles -> SUBSET Values]
  BY DEF Sound
<1>4. Fresh(w) \in Blocks
  BY FreshIsFree
<1> HIDE DEF n
<1>5. x = IF got.thrown THEN got
          ELSE Put(SpillTo(Release(got, h), h, Fresh(w), n), h, S)
  BY DEF Grown, n
<1> HIDE DEF x, S
<1>6. CASE w.left = 0
  <2>1. got \in Worlds /\ got.h = w.h /\ got.m = w.m /\ got.thrown = TRUE /\ got.b = w.b
    BY <1>1, <1>2, <1>4, <1>6, AllocatedWorld
  <2>2. QED
    BY <1>5, <2>1 DEF Private, x
<1>7. CASE w.left # 0
  <2>1. /\ got \in Worlds /\ got.h = w.h /\ got.m = w.m /\ got.thrown = w.thrown
        /\ got.b = [w.b EXCEPT ![Fresh(w)] = Cellof(n, {})]
    BY <1>1, <1>2, <1>4, <1>7, AllocatedWorld
  <2> HIDE DEF got
  <2> DEFINE y == Release(got, h)
             B == Release(w, h).b
  <2>2. Cellof(n, {}) \in Cell
    BY <1>2 DEF Cellof, Cell
  <2>3. /\ y \in Worlds /\ y.h = w.h /\ y.m = w.m /\ y.thrown = w.thrown
        /\ y.b = [B EXCEPT ![Fresh(w)] = Cellof(n, {})]
    BY <2>1, <2>2, LetsGoBeside
  <2>4. Vacated(w, B, h) /\ B \in [Blocks -> Cell]
    <3>1. Vacated(w, B, h)
      BY LetsGo
    <3>2. QED
      BY <3>1 DEF Vacated
  <2> HIDE DEF y, B
  <2>5. w.h[h].count <= n
    <3>1. w.h[h].count <= w.h[h].capacity
      BY DEF Sound, Placed
    <3>2. w.h[h].count \in Nat /\ w.h[h].capacity \in Nat
      BY <1>1 DEF Header
    <3>3. QED
      BY <1>2, <3>1, <3>2
  <2>6. x = Put(SpillTo(y, h, Fresh(w), n), h, S)
    BY <1>5, <2>1 DEF y
  <2>7. Private(w, x, V, h) /\ ~x.thrown /\ x.h[h].capacity = n
    <3>1. x = Put(SpillTo(y, h, Fresh(w), n), h, Held(w, h))
      BY <2>6 DEF S
    <3>2. /\ n \in Nat /\ w.h[h].count <= n /\ Vacated(w, B, h)
          /\ y \in Worlds /\ y.h = w.h /\ y.m = w.m /\ y.thrown = w.thrown
          /\ y.b = [B EXCEPT ![Fresh(w)] = Cellof(n, {})]
      BY <1>2, <2>3, <2>4, <2>5
    <3>3. QED
      BY <3>1, <3>2, SpiltAndPut
  <2>8. QED
    BY <1>2, <2>7 DEF x
<1>8. QED
  BY <1>6, <1>7

LEMMA EnsuredIsPrivate ==
  ASSUME NEW w, NEW V, NEW h \in Handles, Sound(w, V), Own(w, h), ~w.thrown,
         NEW required \in Nat
  PROVE  /\ Private(w, Ensure(w, h, required), V, h)
         /\ ~Ensure(w, h, required).thrown =>
              Ensure(w, h, required).h[h].capacity >= required
<1>1. CASE required <= w.h[h].capacity
  <2>1. Ensure(w, h, required) = w
    BY <1>1 DEF Ensure
  <2>2. SameTale(w.h[h], w.h[h])
    BY DEF SameTale
  <2>3. QED
    BY <1>1, <2>1, <2>2 DEF Private
<1>2. CASE ~(required <= w.h[h].capacity)
  <2>1. Ensure(w, h, required) = Grown(w, h, required)
    BY <1>2 DEF Ensure
  <2>2. Unaliased(w, h)
    BY DEF Own, Unaliased
  <2>3. QED
    BY <2>1, <2>2, GrownIsPrivate
<1>3. QED
  BY <1>1, <1>2

LEMMA ClonedIsPrivate ==
  ASSUME NEW w, NEW V, NEW h \in Handles, Sound(w, V), Unaliased(w, h), ~w.thrown,
         w.h[h].owner # "borrowed", ~Unshared(w, h)
  PROVE  Private(w, CloneShared(w, h), V, h)
<1> DEFINE n == w.h[h].capacity
           F == Fresh(w)
           got == Allocated(w, n)
           copied == [got EXCEPT !.b[F].values = Held(w, h)]
           x == CloneShared(w, h)
<1>1. w \in Worlds /\ w.h[h] \in Header /\ w.h \in [Handles -> Header]
      /\ w.b \in [Blocks -> Cell]
  BY DEF Sound, Worlds
<1>2. n \in Nat /\ w.h[h].count <= n
  <2>1. w.h[h].count <= n
    BY DEF Sound, Placed
  <2>2. QED
    BY <1>1, <2>1 DEF Header
<1>3. Held(w, h) = V[h] /\ Tells(w.h[h], V[h]) /\ V \in [Handles -> SUBSET Values]
  BY DEF Sound
<1>4. F \in Blocks
  BY FreshIsFree
<1>5. counted /\ Spilled(w, h) /\ w.h[h].owner = "shared"
  <2>1. counted /\ Spilled(w, h)
    BY DEF Unshared
  <2>2. w.h[h].owner # "unique"
    BY <2>1 DEF Sound, Placed, Spilled
  <2>3. QED
    BY <1>1, <2>1, <2>2 DEF Header
<1>6. CASE w.left = 0
  <2>1. got \in Worlds /\ got.h = w.h /\ got.m = w.m /\ got.thrown = TRUE /\ got.b = w.b
    BY <1>1, <1>2, <1>4, <1>6, AllocatedWorld
  <2>2. x = got
    BY <2>1 DEF CloneShared
  <2>3. QED
    BY <2>1, <2>2 DEF Private
<1>7. CASE w.left # 0
  <2> DEFINE B == Release(w, h).b
             y == Release(copied, h)
             r == [w.h[h] EXCEPT !.at = F]
  <2>1. /\ got \in Worlds /\ got.h = w.h /\ got.m = w.m /\ got.thrown = w.thrown
        /\ got.b = [w.b EXCEPT ![F] = Cellof(n, {})]
    BY <1>1, <1>2, <1>4, <1>7, AllocatedWorld
  <2>2. Cellof(n, V[h]) \in Cell /\ [Cellof(n, {}) EXCEPT !.values = V[h]] = Cellof(n, V[h])
    <3>1. V[h] \in SUBSET Values /\ {} \in SUBSET Values
      BY <1>3
    <3>2. Cellof(n, V[h]) \in Cell
      BY <1>2, <3>1 DEF Cellof, Cell
    <3>3. Cellof(n, {}) \in Cell
      BY <1>2, <3>1 DEF Cellof, Cell
    <3> DEFINE d == [Cellof(n, {}) EXCEPT !.values = V[h]]
               e == Cellof(n, V[h])
               f == Cellof(n, {})
    <3>4. d \in Cell /\ d.live = f.live /\ d.rc = f.rc /\ d.bytes = f.bytes /\ d.values = V[h]
      BY <3>1, <3>3 DEF Cell
    <3>5. f.live = TRUE /\ f.rc = 1 /\ f.bytes = n /\ e.live = TRUE /\ e.rc = 1
          /\ e.bytes = n /\ e.values = V[h]
      BY DEF Cellof
    <3> HIDE DEF d, e, f
    <3>6. e \in Cell
      BY <3>2 DEF e
    <3>7. d = e
      BY <3>4, <3>5, <3>6 DEF Cell
    <3>8. QED
      BY <3>2, <3>7 DEF d, e
  <2>3. /\ copied \in Worlds /\ copied.h = w.h /\ copied.m = w.m /\ copied.thrown = w.thrown
        /\ copied.b = [w.b EXCEPT ![F] = Cellof(n, V[h])]
    <3> HIDE DEF got, F
    <3> DEFINE Y == [got.b EXCEPT ![F] = Cellof(n, V[h])]
    <3>1. got.b \in [Blocks -> Cell] /\ got.b[F] = Cellof(n, {})
      BY <1>1, <1>4, <2>1 DEF Worlds
    <3>2. copied = [got EXCEPT !.b = [got.b EXCEPT ![F] = [got.b[F] EXCEPT !.values = V[h]]]]
      BY <1>3
    <3>3. copied = [got EXCEPT !.b = Y]
      BY <2>2, <3>1, <3>2
    <3>4. Y \in [Blocks -> Cell] /\ Y = [w.b EXCEPT ![F] = Cellof(n, V[h])]
      BY <1>1, <1>4, <2>1, <2>2, <3>1
    <3> HIDE DEF Y, copied
    <3>5. copied \in Worlds /\ copied.h = got.h /\ copied.m = got.m
          /\ copied.thrown = got.thrown /\ copied.b = Y
      BY <2>1, <3>3, <3>4 DEF Worlds
    <3>6. QED
      BY <2>1, <3>4, <3>5 DEF copied
  <2>4. x = [LetGo(copied, w.h[h].at) EXCEPT !.h[h].at = F]
    BY <2>1 DEF CloneShared
  <2> HIDE DEF copied
  <2>5. y = LetGo(copied, w.h[h].at)
    <3>1. Spilled(copied, h) /\ copied.h[h].owner = "shared"
      BY <1>5, <2>3 DEF Spilled
    <3>2. QED
      BY <1>5, <2>3, <3>1 DEF Release
  <2>6. /\ y \in Worlds /\ y.h = w.h /\ y.m = w.m /\ y.thrown = w.thrown
        /\ y.b = [B EXCEPT ![F] = Cellof(n, V[h])]
    BY <2>2, <2>3, LetsGoBeside
  <2>7. Vacated(w, B, h)
    BY LetsGo
  <2> HIDE DEF y, B, F
  <2>8. x = [y EXCEPT !.h = [w.h EXCEPT ![h] = r]]
    BY <2>4, <2>5, <2>6
  <2>9. r \in Header /\ r.at = F /\ r.capacity = n /\ r.owner = "shared"
        /\ SameTale(r, w.h[h])
    BY <1>1, <1>4, <1>5 DEF Header, SameTale
  <2> HIDE DEF r, x
  <2>10. x \in Worlds /\ x.b = y.b /\ x.m = y.m /\ x.thrown = y.thrown
         /\ x.h = [w.h EXCEPT ![h] = r]
    BY <1>1, <2>6, <2>8, <2>9 DEF Worlds
  <2>11. x.h[h] = r
    BY <1>1, <2>10
  <2>12. Lands(w, x, h, n, B, V[h])
    BY <1>5, <2>6, <2>9, <2>10, <2>11 DEF Lands, F
  <2>13. Tells(x.h[h], V[h])
    BY <1>3, <2>9, <2>11, SameTells
  <2>14. x.h[h].count <= n
    BY <1>2, <2>9, <2>11 DEF SameTale
  <2>15. Sound(x, [V EXCEPT ![h] = V[h]]) /\ Own(x, h)
    BY <1>3, <2>7, <2>12, <2>13, <2>14, Landed
  <2>16. Sound(x, V)
    BY <1>3, <2>15, SameValues
  <2>17. QED
    BY <2>6, <2>9, <2>10, <2>11, <2>15, <2>16 DEF Private, x
<1>8. QED
  BY <1>6, <1>7

LEMMA InlineCapacities ==
  ASSUME NEW kind \in {"array", "run", "bitset"}
  PROVE  InlineCapacity(kind) \in Nat
  BY SizesAssumption DEF InlineCapacity

\* A payload that is read in place comes to lie in the handle or in a block.
LEMMA BorrowedIsPrivate ==
  ASSUME NEW w, NEW V, NEW h \in Handles, Sound(w, V), ~w.thrown,
         w.h[h].owner = "borrowed"
  PROVE  Private(w, CloneBorrowed(w, h), V, h)
<1> DEFINE n == w.h[h].count
           F == Fresh(w)
           S == Held(w, h)
           v == IF counted THEN w ELSE [w EXCEPT !.left = @ + 1]
           got == Allocated(v, n)
           x == CloneBorrowed(w, h)
           c == InlineCapacity(w.h[h].kind)
           r == [w.h[h] EXCEPT !.at = Inline, !.owner = "unique", !.here = S, !.capacity = c]
<1>1. w \in Worlds /\ w.h[h] \in Header /\ w.h \in [Handles -> Header]
      /\ w.b \in [Blocks -> Cell]
  BY DEF Sound, Worlds
<1>2. n \in Nat /\ w.h[h].kind \in {"array", "run", "bitset"}
  BY <1>1 DEF Header
<1>3. S = V[h] /\ Tells(w.h[h], V[h]) /\ V \in [Handles -> SUBSET Values]
  BY DEF Sound
<1>4. F \in Blocks
  BY FreshIsFree
<1>5. Unaliased(w, h)
  BY DEF Unaliased
<1>6. Vacated(w, w.b, h)
  <2>1. Release(w, h) = w
    BY DEF Release
  <2>2. QED
    BY <1>5, <2>1, LetsGo
<1>7. c \in Nat
  BY <1>2, InlineCapacities
<1> HIDE DEF S, F, c
<1>8. x = IF n <= c THEN [w EXCEPT !.h = [w.h EXCEPT ![h] = r]]
          ELSE IF got.thrown THEN got
          ELSE Put(SpillTo(got, h, F, n), h, S)
  BY DEF CloneBorrowed, S, F, c
<1> HIDE DEF x
<1>9. CASE n <= c
  <2>1. r \in Header /\ r.at = Inline /\ r.owner = "unique" /\ r.here = V[h]
        /\ r.capacity = c /\ SameTale(r, w.h[h])
    BY <1>1, <1>3, <1>7 DEF Header, SameTale
  <2>2. x = [w EXCEPT !.h = [w.h EXCEPT ![h] = r]]
    BY <1>8, <1>9
  <2> HIDE DEF r
  <2>3. x \in Worlds /\ x.h = [w.h EXCEPT ![h] = r] /\ x.m = w.m /\ x.b = w.b
        /\ x.thrown = w.thrown
    BY <1>1, <2>1, <2>2 DEF Worlds
  <2>4. x.h[h] = r
    BY <1>1, <2>3
  <2>5. Held(x, h) = V[h]
    BY <2>1, <2>4, HeldHere
  <2>6. Tells(r, V[h])
    BY <1>3, <2>1, SameTells
  <2>7. r.count = n
    BY <2>1 DEF SameTale
  <2>8. Placed(r, x.b)
    BY <1>9, <2>1, <2>7, PlacesApart DEF Placed
  <2>9. Vacated(w, x.b, h) /\ (r.at \in Blocks => r.owner = "borrowed")
    BY <1>6, <2>1, <2>3, PlacesApart
  <2>10. Sound(x, [V EXCEPT ![h] = V[h]])
    BY <1>3, <2>1, <2>3, <2>5, <2>6, <2>8, <2>9, Uncounted
  <2>11. Sound(x, V)
    BY <1>3, <2>10, SameValues
  <2>12. Own(x, h)
    BY <2>1, <2>4, PlacesApart DEF Own
  <2>13. QED
    BY <2>1, <2>3, <2>4, <2>11, <2>12 DEF Private, x
<1>10. CASE ~(n <= c)
  <2>1. v \in Worlds /\ v.h = w.h /\ v.b = w.b /\ v.m = w.m /\ v.thrown = w.thrown
    BY <1>1 DEF Worlds
  <2>2. Fresh(v) = F
    BY <2>1 DEF Fresh, FreeBlocks, F
  <2> HIDE DEF v
  <2>3. CASE v.left = 0
    <3>1. got \in Worlds /\ got.h = w.h /\ got.m = w.m /\ got.thrown = TRUE /\ got.b = w.b
      BY <1>2, <1>4, <2>1, <2>2, <2>3, AllocatedWorld
    <3>2. x = got
      BY <1>8, <1>10, <3>1
    <3>3. QED
      BY <3>1, <3>2 DEF Private, x
  <2>4. CASE v.left # 0
    <3>1. /\ got \in Worlds /\ got.h = w.h /\ got.m = w.m /\ got.thrown = w.thrown
          /\ got.b = [w.b EXCEPT ![F] = Cellof(n, {})]
      <4>1. Fresh(v) \in Blocks /\ n \in Nat
        BY <1>2, <1>4, <2>2
      <4>2. /\ got \in Worlds /\ got.h = v.h /\ got.m = v.m /\ got.thrown = v.thrown
            /\ got.b = [v.b EXCEPT ![Fresh(v)] = Cellof(n, {})]
        BY <2>1, <2>4, <4>1, AllocatedWorld
      <4>3. QED
        BY <2>1, <2>2, <4>2
    <3> HIDE DEF got
    <3>2. x = Put(SpillTo(got, h, Fresh(w), n), h, Held(w, h))
      BY <1>8, <1>10, <3>1 DEF F, S
    <3>3. got.b = [w.b EXCEPT ![Fresh(w)] = Cellof(n, {})] /\ w.h[h].count <= n /\ n \in Nat
      BY <1>2, <3>1 DEF F
    <3>4. Private(w, x, V, h)
      <4> HIDE DEF n
      <4>1. QED
        BY <1>6, <3>1, <3>2, <3>3, SpiltAndPut
    <3>5. QED
      BY <3>4 DEF x
  <2>5. QED
    BY <2>3, <2>4
<1>11. QED
  BY <1>9, <1>10

LEMMA MadeUnique ==
  ASSUME NEW w, NEW V, NEW h \in Handles, Sound(w, V), Unaliased(w, h), ~w.thrown
  PROVE  Private(w, MakeUnique(w, h), V, h)
<1>1. CASE w.h[h].owner = "borrowed"
  BY <1>1, BorrowedIsPrivate DEF MakeUnique
<1>2. CASE w.h[h].owner # "borrowed" /\ Unshared(w, h)
  <2>1. MakeUnique(w, h) = w
    BY <1>2 DEF MakeUnique
  <2>2. Own(w, h)
    BY <1>2, Sole
  <2>3. SameTale(w.h[h], w.h[h])
    BY DEF SameTale
  <2>4. QED
    BY <2>1, <2>2, <2>3 DEF Private
<1>3. CASE w.h[h].owner # "borrowed" /\ ~Unshared(w, h)
  BY <1>3, ClonedIsPrivate DEF MakeUnique
<1>4. QED
  BY <1>1, <1>2, <1>3

\* A smaller block for the same values.
LEMMA ShrunkIsSound ==
  ASSUME NEW w, NEW V, NEW h \in Handles, Sound(w, V), Unaliased(w, h), ~w.thrown
  PROVE  LET x == Shrunk(w, h) IN Sound(x, V) /\ ~x.thrown /\ x.m = w.m
<1> DEFINE n == w.h[h].count
           got == Allocated(w, n)
           x == Shrunk(w, h)
           y == Freed(got, w.h[h].at)
           z == Put(SpillTo(y, h, Fresh(w), n), h, Held(w, h))
<1>1. x = w \/ (Spilled(w, h) /\ Unshared(w, h) /\ ~got.thrown /\ x = z)
  BY DEF Shrunk
<1>2. CASE x = w
  BY <1>2
<1>3. CASE Spilled(w, h) /\ Unshared(w, h) /\ ~got.thrown /\ x = z
  <2> HIDE DEF x
  <2>1. w \in Worlds /\ w.h[h] \in Header /\ w.b \in [Blocks -> Cell]
    BY DEF Sound, Worlds
  <2>2. n \in Nat /\ n <= n
    BY <2>1 DEF Header
  <2>3. Fresh(w) \in Blocks
    BY FreshIsFree
  <2>4. w.left # 0
    BY <1>3, <2>1, <2>2, <2>3, AllocatedWorld
  <2>5. /\ got \in Worlds /\ got.h = w.h /\ got.m = w.m /\ got.thrown = w.thrown
        /\ got.b = [w.b EXCEPT ![Fresh(w)] = Cellof(n, {})]
    BY <2>1, <2>2, <2>3, <2>4, AllocatedWorld
  <2> HIDE DEF got
  <2>6. Freed(got, w.h[h].at) = Release(got, h)
    <3>1. Spilled(got, h) /\ got.h[h].owner # "borrowed"
      BY <1>3, <2>5 DEF Spilled, Unshared
    <3>2. CASE counted /\ got.h[h].owner = "shared"
      <4>1. w.b[w.h[h].at].rc = 1
        BY <1>3, <3>2 DEF Unshared
      <4>2. w.h[h].at \in Blocks /\ w.h[h].at # Fresh(w)
        <5>1. Placed(w.h[h], w.b) /\ w.h[h].owner # "borrowed"
          BY <1>3 DEF Sound, Unshared
        <5>2. w.h[h].at \in Blocks
          BY <1>3, <2>1, <5>1 DEF Header, Placed, Spilled
        <5>3. QED
          BY <5>2, FreshIsFree
      <4>3. got.b[w.h[h].at].rc = 1
        BY <2>1, <2>5, <4>1, <4>2
      <4>4. QED
        BY <2>5, <3>1, <3>2, <4>3 DEF Release, LetGo
    <3>3. CASE ~(counted /\ got.h[h].owner = "shared")
      BY <2>5, <3>1, <3>3 DEF Release
    <3>4. QED
      BY <3>2, <3>3
  <2> DEFINE B == Release(w, h).b
  <2>7. Cellof(n, {}) \in Cell
    BY <2>2 DEF Cellof, Cell
  <2>8. /\ y \in Worlds /\ y.h = w.h /\ y.m = w.m /\ y.thrown = w.thrown
        /\ y.b = [B EXCEPT ![Fresh(w)] = Cellof(n, {})]
    BY <2>5, <2>6, <2>7, LetsGoBeside
  <2>9. Vacated(w, B, h)
    BY LetsGo
  <2> HIDE DEF B, y
  <2>10. x = Put(SpillTo(y, h, Fresh(w), n), h, Held(w, h)) /\ w.h[h].count <= n
    BY <1>3, <2>2
  <2>11. Private(w, x, V, h) /\ ~x.thrown
    <3> HIDE DEF n
    <3>1. QED
      BY <2>2, <2>8, <2>9, <2>10, SpiltAndPut
  <2>12. QED
    BY <2>11 DEF Private, x
<1>4. QED
  BY <1>1, <1>2, <1>3

-----------------------------------------------------------------------------
(***************************************************************************)
(* The writes of a handle alone on its payload.                            *)
(***************************************************************************)
\* A call leaves S in h, or, when it was refused an allocation, what there was.
Done(w, x, V, h, S) ==
  x.m = w.m /\ IF x.thrown THEN Sound(x, V) ELSE Sound(x, [V EXCEPT ![h] = S])

LEMMA RefusedIsSound ==
  ASSUME NEW w, NEW x, NEW V, Sound(w, V), x \in Worlds, x.h = w.h, x.b = w.b, x.m = w.m
  PROVE  Sound(x, V)
<1>1. \A g : Held(x, g) = Held(w, g)
  BY DEF Held
<1>2. QED
  BY <1>1 DEF Sound

LEMMA RewrittenHeld ==
  ASSUME NEW w \in Worlds, NEW x, NEW h \in Handles, NEW S, Rewrites(w, x, h, S),
         w.h[h].at \notin Images
  PROVE  Held(x, h) = S
<1>1. w.h[h] \in Header /\ w.b \in [Blocks -> Cell] /\ x.h[h].at = w.h[h].at
  BY DEF Worlds, Rewrites
<1>2. CASE w.h[h].at = Inline
  <2>1. x.h[h].at = Inline /\ x.h[h].here = S
    BY <1>2 DEF Rewrites
  <2>2. QED
    BY <2>1, HeldHere
<1>3. CASE w.h[h].at \in Blocks
  <2>1. x.h[h].at \in Blocks /\ x.b[x.h[h].at].values = S
    BY <1>1, <1>3 DEF Rewrites, Cell
  <2>2. QED
    BY <2>1, HeldOnBlock
<1>4. QED
  BY <1>1, <1>2, <1>3 DEF Header

LEMMA OwnIsWritable ==
  ASSUME NEW w, NEW V, NEW h \in Handles, Sound(w, V), Own(w, h)
  PROVE  /\ w \in Worlds /\ w.h[h] \in Header /\ w.h[h].at \notin Images
         /\ Held(w, h) = V[h] /\ V[h] \in SUBSET Values /\ Tells(w.h[h], V[h])
         /\ w.h[h].count <= w.h[h].capacity
<1>1. w \in Worlds /\ Held(w, h) = V[h] /\ V \in [Handles -> SUBSET Values]
      /\ Placed(w.h[h], w.b) /\ Tells(w.h[h], V[h])
  BY DEF Sound
<1>2. QED
  BY <1>1 DEF Worlds, Placed, Own

\* The payload with its count.
LEMMA AssignRewrites ==
  ASSUME NEW w, NEW V, NEW h \in Handles, Sound(w, V), Own(w, h), NEW S \in SUBSET Values
  PROVE  /\ Rewrites(w, Assign(w, h, S), h, S)
         /\ Assign(w, h, S).h[h].count = CountOf(w.h[h].kind, S)
         /\ Assign(w, h, S).h[h].card = w.h[h].card
         /\ Assign(w, h, S).h[h].exact = w.h[h].exact
         /\ Assign(w, h, S).h[h].ends = w.h[h].ends
<1> DEFINE p == Put(w, h, S)
           n == CountOf(w.h[h].kind, S)
           q == SetCount(p, h, n)
<1>1. w \in Worlds /\ w.h[h].at \notin Images /\ w.h[h] \in Header
  BY OwnIsWritable
<1>2. PICK here \in SUBSET Values : p.h[h] = [w.h[h] EXCEPT !.here = here]
  BY <1>1, PutRewrites
<1>3. Rewrites(w, p, h, S)
  BY <1>1, PutRewrites
<1>4. n \in Nat
  <2>1. w.h[h].kind \in {"array", "run", "bitset"}
    BY <1>1 DEF Header
  <2>2. QED
    BY <2>1, Counts
<1>5. p \in Worlds
  BY <1>3 DEF Rewrites
<1> HIDE DEF p, n
<1>6. Edits(p, q, h) /\ q.h[h].count = n /\ q.h[h].card = p.h[h].card
      /\ q.h[h].exact = p.h[h].exact /\ q.h[h].ends = p.h[h].ends
  BY <1>4, <1>5, CountSet
<1>7. p.h[h] \in Header
  BY <1>5 DEF Worlds
<1>8. /\ q.h[h].count = n /\ q.h[h].card = w.h[h].card
      /\ q.h[h].exact = w.h[h].exact /\ q.h[h].ends = w.h[h].ends
  BY <1>1, <1>2, <1>6, <1>7 DEF Header
<1>9. Rewrites(w, q, h, S)
  BY <1>1, <1>3, <1>6, RewritesEdited
<1>10. q = Assign(w, h, S)
  BY DEF Assign, p, n
<1>11. QED
  BY <1>8, <1>9, <1>10 DEF n

LEMMA EndsAreEndpoints ==
  ASSUME NEW S \in SUBSET Values, S # {}
  PROVE  Ends(S) \in Endpoints
  BY EndsBound DEF Endpoints

\* Endpoints taken from the values tell the truth about them.
LEMMA EndsTell ==
  ASSUME NEW r, NEW S \in SUBSET Values, S # {}, r.ends = Ends(S)
  PROVE  \A v \in S : r.ends[1] <= v /\ v <= r.ends[2]
<1>1. /\ r.ends[1] = Min(S) /\ r.ends[2] = Max(S)
      /\ \A v \in S : Min(S) <= v /\ v <= Max(S)
  BY EndsBound
<1>2. QED
  BY <1>1

LEMMA ExactTells ==
  ASSUME NEW r, NEW S \in SUBSET Values, r.count = CountOf(r.kind, S),
         r.card = Cardinality(S), r.exact, S # {} => r.ends = Ends(S)
  PROVE  Tells(r, S)
<1>1. Cardinality(S) \in Nat
  BY Counts
<1>2. r.ends # Nothing => \A v \in S : r.ends[1] <= v /\ v <= r.ends[2]
  <2>1. CASE S = {}
    BY <2>1
  <2>2. CASE S # {}
    BY <2>2, EndsTell
  <2>3. QED
    BY <2>1, <2>2
<1>3. r.card \in 0..Cardinality(S)
  BY <1>1
<1>4. QED
  BY <1>2, <1>3 DEF Tells

LEMMA WrittenIsSound ==
  ASSUME NEW w, NEW V, NEW h \in Handles, Sound(w, V), Own(w, h), ~w.thrown,
         NEW S \in SUBSET Values, CountOf(w.h[h].kind, S) <= w.h[h].capacity
  PROVE  /\ Sound(Written(w, h, S), [V EXCEPT ![h] = S]) /\ Own(Written(w, h, S), h)
         /\ ~Written(w, h, S).thrown /\ Written(w, h, S).m = w.m
<1> DEFINE q == Assign(w, h, S)
           n == Cardinality(S)
           p == SetCardinality(q, h, n)
           y == IF S = {} THEN p ELSE SetEnds(p, h, Ends(S))
           x == Written(w, h, S)
<1>1. w \in Worlds /\ w.h[h].at \notin Images /\ w.h[h] \in Header
  BY OwnIsWritable
<1>2. Rewrites(w, q, h, S) /\ q.h[h].count = CountOf(w.h[h].kind, S)
  BY AssignRewrites
<1>3. Held(q, h) = S /\ q \in Worlds /\ q.h[h] \in Header
  <2> HIDE DEF q
  <2>1. Held(q, h) = S
    BY <1>1, <1>2, RewrittenHeld
  <2>2. q \in Worlds
    BY <1>2 DEF Rewrites
  <2>3. q.h[h] \in Header
    BY <2>2 DEF Worlds
  <2>4. QED
    BY <2>1, <2>2, <2>3
<1> HIDE DEF q
<1>4. x = y
  BY <1>3 DEF Written, SyncHeader, q
<1>5. n \in Int
  BY Counts
<1> HIDE DEF n
<1>6. Edits(q, p, h) /\ p.h[h].card = n /\ p.h[h].exact
      /\ p.h[h].count = q.h[h].count
  <2>1. q \in Worlds
    BY <1>3
  <2>2. QED
    BY <1>5, <2>1, CardinalitySet
<1>7. p.h[h].card = n /\ p.h[h].exact /\ p.h[h].count = q.h[h].count
      /\ p \in Worlds /\ p.h[h] \in Header
  BY <1>3, <1>6 DEF Header, Edits, Worlds
<1> HIDE DEF p, x
<1>8. /\ Rewrites(w, y, h, S) /\ y.h[h].card = n /\ y.h[h].exact
      /\ y.h[h].count = q.h[h].count /\ (S # {} => y.h[h].ends = Ends(S))
  <2>1. CASE S = {}
    <3>1. y = p
      BY <2>1
    <3>2. Rewrites(w, p, h, S)
      BY <1>1, <1>2, <1>6, RewritesEdited
    <3>3. QED
      BY <1>7, <2>1, <3>1, <3>2
  <2>2. CASE S # {}
    <3> DEFINE z == SetEnds(p, h, Ends(S))
    <3>1. y = z
      BY <2>2
    <3>2. /\ Edits(p, z, h) /\ z.h[h].ends = Ends(S) /\ z.h[h].card = p.h[h].card
          /\ z.h[h].exact = p.h[h].exact /\ z.h[h].count = p.h[h].count
      BY <1>7, <2>2, EndsAreEndpoints, EndsSet
    <3> HIDE DEF z, y
    <3>3. Rewrites(w, z, h, S)
      BY <1>1, <1>2, <1>6, <3>2, RewritesEdited
    <3>4. /\ z.h[h].card = n /\ z.h[h].exact
          /\ z.h[h].count = q.h[h].count /\ z.h[h].ends = Ends(S)
      BY <1>7, <3>2 DEF Header
    <3>5. QED
      BY <3>1, <3>3, <3>4
  <2>3. QED
    BY <2>1, <2>2
<1> HIDE DEF y
<1>9. y.h[h].kind = w.h[h].kind /\ y.h[h].capacity = w.h[h].capacity
      /\ y.m = w.m /\ y.thrown = w.thrown
  BY <1>8 DEF Rewrites
<1>10. Tells(y.h[h], S)
  BY <1>2, <1>8, <1>9, ExactTells DEF n
<1>11. y.h[h].count <= y.h[h].capacity
  BY <1>2, <1>8, <1>9
<1>12. Sound(y, [V EXCEPT ![h] = S]) /\ Own(y, h)
  BY <1>8, <1>10, <1>11, InPlace
<1>13. QED
  BY <1>4, <1>9, <1>12 DEF x

LEMMA EnsuredWritten ==
  ASSUME NEW w, NEW V, NEW h \in Handles, Sound(w, V), Own(w, h), ~w.thrown,
         NEW S \in SUBSET Values, NEW required \in Nat, CountOf(w.h[h].kind, S) <= required
  PROVE  Done(w, Written(Ensure(w, h, required), h, S), V, h, S)
<1> DEFINE e == Ensure(w, h, required)
<1>1. Private(w, e, V, h) /\ (~e.thrown => e.h[h].capacity >= required)
  BY EnsuredIsPrivate
<1> HIDE DEF e
<1>2. CASE e.thrown
  <2>1. Written(e, h, S) = e
    BY <1>2 DEF Written
  <2>2. e \in Worlds /\ e.h = w.h /\ e.b = w.b /\ e.m = w.m
    BY <1>1, <1>2 DEF Private
  <2>3. Sound(e, V)
    BY <2>2, RefusedIsSound
  <2>4. QED
    BY <1>2, <2>1, <2>2, <2>3 DEF Done, e
<1>3. CASE ~e.thrown
  <2>1. Sound(e, V) /\ Own(e, h) /\ SameTale(e.h[h], w.h[h]) /\ e.m = w.m
    BY <1>1, <1>3 DEF Private
  <2>2. CountOf(e.h[h].kind, S) <= e.h[h].capacity
    <3>1. e.h[h].kind = w.h[h].kind /\ e.h[h].capacity >= required
      BY <1>1, <1>3, <2>1 DEF SameTale
    <3>2. e.h[h] \in Header /\ e.h[h].capacity \in Nat
      BY <2>1, OwnIsWritable DEF Header
    <3>3. CountOf(e.h[h].kind, S) \in Nat
      BY <3>2, Counts DEF Header
    <3>4. QED
      BY <3>1, <3>2, <3>3
  <2>3. /\ Sound(Written(e, h, S), [V EXCEPT ![h] = S])
        /\ ~Written(e, h, S).thrown /\ Written(e, h, S).m = e.m
    BY <1>3, <2>1, <2>2, WrittenIsSound
  <2>4. QED
    BY <2>1, <2>3 DEF Done, e
<1>4. QED
  BY <1>2, <1>3

\* Cardinalities of what a call adds and removes.
LEMMA Sizes ==
  ASSUME NEW S \in SUBSET Values, NEW T \in SUBSET Values
  PROVE  /\ S \cup T \in SUBSET Values /\ S \ T \in SUBSET Values
         /\ Cardinality(S \cup T) = Cardinality(S) + Cardinality(T \ S)
         /\ Cardinality(S \cup T) <= Cardinality(S) + Cardinality(T)
         /\ Cardinality(S \ T) = Cardinality(S) - Cardinality(T \cap S)
         /\ S \subseteq T => Cardinality(S) <= Cardinality(T)
<1>1. IsFiniteSet(S) /\ IsFiniteSet(T) /\ IsFiniteSet(T \ S) /\ IsFiniteSet(S \ T)
      /\ IsFiniteSet(T \cap S)
  <2>1. T \ S \in SUBSET Values /\ S \ T \in SUBSET Values /\ T \cap S \in SUBSET Values
    OBVIOUS
  <2>2. QED
    BY <2>1, Counts
<1>2. Cardinality(S) \in Nat /\ Cardinality(T) \in Nat /\ Cardinality(T \ S) \in Nat
      /\ Cardinality(S \ T) \in Nat /\ Cardinality(T \cap S) \in Nat
  BY <1>1, FS_CardinalityType
<1>3. Cardinality(S \cup T) = Cardinality(S) + Cardinality(T \ S)
  <2>1. S \cap (T \ S) = {} /\ S \cup T = S \cup (T \ S)
    OBVIOUS
  <2>2. Cardinality(S \cup (T \ S)) = Cardinality(S) + Cardinality(T \ S) - Cardinality(S \cap (T \ S))
    BY <1>1, FS_Union
  <2>3. Cardinality({}) = 0
    BY FS_EmptySet
  <2>4. QED
    BY <1>2, <2>1, <2>2, <2>3
<1>4. Cardinality(S \ T) = Cardinality(S) - Cardinality(T \cap S)
  <2> DEFINE A == S \ T
             C == T \cap S
  <2>1. A \cap C = {} /\ A \cup C = S
    OBVIOUS
  <2>2. IsFiniteSet(A) /\ IsFiniteSet(C) /\ Cardinality(A) \in Nat /\ Cardinality(C) \in Nat
    BY <1>1, <1>2
  <2> HIDE DEF A, C
  <2>3. Cardinality(A \cup C) = Cardinality(A) + Cardinality(C) - Cardinality(A \cap C)
    BY <2>2, FS_Union
  <2>4. Cardinality(A \cap C) = 0
    BY <2>1, FS_EmptySet
  <2>5. Cardinality(A \cup C) = Cardinality(S)
    BY <2>1
  <2>6. Cardinality(A) = Cardinality(S) - Cardinality(C)
    BY <1>2, <2>2, <2>3, <2>4, <2>5
  <2>7. QED
    BY <2>6 DEF A, C
<1>5. Cardinality(T \ S) <= Cardinality(T)
  BY <1>1, FS_Subset
<1>6. S \subseteq T => Cardinality(S) <= Cardinality(T)
  BY <1>1, FS_Subset
<1>7. QED
  BY <1>2, <1>3, <1>4, <1>5, <1>6

LEMMA OneIsCounted ==
  ASSUME NEW v \in Values
  PROVE  {v} \in SUBSET Values /\ Cardinality({v}) = 1
  BY FS_Singleton

\* What a header that tells of an array or of runs says.
LEMMA ArrayTells ==
  ASSUME NEW r, NEW S \in SUBSET Values, Tells(r, S), r.kind # "bitset"
  PROVE  /\ r.kind = "array" => r.count = Cardinality(S)
         /\ r.kind = "run" => r.count = Cardinality(RunsOf(S))
         /\ r.card = Cardinality(S) /\ (S # {} => r.ends = Ends(S))
  BY Counts DEF Tells

LEMMA UntouchedIsDone ==
  ASSUME NEW w, NEW V, NEW h \in Handles, Sound(w, V), ~w.thrown
  PROVE  Done(w, w, V, h, V[h])
<1>1. V \in [Handles -> SUBSET Values]
  BY DEF Sound
<1>2. [V EXCEPT ![h] = V[h]] = V
  BY <1>1
<1>3. QED
  BY <1>2 DEF Done

LEMMA AppendedEnds ==
  ASSUME NEW S \in SUBSET Values, NEW v \in Values, S # {}, \A u \in S : u < v
  PROVE  <<Ends(S)[1], v>> = Ends(S \cup {v}) /\ Ends(S \cup {v}) \in Endpoints
<1> DEFINE T == S \cup {v}
<1>1. T \in SUBSET Values /\ T # {}
  OBVIOUS
<1>2. /\ Min(T) \in T /\ Max(T) \in T /\ \A u \in T : Min(T) <= u /\ u <= Max(T)
  BY <1>1, EndsBound
<1>3. /\ Ends(S)[1] = Min(S) /\ Min(S) \in S /\ \A u \in S : Min(S) <= u
  BY EndsBound
<1>4. \A u \in Values : u \in Int
  BY DEF Values
<1>5. Max(T) = v
  <2>1. v \in T
    OBVIOUS
  <2>2. v <= Max(T) /\ (Max(T) \in S \/ Max(T) = v)
    BY <1>2, <2>1
  <2>3. Max(T) \in Int /\ v \in Int
    BY <1>1, <1>2, <1>4
  <2>4. QED
    BY <2>2, <2>3
<1>6. Min(T) = Min(S)
  <2>1. Min(S) \in T /\ Min(S) < v
    BY <1>3
  <2>2. Min(T) <= Min(S) /\ (Min(T) \in S \/ Min(T) = v)
    BY <1>2, <2>1
  <2>3. Min(T) \in Int /\ Min(S) \in Int /\ v \in Int
    BY <1>1, <1>2, <1>3, <1>4
  <2>4. QED
    BY <1>3, <2>1, <2>2, <2>3
<1>7. QED
  BY <1>1, <1>3, <1>5, <1>6, EndsAreEndpoints DEF Ends

LEMMA ArrayAddDone ==
  ASSUME NEW w, NEW V, NEW h \in Handles, Sound(w, V), Own(w, h), ~w.thrown,
         NEW v \in Values, w.h[h].kind = "array"
  PROVE  Done(w, ArrayAdd(w, h, v), V, h, V[h] \cup {v})
<1> DEFINE S == V[h]
           T == S \cup {v}
           n == w.h[h].count
           e == Ensure(w, h, n + 1)
           q == Assign(e, h, T)
           p == SetCardinality(q, h, n + 1)
           z == SetEnds(p, h, <<w.h[h].ends[1], v>>)
           x == ArrayAdd(w, h, v)
<1>1. /\ w \in Worlds /\ w.h[h] \in Header /\ Held(w, h) = S /\ S \in SUBSET Values
      /\ Tells(w.h[h], S) /\ n <= w.h[h].capacity
  BY OwnIsWritable
<1>2. n = Cardinality(S) /\ n \in Nat /\ (S # {} => w.h[h].ends = Ends(S))
  BY <1>1, ArrayTells, Counts
<1>3. x = IF v \in S THEN w
          ELSE IF e.thrown THEN e
          ELSE IF S # {} /\ \A u \in S : u < v THEN z
          ELSE SyncHeader(q, h)
  BY <1>1 DEF ArrayAdd
<1> HIDE DEF x
<1>4. CASE v \in S
  <2>1. x = w /\ T = S
    BY <1>3, <1>4
  <2>2. QED
    BY <2>1, UntouchedIsDone DEF x
<1>5. CASE v \notin S
  <2>1. T \in SUBSET Values /\ Cardinality(T) = n + 1 /\ T # {}
    <3>1. {v} \ S = {v} /\ {v} \in SUBSET Values /\ Cardinality({v}) = 1
      BY <1>5, OneIsCounted
    <3>2. T \in SUBSET Values /\ Cardinality(T) = Cardinality(S) + Cardinality({v} \ S)
      BY <1>1, <3>1, Sizes
    <3>3. QED
      BY <1>2, <3>1, <3>2
  <2>2. CountOf(w.h[h].kind, T) = n + 1
    BY <2>1, Counts
  <2>3. Done(w, Written(e, h, T), V, h, T)
    BY <1>2, <2>1, <2>2, EnsuredWritten
  <2>4. CASE e.thrown
    <3>1. x = e /\ Written(e, h, T) = e
      BY <1>3, <1>5, <2>4 DEF Written
    <3>2. QED
      BY <2>3, <3>1 DEF x
  <2>5. CASE ~e.thrown /\ ~(S # {} /\ \A u \in S : u < v)
    <3>1. x = SyncHeader(q, h)
      BY <1>3, <1>5, <2>5
    <3>2. x = Written(e, h, T)
      BY <2>5, <3>1 DEF Written
    <3>3. QED
      BY <2>3, <3>2 DEF x
  <2>6. CASE ~e.thrown /\ S # {} /\ \A u \in S : u < v
    <3>1. x = z
      BY <1>3, <1>5, <2>6
    <3>2. Sound(e, V) /\ Own(e, h) /\ SameTale(e.h[h], w.h[h]) /\ e.m = w.m
          /\ e.h[h].capacity >= n + 1
      <4>1. Private(w, e, V, h) /\ (~e.thrown => e.h[h].capacity >= n + 1)
        BY <1>2, EnsuredIsPrivate
      <4>2. QED
        BY <2>6, <4>1 DEF Private
    <3> HIDE DEF e, T
    <3>3. e \in Worlds /\ e.h[h].kind = "array"
      BY <3>2 DEF SameTale, Sound
    <3>4. Rewrites(e, q, h, T) /\ q.h[h].count = n + 1
      <4>1. Rewrites(e, q, h, T) /\ q.h[h].count = CountOf(e.h[h].kind, T)
        BY <2>1, <3>2, AssignRewrites
      <4>2. QED
        BY <2>2, <3>3, <4>1
    <3>5. q \in Worlds
      BY <3>4 DEF Rewrites
    <3> HIDE DEF q
    <3>6. n + 1 \in Int
      BY <1>2
    <3>7. Edits(q, p, h) /\ p.h[h].card = n + 1 /\ p.h[h].exact
          /\ p.h[h].count = q.h[h].count
      BY <3>5, <3>6, CardinalityNamed
    <3>8. p.h[h].count = n + 1
      BY <3>4, <3>7
    <3> HIDE DEF p
    <3>9. p \in Worlds
      BY <3>7 DEF Edits
    <3>10. <<w.h[h].ends[1], v>> = Ends(T) /\ Ends(T) \in Endpoints
      BY <1>1, <1>2, <2>6, AppendedEnds DEF T
    <3>11. z = SetEnds(p, h, Ends(T))
      BY <3>10
    <3> HIDE DEF z
    <3>12. /\ Edits(p, z, h) /\ z.h[h].ends = Ends(T) /\ z.h[h].card = p.h[h].card
           /\ z.h[h].exact = p.h[h].exact /\ z.h[h].count = p.h[h].count
      BY <3>9, <3>10, <3>11, EndsSet
    <3>13. Rewrites(e, z, h, T)
      BY <3>3, <3>4, <3>7, <3>12, RewritesEdited
    <3>14. z.h[h].kind = "array" /\ z.h[h].capacity = e.h[h].capacity /\ z.m = e.m
           /\ z.thrown = e.thrown
      BY <3>3, <3>13 DEF Rewrites
    <3>15. Tells(z.h[h], T)
      <4>1. z.h[h].count = CountOf(z.h[h].kind, T)
        BY <2>1, <3>7, <3>8, <3>12, <3>14, Counts
      <4>2. z.h[h].card = Cardinality(T) /\ z.h[h].exact /\ z.h[h].ends = Ends(T)
        BY <2>1, <3>7, <3>12
      <4>3. QED
        BY <2>1, <4>1, <4>2, ExactTells
    <3>16. z.h[h].count <= z.h[h].capacity
      <4>1. e.h[h].capacity \in Nat
        BY <3>3 DEF Worlds, Header
      <4>2. QED
        BY <1>2, <3>2, <3>8, <3>12, <3>14, <4>1
    <3>17. Sound(z, [V EXCEPT ![h] = T])
      BY <2>1, <3>2, <3>13, <3>15, <3>16, InPlace
    <3>18. Done(w, x, V, h, T)
      BY <2>6, <3>1, <3>2, <3>14, <3>17 DEF Done
    <3>19. QED
      BY <3>18 DEF x, T
  <2>7. QED
    BY <2>4, <2>5, <2>6
<1>6. QED
  BY <1>4, <1>5


LEMMA ArrayAddAllDone ==
  ASSUME NEW w, NEW V, NEW h \in Handles, Sound(w, V), Own(w, h), ~w.thrown,
         NEW T \in SUBSET Values, w.h[h].kind = "array"
  PROVE  Done(w, ArrayAddAll(w, h, T), V, h, V[h] \cup T)
<1> DEFINE S == V[h]
           n == w.h[h].count + Cardinality(T)
<1>1. Held(w, h) = S /\ S \in SUBSET Values /\ Tells(w.h[h], S)
  BY OwnIsWritable
<1>2. w.h[h].count = Cardinality(S) /\ Cardinality(S) \in Nat /\ Cardinality(T) \in Nat
  BY <1>1, ArrayTells, Counts
<1>3. CASE T = {}
  <2>1. ArrayAddAll(w, h, T) = w /\ S \cup T = S
    BY <1>3 DEF ArrayAddAll
  <2>2. QED
    BY <2>1, UntouchedIsDone
<1>4. CASE T # {}
  <2>1. S \cup T \in SUBSET Values /\ Cardinality(S \cup T) <= Cardinality(S) + Cardinality(T)
    BY <1>1, Sizes
  <2>2. CountOf(w.h[h].kind, S \cup T) <= n /\ n \in Nat
    BY <1>2, <2>1, Counts
  <2>3. ArrayAddAll(w, h, T) = Written(Ensure(w, h, n), h, S \cup T)
    BY <1>1, <1>4 DEF ArrayAddAll
  <2> HIDE DEF n
  <2>4. Done(w, Written(Ensure(w, h, n), h, S \cup T), V, h, S \cup T)
    BY <2>1, <2>2, EnsuredWritten
  <2>5. QED
    BY <2>3, <2>4
<1>5. QED
  BY <1>3, <1>4

LEMMA WrittenIsDone ==
  ASSUME NEW w, NEW V, NEW h \in Handles, Sound(w, V), Own(w, h), ~w.thrown,
         NEW S \in SUBSET Values, CountOf(w.h[h].kind, S) <= w.h[h].capacity
  PROVE  Done(w, Written(w, h, S), V, h, S)
  BY WrittenIsSound DEF Done

LEMMA ArrayRemoveAllDone ==
  ASSUME NEW w, NEW V, NEW h \in Handles, Sound(w, V), Own(w, h), ~w.thrown,
         NEW T \in SUBSET Values, w.h[h].kind = "array"
  PROVE  Done(w, ArrayRemoveAll(w, h, T), V, h, V[h] \ T)
<1> DEFINE S == V[h]
<1>1. Held(w, h) = S /\ S \in SUBSET Values /\ Tells(w.h[h], S)
      /\ w.h[h].count <= w.h[h].capacity /\ w.h[h] \in Header
  BY OwnIsWritable
<1>2. w.h[h].count = Cardinality(S) /\ Cardinality(S) \in Nat
  BY <1>1, ArrayTells, Counts
<1>3. CASE T \cap S = {}
  <2>1. ArrayRemoveAll(w, h, T) = w /\ S \ T = S
    BY <1>1, <1>3 DEF ArrayRemoveAll
  <2>2. QED
    BY <2>1, UntouchedIsDone
<1>4. CASE T \cap S # {}
  <2>1. S \ T \in SUBSET Values
    BY <1>1
  <2>2. Cardinality(S \ T) <= Cardinality(S) /\ Cardinality(S \ T) \in Nat
    BY <1>1, <2>1, Sizes, Counts
  <2>3. CountOf(w.h[h].kind, S \ T) = Cardinality(S \ T)
    BY <2>1, Counts
  <2>4. w.h[h].capacity \in Nat
    BY <1>1 DEF Header
  <2>5. CountOf(w.h[h].kind, S \ T) <= w.h[h].capacity
    BY <1>1, <1>2, <2>2, <2>3, <2>4
  <2>6. Done(w, Written(w, h, S \ T), V, h, S \ T)
    BY <2>1, <2>5, WrittenIsDone
  <2>7. QED
    BY <1>1, <1>4, <2>6 DEF ArrayRemoveAll
<1>5. QED
  BY <1>3, <1>4

LEMMA RunAssignDone ==
  ASSUME NEW w, NEW V, NEW h \in Handles, Sound(w, V), Own(w, h), ~w.thrown,
         NEW S \in SUBSET Values, w.h[h].kind = "run"
  PROVE  Done(w, RunAssign(w, h, S), V, h, S)
<1> DEFINE n == Cardinality(RunsOf(S))
<1>1. CountOf(w.h[h].kind, S) <= n /\ n \in Nat
  BY Counts
<1>2. RunAssign(w, h, S) = Written(Ensure(w, h, n), h, S)
  BY DEF RunAssign
<1> HIDE DEF n
<1>3. QED
  BY <1>1, <1>2, EnsuredWritten

LEMMA RunAddDone ==
  ASSUME NEW w, NEW V, NEW h \in Handles, Sound(w, V), Own(w, h), ~w.thrown,
         NEW v \in Values, w.h[h].kind = "run"
  PROVE  Done(w, RunAdd(w, h, v), V, h, V[h] \cup {v})
<1>1. Held(w, h) = V[h] /\ V[h] \cup {v} \in SUBSET Values
  BY OwnIsWritable
<1>2. QED
  BY <1>1, RunAssignDone DEF RunAdd

LEMMA RunRemoveAllDone ==
  ASSUME NEW w, NEW V, NEW h \in Handles, Sound(w, V), Own(w, h), ~w.thrown,
         NEW T \in SUBSET Values, w.h[h].kind = "run"
  PROVE  Done(w, RunRemoveAll(w, h, T), V, h, V[h] \ T)
<1>1. Held(w, h) = V[h] /\ V[h] \in SUBSET Values /\ V[h] \ T \in SUBSET Values
      /\ Tells(w.h[h], V[h])
  BY OwnIsWritable
<1>2. CASE w.h[h].count = 0
  <2>1. V[h] = {}
    BY <1>1, <1>2, ArrayTells, Counts
  <2>2. RunRemoveAll(w, h, T) = w /\ V[h] \ T = V[h]
    BY <1>2, <2>1 DEF RunRemoveAll
  <2>3. QED
    BY <2>2, UntouchedIsDone
<1>3. CASE w.h[h].count # 0
  <2>1. RunRemoveAll(w, h, T) = RunAssign(w, h, V[h] \ T)
    BY <1>1, <1>3 DEF RunRemoveAll
  <2>2. QED
    BY <1>1, <2>1, RunAssignDone
<1>4. QED
  BY <1>2, <1>3


-----------------------------------------------------------------------------
(***************************************************************************)
(* The writes into a bitset, whose counts and endpoints may be late.       *)
(***************************************************************************)
\* Writing the payload leaves the header as it was.
LEMMA PutKeeps ==
  ASSUME NEW w \in Worlds, NEW h \in Handles, NEW S \in SUBSET Values,
         w.h[h].at \notin Images
  PROVE  /\ Rewrites(w, Put(w, h, S), h, S) /\ Put(w, h, S) \in Worlds
         /\ Put(w, h, S).h[h].count = w.h[h].count
         /\ Put(w, h, S).h[h].card = w.h[h].card
         /\ Put(w, h, S).h[h].exact = w.h[h].exact
         /\ Put(w, h, S).h[h].ends = w.h[h].ends
<1> DEFINE p == Put(w, h, S)
<1>1. Rewrites(w, p, h, S) /\ w.h[h] \in Header
  BY PutRewrites DEF Worlds
<1>2. PICK here \in SUBSET Values : p.h[h] = [w.h[h] EXCEPT !.here = here]
  BY PutRewrites
<1>3. p \in Worlds
  BY <1>1 DEF Rewrites
<1> HIDE DEF p
<1>4. /\ p.h[h].count = w.h[h].count /\ p.h[h].card = w.h[h].card
      /\ p.h[h].exact = w.h[h].exact /\ p.h[h].ends = w.h[h].ends
  BY <1>1, <1>2 DEF Header
<1>5. QED
  BY <1>1, <1>3, <1>4 DEF p

\* The values with a new count.
LEMMA PutAdjusted ==
  ASSUME NEW w \in Worlds, NEW h \in Handles, NEW S \in SUBSET Values, NEW delta \in Int,
         w.h[h].at \notin Images, NEW y, y = Adjust(Put(w, h, S), h, delta)
  PROVE  /\ Rewrites(w, y, h, S) /\ y \in Worlds
         /\ y.h[h].count = w.h[h].count /\ y.h[h].card = w.h[h].card + delta
         /\ y.h[h].exact = w.h[h].exact /\ y.h[h].ends = w.h[h].ends
<1> DEFINE p == Put(w, h, S)
<1>1. /\ Rewrites(w, p, h, S) /\ p \in Worlds
      /\ p.h[h].count = w.h[h].count /\ p.h[h].card = w.h[h].card
      /\ p.h[h].exact = w.h[h].exact /\ p.h[h].ends = w.h[h].ends
  BY PutKeeps
<1>2. y = Adjust(p, h, delta)
  OBVIOUS
<1> HIDE DEF p
<1>3. /\ Edits(p, y, h) /\ y.h[h].count = p.h[h].count /\ y.h[h].card = p.h[h].card + delta
      /\ y.h[h].exact = p.h[h].exact /\ y.h[h].ends = p.h[h].ends
  BY <1>1, <1>2, CardinalityAdjusted
<1>4. Rewrites(w, y, h, S)
  BY <1>1, <1>3, RewritesEdited
<1>5. y \in Worlds
  BY <1>4 DEF Rewrites
<1>6. QED
  BY <1>1, <1>3, <1>4, <1>5

\* The endpoints after a write.
LEMMA EndsAfter ==
  ASSUME NEW w \in Worlds, NEW h \in Handles, NEW S, NEW x \in Worlds, Rewrites(w, x, h, S),
         NEW e \in Endpoints, NEW y, y = SetEnds(x, h, e)
  PROVE  /\ Rewrites(w, y, h, S) /\ y \in Worlds
         /\ y.h[h].count = x.h[h].count /\ y.h[h].card = x.h[h].card
         /\ y.h[h].exact = x.h[h].exact /\ y.h[h].ends = e
<1>1. /\ Edits(x, y, h) /\ y.h[h].count = x.h[h].count /\ y.h[h].card = x.h[h].card
      /\ y.h[h].exact = x.h[h].exact /\ y.h[h].ends = e
  BY EndsSet
<1>2. Rewrites(w, y, h, S)
  BY <1>1, RewritesEdited
<1>3. y \in Worlds
  BY <1>2 DEF Rewrites
<1>4. QED
  BY <1>1, <1>2, <1>3

LEMMA BitsetTells ==
  ASSUME NEW r, NEW S \in SUBSET Values, r.kind = "bitset", r.count = WordCount,
         r.card \in 0..Cardinality(S), r.exact => r.card = Cardinality(S),
         r.ends # Nothing => \A v \in S : r.ends[1] <= v /\ v <= r.ends[2]
  PROVE  Tells(r, S)
  BY Counts DEF Tells

LEMMA BitsetRewritten ==
  ASSUME NEW w, NEW V, NEW h \in Handles, Sound(w, V), Own(w, h), ~w.thrown,
         w.h[h].kind = "bitset", NEW S \in SUBSET Values, NEW y, Rewrites(w, y, h, S),
         y.h[h].count = w.h[h].count, y.h[h].card \in 0..Cardinality(S),
         y.h[h].exact => y.h[h].card = Cardinality(S),
         y.h[h].ends # Nothing => \A v \in S : y.h[h].ends[1] <= v /\ v <= y.h[h].ends[2]
  PROVE  Done(w, y, V, h, S) /\ Sound(y, [V EXCEPT ![h] = S]) /\ Own(y, h) /\ ~y.thrown
<1>1. /\ w \in Worlds /\ Tells(w.h[h], V[h]) /\ V[h] \in SUBSET Values
      /\ w.h[h].count <= w.h[h].capacity
  BY OwnIsWritable
<1>2. w.h[h].count = WordCount
  BY <1>1, Counts DEF Tells
<1>3. y.h[h].kind = "bitset" /\ y.h[h].capacity = w.h[h].capacity /\ y.m = w.m
      /\ y.thrown = w.thrown
  BY DEF Rewrites
<1>4. Tells(y.h[h], S)
  BY <1>2, <1>3, BitsetTells
<1>5. y.h[h].count <= y.h[h].capacity
  BY <1>1, <1>3
<1>6. Sound(y, [V EXCEPT ![h] = S]) /\ Own(y, h)
  BY <1>4, <1>5, InPlace
<1>7. QED
  BY <1>3, <1>6 DEF Done

\* What the header of a bitset says.
LEMMA BitsetSays ==
  ASSUME NEW w, NEW V, NEW h \in Handles, Sound(w, V), Own(w, h)
  PROVE  /\ w \in Worlds /\ w.h[h] \in Header /\ w.h[h].at \notin Images /\ Held(w, h) = V[h]
         /\ V[h] \in SUBSET Values /\ w.h[h].card \in Int
         /\ w.h[h].card \in 0..Cardinality(V[h])
         /\ w.h[h].exact => w.h[h].card = Cardinality(V[h])
         /\ w.h[h].ends # Nothing =>
              \A v \in V[h] : w.h[h].ends[1] <= v /\ v <= w.h[h].ends[2]
         /\ w.h[h].ends # Nothing => w.h[h].ends[1] \in Int /\ w.h[h].ends[2] \in Int
<1>1. /\ w \in Worlds /\ w.h[h] \in Header /\ w.h[h].at \notin Images /\ Held(w, h) = V[h]
      /\ V[h] \in SUBSET Values /\ Tells(w.h[h], V[h])
  BY OwnIsWritable
<1>2. w.h[h].card \in Int /\ w.h[h].ends \in Endpoints
  BY <1>1 DEF Header
<1>3. w.h[h].ends # Nothing => w.h[h].ends[1] \in Int /\ w.h[h].ends[2] \in Int
  BY <1>2 DEF Endpoints
<1>4. QED
  BY <1>1, <1>2, <1>3 DEF Tells

LEMMA NothingIsEndpoints == Nothing \in Endpoints
  BY DEF Endpoints


LEMMA BitsetAddDone ==
  ASSUME NEW w, NEW V, NEW h \in Handles, Sound(w, V), Own(w, h), ~w.thrown,
         NEW v \in Values, w.h[h].kind = "bitset"
  PROVE  Done(w, BitsetAdd(w, h, v), V, h, V[h] \cup {v})
<1> DEFINE S == V[h]
           T == S \cup {v}
           p == Adjust(Put(w, h, T), h, 1)
           x == BitsetAdd(w, h, v)
<1>1. /\ w \in Worlds /\ w.h[h].at \notin Images /\ Held(w, h) = S /\ S \in SUBSET Values
      /\ w.h[h].card \in 0..Cardinality(S) /\ w.h[h].card \in Int
      /\ w.h[h].exact => w.h[h].card = Cardinality(S)
  BY BitsetSays
<1>2. CASE v \in S
  <2>1. x = w /\ T = S
    BY <1>1, <1>2 DEF BitsetAdd
  <2>2. QED
    BY <2>1, UntouchedIsDone DEF x
<1>3. CASE v \notin S
  <2>1. T \in SUBSET Values
    BY <1>1
  <2>2. Cardinality(T) = Cardinality(S) + 1 /\ Cardinality(S) \in Nat
    <3>1. {v} \ S = {v} /\ {v} \in SUBSET Values /\ Cardinality({v}) = 1
      BY <1>3, OneIsCounted
    <3>2. Cardinality(T) = Cardinality(S) + Cardinality({v} \ S)
      BY <1>1, <3>1, Sizes
    <3>3. QED
      BY <1>1, <3>1, <3>2, Counts
  <2>3. x = SetEnds(p, h, Nothing)
    BY <1>1, <1>3 DEF BitsetAdd
  <2> HIDE DEF T
  <2>4. /\ Rewrites(w, p, h, T) /\ p \in Worlds
        /\ p.h[h].count = w.h[h].count /\ p.h[h].card = w.h[h].card + 1
        /\ p.h[h].exact = w.h[h].exact
    BY <1>1, <2>1, PutAdjusted
  <2> HIDE DEF p, x
  <2>5. /\ Rewrites(w, x, h, T) /\ x.h[h].count = p.h[h].count /\ x.h[h].card = p.h[h].card
        /\ x.h[h].exact = p.h[h].exact /\ x.h[h].ends = Nothing
    BY <1>1, <2>3, <2>4, EndsAfter, NothingIsEndpoints
  <2>6. x.h[h].card \in 0..Cardinality(T)
    BY <1>1, <2>2, <2>4, <2>5
  <2>7. x.h[h].exact => x.h[h].card = Cardinality(T)
    BY <1>1, <2>2, <2>4, <2>5
  <2>8. Done(w, x, V, h, T)
    BY <2>1, <2>4, <2>5, <2>6, <2>7, BitsetRewritten
  <2>9. QED
    BY <2>8 DEF x, T
<1>4. QED
  BY <1>2, <1>3

LEMMA WiderEnds ==
  ASSUME NEW S \in SUBSET Values, NEW T \in SUBSET Values, T # {}, NEW e,
         e[1] \in Int, e[2] \in Int, \A v \in S : e[1] <= v /\ v <= e[2],
         NEW f, f = <<Min({e[1], Min(T)}), Max({e[2], Max(T)})>>
  PROVE  f \in Endpoints /\ \A v \in S \cup T : f[1] <= v /\ v <= f[2]
<1>1. /\ Min(T) \in T /\ Max(T) \in T /\ \A v \in T : Min(T) <= v /\ v <= Max(T)
  BY EndsBound
<1>2. Min(T) \in Int /\ Max(T) \in Int /\ \A v \in S \cup T : v \in Int
  <2>1. \A v \in S \cup T : v \in Int
    BY DEF Values
  <2>2. QED
    BY <1>1, <2>1
<1> DEFINE lo == Min({e[1], Min(T)})
           hi == Max({e[2], Max(T)})
<1>3. lo \in Int /\ lo <= e[1] /\ lo <= Min(T)
  BY <1>2, LeastOfTwo
<1>4. hi \in Int /\ hi >= e[2] /\ hi >= Max(T)
  BY <1>2, LeastOfTwo
<1>5. f = <<lo, hi>>
  OBVIOUS
<1> HIDE DEF lo, hi
<1>6. f \in Endpoints /\ f[1] = lo /\ f[2] = hi
  BY <1>3, <1>4, <1>5 DEF Endpoints
<1>7. ASSUME NEW v \in S \cup T PROVE lo <= v /\ v <= hi
  <2>1. CASE v \in S
    <3>1. e[1] <= v /\ v <= e[2] /\ v \in Int
      BY <1>2, <2>1
    <3>2. QED
      BY <1>3, <1>4, <3>1
  <2>2. CASE v \in T
    <3>1. Min(T) <= v /\ v <= Max(T) /\ v \in Int
      BY <1>1, <1>2, <2>2
    <3>2. QED
      BY <1>2, <1>3, <1>4, <3>1
  <2>3. QED
    BY <2>1, <2>2
<1>8. QED
  BY <1>6, <1>7

LEMMA BitsetAddAllDone ==
  ASSUME NEW w, NEW V, NEW h \in Handles, Sound(w, V), Own(w, h), ~w.thrown,
         NEW T \in SUBSET Values, w.h[h].kind = "bitset"
  PROVE  Done(w, BitsetAddAll(w, h, T), V, h, V[h] \cup T)
<1> DEFINE S == V[h]
           U == S \cup T
           d == Cardinality(T \ S)
           e == w.h[h].ends
           p == Adjust(Put(w, h, U), h, d)
           f == <<Min({e[1], Min(T)}), Max({e[2], Max(T)})>>
           x == BitsetAddAll(w, h, T)
<1>1. /\ w \in Worlds /\ w.h[h].at \notin Images /\ Held(w, h) = S /\ S \in SUBSET Values
      /\ w.h[h].card \in 0..Cardinality(S) /\ w.h[h].card \in Int
      /\ w.h[h].exact => w.h[h].card = Cardinality(S)
      /\ e # Nothing => \A v \in S : e[1] <= v /\ v <= e[2]
      /\ e # Nothing => e[1] \in Int /\ e[2] \in Int
  BY BitsetSays
<1>2. CASE T \subseteq S
  <2>1. x = w /\ U = S
    BY <1>1, <1>2 DEF BitsetAddAll
  <2>2. QED
    BY <2>1, UntouchedIsDone DEF x
<1>3. CASE ~(T \subseteq S)
  <2>1. U \in SUBSET Values /\ T # {} /\ T \ S \in SUBSET Values
    BY <1>1, <1>3
  <2>2. Cardinality(U) = Cardinality(S) + d /\ Cardinality(S) \in Nat /\ d \in Nat
    BY <1>1, <2>1, Sizes, Counts
  <2>3. x = IF w.h[h].exact /\ w.h[h].card = 0 THEN SetEnds(p, h, Ends(T))
            ELSE IF e = Nothing THEN p ELSE SetEnds(p, h, f)
    BY <1>1, <1>3 DEF BitsetAddAll
  <2> HIDE DEF U, d
  <2>4. d \in Int
    BY <2>2
  <2>5. /\ Rewrites(w, p, h, U) /\ p \in Worlds
        /\ p.h[h].count = w.h[h].count /\ p.h[h].card = w.h[h].card + d
        /\ p.h[h].exact = w.h[h].exact /\ p.h[h].ends = e
    BY <1>1, <2>1, <2>4, PutAdjusted
  <2> HIDE DEF p, x
  <2>6. p.h[h].card \in 0..Cardinality(U)
    BY <1>1, <2>2, <2>5
  <2>7. p.h[h].exact => p.h[h].card = Cardinality(U)
    BY <1>1, <2>2, <2>5
  <2>8. ASSUME NEW g \in Endpoints, x = SetEnds(p, h, g),
               g # Nothing => \A v \in U : g[1] <= v /\ v <= g[2]
        PROVE  Done(w, x, V, h, U)
    <3>1. /\ Rewrites(w, x, h, U) /\ x.h[h].count = p.h[h].count /\ x.h[h].card = p.h[h].card
          /\ x.h[h].exact = p.h[h].exact /\ x.h[h].ends = g
      BY <1>1, <2>5, <2>8, EndsAfter
    <3>2. /\ x.h[h].count = w.h[h].count /\ x.h[h].card \in 0..Cardinality(U)
          /\ x.h[h].exact => x.h[h].card = Cardinality(U)
          /\ x.h[h].ends # Nothing => \A v \in U : x.h[h].ends[1] <= v /\ v <= x.h[h].ends[2]
      BY <2>5, <2>6, <2>7, <2>8, <3>1
    <3>3. QED
      BY <2>1, <3>1, <3>2, BitsetRewritten
  <2>9. CASE w.h[h].exact /\ w.h[h].card = 0
    <3>1. S = {} /\ U = T
      BY <1>1, <2>9, Counts DEF U
    <3>2. x = SetEnds(p, h, Ends(T)) /\ Ends(T) \in Endpoints
      BY <2>1, <2>3, <2>9, EndsAreEndpoints
    <3> DEFINE g == Ends(T)
    <3>3. \A v \in U : g[1] <= v /\ v <= g[2]
      BY <2>1, <3>1, EndsBound
    <3>4. g \in Endpoints /\ x = SetEnds(p, h, g)
      BY <3>2
    <3> HIDE DEF g
    <3>5. QED
      BY <2>8, <3>3, <3>4 DEF x, U
  <2>10. CASE ~(w.h[h].exact /\ w.h[h].card = 0) /\ e = Nothing
    <3>1. x = p
      BY <2>3, <2>10
    <3>2. p.h[h].ends # Nothing =>
            \A v \in U : p.h[h].ends[1] <= v /\ v <= p.h[h].ends[2]
      BY <2>5, <2>10
    <3>3. Done(w, p, V, h, U)
      BY <2>1, <2>5, <2>6, <2>7, <3>2, BitsetRewritten
    <3>4. QED
      BY <3>1, <3>3 DEF x, U
  <2>11. CASE ~(w.h[h].exact /\ w.h[h].card = 0) /\ e # Nothing
    <3>1. x = SetEnds(p, h, f)
      BY <2>3, <2>11
    <3>2. e[1] \in Int /\ e[2] \in Int /\ \A v \in S : e[1] <= v /\ v <= e[2]
      BY <1>1, <2>11
    <3> HIDE DEF e
    <3>3. f \in Endpoints /\ \A v \in S \cup T : f[1] <= v /\ v <= f[2]
      BY <1>1, <2>1, <3>2, WiderEnds
    <3> HIDE DEF f
    <3>4. QED
      BY <2>8, <3>1, <3>3 DEF x, U
  <2>12. QED
    BY <2>9, <2>10, <2>11
<1>4. QED
  BY <1>2, <1>3


LEMMA BitsetRemovedDone ==
  ASSUME NEW w, NEW V, NEW h \in Handles, Sound(w, V), Own(w, h), ~w.thrown,
         NEW T \in SUBSET Values, w.h[h].kind = "bitset", w.h[h].card = Cardinality(V[h])
  PROVE  Done(w, BitsetRemoved(w, h, T), V, h, V[h] \ T)
<1> DEFINE S == V[h]
           U == S \ T
           d == Cardinality(T \cap S)
           e == w.h[h].ends
           p == Adjust(Put(w, h, U), h, -d)
           x == BitsetRemoved(w, h, T)
<1>1. /\ w \in Worlds /\ w.h[h].at \notin Images /\ Held(w, h) = S /\ S \in SUBSET Values
      /\ w.h[h].card \in Int /\ w.h[h].card = Cardinality(S)
      /\ e # Nothing => \A v \in S : e[1] <= v /\ v <= e[2]
  BY BitsetSays
<1>2. CASE T \cap S = {}
  <2>1. x = w /\ U = S
    BY <1>1, <1>2 DEF BitsetRemoved
  <2>2. QED
    BY <2>1, UntouchedIsDone DEF x
<1>3. CASE T \cap S # {}
  <2>1. U \in SUBSET Values /\ T \cap S \in SUBSET Values
    BY <1>1
  <2>2. Cardinality(U) = Cardinality(S) - d /\ Cardinality(U) \in Nat
        /\ Cardinality(S) \in Nat /\ d \in Nat
    <3>1. Cardinality(U) = Cardinality(S) - d
      BY <1>1, Sizes
    <3>2. Cardinality(U) \in Nat
      BY <2>1, Counts
    <3>3. Cardinality(S) \in Nat
      BY <1>1, Counts
    <3>4. d \in Nat
      BY <2>1, Counts
    <3>5. QED
      BY <3>1, <3>2, <3>3, <3>4
  <2>3. x = IF e # Nothing /\ (Min(T) <= e[1] \/ Max(T) >= e[2])
            THEN SetEnds(p, h, Nothing) ELSE p
    BY <1>1, <1>3 DEF BitsetRemoved
  <2>4. \A v \in U : v \in S
    OBVIOUS
  <2> HIDE DEF U, d
  <2> DEFINE k == -d
  <2>5. k \in Int /\ w.h[h].card + k = Cardinality(U)
    BY <1>1, <2>2
  <2>6. p = Adjust(Put(w, h, U), h, k)
    OBVIOUS
  <2> HIDE DEF k, p
  <2>7. /\ Rewrites(w, p, h, U) /\ p \in Worlds
        /\ p.h[h].count = w.h[h].count /\ p.h[h].card = w.h[h].card + k
        /\ p.h[h].exact = w.h[h].exact /\ p.h[h].ends = e
    BY <1>1, <2>1, <2>5, <2>6, PutAdjusted
  <2> HIDE DEF x
  <2>8. p.h[h].card = Cardinality(U) /\ p.h[h].card \in 0..Cardinality(U)
    BY <2>2, <2>5, <2>7
  <2>9. CASE x = SetEnds(p, h, Nothing)
    <3>1. /\ Rewrites(w, x, h, U) /\ x.h[h].count = p.h[h].count /\ x.h[h].card = p.h[h].card
          /\ x.h[h].ends = Nothing
      BY <1>1, <2>7, <2>9, EndsAfter, NothingIsEndpoints
    <3>2. /\ x.h[h].count = w.h[h].count /\ x.h[h].card \in 0..Cardinality(U)
          /\ x.h[h].card = Cardinality(U)
      BY <2>7, <2>8, <3>1
    <3>3. Done(w, x, V, h, U)
      BY <2>1, <3>1, <3>2, BitsetRewritten
    <3>4. QED
      BY <3>3 DEF x, U
  <2>10. CASE x = p
    <3>1. p.h[h].ends # Nothing =>
            \A v \in U : p.h[h].ends[1] <= v /\ v <= p.h[h].ends[2]
      BY <1>1, <2>4, <2>7
    <3>2. Done(w, p, V, h, U)
      BY <2>1, <2>7, <2>8, <3>1, BitsetRewritten
    <3>3. QED
      BY <2>10, <3>2 DEF x, U
  <2>11. QED
    BY <2>3, <2>9, <2>10
<1>4. QED
  BY <1>2, <1>3

\* Settling counts the words, and changes nothing else.
LEMMA SettledIsSound ==
  ASSUME NEW w, NEW V, NEW h \in Handles, Sound(w, V)
  PROVE  /\ Sound(Settled(w, h), V) /\ (\A g \in Handles : Own(w, g) => Own(Settled(w, h), g))
         /\ Settled(w, h).h[h].card = Cardinality(V[h])
         /\ Settled(w, h).h[h].kind = w.h[h].kind
         /\ Settled(w, h).m = w.m
<1> DEFINE S == V[h]
           n == Cardinality(S)
           x == Settled(w, h)
<1>1. /\ w \in Worlds /\ w.h[h] \in Header /\ Held(w, h) = S /\ S \in SUBSET Values
      /\ Tells(w.h[h], S) /\ w.h[h].count <= w.h[h].capacity
  BY DEF Sound, Worlds, Placed
<1>2. CASE w.h[h].exact
  <2>1. x = w
    BY <1>2 DEF Settled
  <2>2. w.h[h].card = Cardinality(S)
    BY <1>1, <1>2 DEF Tells
  <2>3. QED
    BY <2>1, <2>2 DEF x
<1>3. CASE ~w.h[h].exact
  <2>1. x = SetCardinality(w, h, n) /\ n \in Int /\ n \in Nat
    BY <1>1, <1>3, Counts DEF Settled
  <2> HIDE DEF n, x
  <2>2. /\ Edits(w, x, h) /\ x.h[h].count = w.h[h].count /\ x.h[h].card = n
        /\ x.h[h].exact /\ x.h[h].ends = w.h[h].ends
    BY <1>1, <2>1, CardinalitySet
  <2>3. x.h[h].kind = w.h[h].kind /\ x.h[h].capacity = w.h[h].capacity
        /\ (x.thrown <=> w.thrown) /\ x.m = w.m
    BY <2>2 DEF Edits
  <2>4. w.h[h].kind = "bitset"
    BY <1>1, <1>3 DEF Tells
  <2>5. Tells(x.h[h], S)
    <3>1. x.h[h].kind = "bitset" /\ x.h[h].count = WordCount
      BY <1>1, <2>2, <2>3, <2>4, Counts DEF Tells
    <3>2. x.h[h].card \in 0..Cardinality(S) /\ x.h[h].card = Cardinality(S)
      BY <2>1, <2>2 DEF n
    <3>3. x.h[h].ends # Nothing => \A v \in S : x.h[h].ends[1] <= v /\ v <= x.h[h].ends[2]
      BY <1>1, <2>2 DEF Tells
    <3>4. QED
      BY <1>1, <3>1, <3>2, <3>3, BitsetTells
  <2>6. x.h[h].count <= x.h[h].capacity
    BY <1>1, <2>2, <2>3
  <2>7. Sound(x, V) /\ \A g \in Handles : Own(w, g) => Own(x, g)
    BY <2>2, <2>5, <2>6, HeaderOnly
  <2>8. QED
    BY <2>2, <2>3, <2>7 DEF x, n
<1>4. QED
  BY <1>2, <1>3

LEMMA SettledThrows ==
  ASSUME NEW w \in Worlds, NEW h \in Handles
  PROVE  Settled(w, h).thrown <=> w.thrown
  BY DEF Settled, SetCardinality, Worlds

LEMMA BitsetRemoveAllDone ==
  ASSUME NEW w, NEW V, NEW h \in Handles, Sound(w, V), Own(w, h), ~w.thrown,
         NEW T \in SUBSET Values, w.h[h].kind = "bitset"
  PROVE  Done(w, BitsetRemoveAll(w, h, T), V, h, V[h] \ T)
<1> DEFINE s == Settled(w, h)
<1>1. Sound(s, V) /\ Own(s, h) /\ ~s.thrown /\ s.m = w.m /\ s.h[h].kind = "bitset"
      /\ s.h[h].card = Cardinality(V[h])
  <2>1. Sound(s, V) /\ s.m = w.m
    BY SettledIsSound
  <2>2. Own(s, h)
    BY SettledIsSound
  <2>3. s.h[h].card = Cardinality(V[h]) /\ s.h[h].kind = w.h[h].kind
    BY SettledIsSound
  <2>4. s.thrown <=> w.thrown
    BY SettledThrows DEF Sound
  <2> HIDE DEF s
  <2>5. QED
    BY <2>1, <2>2, <2>3, <2>4
<1>2. BitsetRemoveAll(w, h, T) = BitsetRemoved(s, h, T)
  BY DEF BitsetRemoveAll
<1> HIDE DEF s
<1>3. Done(s, BitsetRemoved(s, h, T), V, h, V[h] \ T)
  BY <1>1, BitsetRemovedDone
<1>4. QED
  BY <1>1, <1>2, <1>3 DEF Done

LEMMA BitsetRemoveDone ==
  ASSUME NEW w, NEW V, NEW h \in Handles, Sound(w, V), Own(w, h), ~w.thrown,
         NEW v \in Values, w.h[h].kind = "bitset"
  PROVE  Done(w, BitsetRemove(w, h, v), V, h, V[h] \ {v})
<1>1. Held(w, h) = V[h] /\ V[h] \in SUBSET Values
  BY BitsetSays
<1>2. CASE v \in V[h]
  <2>1. BitsetRemove(w, h, v) = BitsetRemoveAll(w, h, {v})
    BY <1>1, <1>2 DEF BitsetRemove, BitsetRemoveAll
  <2>2. {v} \in SUBSET Values
    OBVIOUS
  <2>3. QED
    BY <2>1, <2>2, BitsetRemoveAllDone
<1>3. CASE v \notin V[h]
  <2>1. BitsetRemove(w, h, v) = w /\ V[h] \ {v} = V[h]
    BY <1>1, <1>3 DEF BitsetRemove
  <2>2. QED
    BY <2>1, UntouchedIsDone
<1>4. QED
  BY <1>2, <1>3


\* The kernels of a fold leave the count to its repair.
Late(w, h) == [w EXCEPT !.h[h].exact = FALSE]
LateCount(w, h, n) == [w EXCEPT !.h[h].exact = FALSE, !.h[h].card = n]

LEMMA LateSet ==
  ASSUME NEW w \in Worlds, NEW h \in Handles, NEW n \in Int
  PROVE  /\ Edits(w, LateCount(w, h, n), h)
         /\ LateCount(w, h, n).h[h].count = w.h[h].count
         /\ LateCount(w, h, n).h[h].card = n
         /\ ~LateCount(w, h, n).h[h].exact
         /\ LateCount(w, h, n).h[h].ends = w.h[h].ends
<1> DEFINE r == [w.h[h] EXCEPT !.exact = FALSE, !.card = n]
<1>1. w.h[h] \in Header /\ w.h \in [Handles -> Header]
  BY DEF Worlds
<1>2. LateCount(w, h, n) = [w EXCEPT !.h = [w.h EXCEPT ![h] = r]]
  BY <1>1 DEF LateCount, Worlds
<1>3. /\ r \in Header /\ r.at = w.h[h].at /\ r.owner = w.h[h].owner
      /\ r.capacity = w.h[h].capacity /\ r.kind = w.h[h].kind /\ r.here = w.h[h].here
  BY <1>1 DEF Header
<1> DEFINE y == LateCount(w, h, n)
<1>4. y = [w EXCEPT !.h = [w.h EXCEPT ![h] = r]]
  BY <1>2
<1> HIDE DEF r, y
<1>5. Edits(w, y, h) /\ y.h[h] = r
  BY <1>3, <1>4, HeaderSet
<1>6. r.count = w.h[h].count /\ r.card = n /\ ~r.exact /\ r.ends = w.h[h].ends
  BY <1>1 DEF r, Header
<1>7. QED
  BY <1>5, <1>6 DEF y

LEMMA LateLeft ==
  ASSUME NEW w \in Worlds, NEW h \in Handles
  PROVE  /\ Edits(w, Late(w, h), h)
         /\ Late(w, h).h[h].count = w.h[h].count
         /\ Late(w, h).h[h].card = w.h[h].card
         /\ ~Late(w, h).h[h].exact
         /\ Late(w, h).h[h].ends = w.h[h].ends
<1> DEFINE r == [w.h[h] EXCEPT !.exact = FALSE]
<1>1. w.h[h] \in Header /\ w.h \in [Handles -> Header]
  BY DEF Worlds
<1>2. Late(w, h) = [w EXCEPT !.h = [w.h EXCEPT ![h] = r]]
  BY <1>1 DEF Late, Worlds
<1>3. /\ r \in Header /\ r.at = w.h[h].at /\ r.owner = w.h[h].owner
      /\ r.capacity = w.h[h].capacity /\ r.kind = w.h[h].kind /\ r.here = w.h[h].here
  BY <1>1 DEF Header
<1> DEFINE y == Late(w, h)
<1>4. y = [w EXCEPT !.h = [w.h EXCEPT ![h] = r]]
  BY <1>2
<1> HIDE DEF r, y
<1>5. Edits(w, y, h) /\ y.h[h] = r
  BY <1>3, <1>4, HeaderSet
<1>6. r.count = w.h[h].count /\ r.card = w.h[h].card /\ ~r.exact /\ r.ends = w.h[h].ends
  BY <1>1 DEF r, Header
<1>7. QED
  BY <1>5, <1>6 DEF y

\* Values with neither endpoints nor an exact count.
LEMMA LateIsDone ==
  ASSUME NEW w, NEW V, NEW h \in Handles, Sound(w, V), Own(w, h), ~w.thrown,
         w.h[h].kind = "bitset", NEW S \in SUBSET Values,
         NEW p, p = SetEnds(Put(w, h, S), h, Nothing), NEW x, Edits(p, x, h),
         x.h[h].count = p.h[h].count, x.h[h].card \in 0..Cardinality(S),
         ~x.h[h].exact, x.h[h].ends = p.h[h].ends
  PROVE  Done(w, x, V, h, S)
<1>1. w \in Worlds /\ w.h[h].at \notin Images
  BY BitsetSays
<1> DEFINE q == Put(w, h, S)
<1>2. Rewrites(w, q, h, S) /\ q \in Worlds /\ q.h[h].count = w.h[h].count
  BY <1>1, PutKeeps
<1>3. p = SetEnds(q, h, Nothing)
  OBVIOUS
<1> HIDE DEF q
<1>4. Rewrites(w, p, h, S) /\ p.h[h].count = q.h[h].count /\ p.h[h].ends = Nothing
  BY <1>1, <1>2, <1>3, EndsAfter, NothingIsEndpoints
<1>5. Rewrites(w, x, h, S)
  BY <1>1, <1>4, RewritesEdited
<1>6. x.h[h].count = w.h[h].count /\ x.h[h].ends = Nothing
  BY <1>2, <1>4
<1>7. QED
  BY <1>5, <1>6, BitsetRewritten

LEMMA PutAndEnds ==
  ASSUME NEW w, NEW V, NEW h \in Handles, Sound(w, V), Own(w, h), NEW S \in SUBSET Values,
         NEW p, p = SetEnds(Put(w, h, S), h, Nothing)
  PROVE  p \in Worlds /\ p.h[h].card = w.h[h].card
<1>1. w \in Worlds /\ w.h[h].at \notin Images
  BY BitsetSays
<1> DEFINE q == Put(w, h, S)
<1>2. Rewrites(w, q, h, S) /\ q \in Worlds /\ q.h[h].card = w.h[h].card
  BY <1>1, PutKeeps
<1>3. p = SetEnds(q, h, Nothing)
  OBVIOUS
<1> HIDE DEF q
<1>4. p \in Worlds /\ p.h[h].card = q.h[h].card
  BY <1>1, <1>2, <1>3, EndsAfter, NothingIsEndpoints
<1>5. QED
  BY <1>2, <1>4

LEMMA LazyUnionDone ==
  ASSUME NEW w, NEW V, NEW h \in Handles, Sound(w, V), Own(w, h), ~w.thrown,
         NEW T \in SUBSET Values, w.h[h].kind = "bitset"
  PROVE  Done(w, LazyUnion(w, h, T), V, h, V[h] \cup T)
<1> DEFINE S == V[h]
           U == S \cup T
           p == SetEnds(Put(w, h, U), h, Nothing)
           x == LazyUnion(w, h, T)
<1>1. /\ Held(w, h) = S /\ S \in SUBSET Values /\ w.h[h].card \in 0..Cardinality(S)
      /\ w.h[h].card \in Int
  BY BitsetSays
<1>2. x = Late(p, h)
  BY <1>1 DEF LazyUnion, Late
<1>3. U \in SUBSET Values
  BY <1>1
<1>4. Cardinality(S) <= Cardinality(U) /\ Cardinality(S) \in Nat /\ Cardinality(U) \in Nat
  <2>1. Cardinality(S) \in Nat /\ Cardinality(U) \in Nat
    BY <1>1, <1>3, Counts
  <2>2. Cardinality(S) <= Cardinality(U)
    BY <1>1, <1>3, Sizes
  <2>3. QED
    BY <2>1, <2>2
<1> HIDE DEF U
<1>5. p \in Worlds /\ p.h[h].card = w.h[h].card
  BY <1>3, PutAndEnds
<1> DEFINE z == p
<1>6. z = SetEnds(Put(w, h, U), h, Nothing) /\ z = p
  OBVIOUS
<1> HIDE DEF p, z, x
<1>7. Edits(p, x, h) /\ x.h[h].count = p.h[h].count /\ x.h[h].card = p.h[h].card
      /\ ~x.h[h].exact /\ x.h[h].ends = p.h[h].ends
  BY <1>2, <1>5, LateLeft
<1>8. x.h[h].card \in 0..Cardinality(U)
  BY <1>1, <1>4, <1>5, <1>7
<1>9. Done(w, x, V, h, U)
  BY <1>3, <1>6, <1>7, <1>8, LateIsDone
<1>10. QED
  BY <1>9 DEF x, U

LEMMA LazyXorDone ==
  ASSUME NEW w, NEW V, NEW h \in Handles, Sound(w, V), Own(w, h), ~w.thrown,
         NEW T \in SUBSET Values, w.h[h].kind = "bitset"
  PROVE  Done(w, LazyXor(w, h, T), V, h, SymDiff(V[h], T))
<1> DEFINE S == V[h]
           U == SymDiff(S, T)
           p == SetEnds(Put(w, h, U), h, Nothing)
           x == LazyXor(w, h, T)
<1>1. Held(w, h) = S /\ S \in SUBSET Values
  BY BitsetSays
<1>2. x = LateCount(p, h, 0)
  BY <1>1 DEF LazyXor, LateCount
<1>3. U \in SUBSET Values
  BY <1>1 DEF SymDiff
<1>4. Cardinality(U) \in Nat /\ 0 \in Int
  BY <1>3, Counts
<1> HIDE DEF U
<1>5. p \in Worlds
  BY <1>3, PutAndEnds
<1> DEFINE z == p
<1>6. z = SetEnds(Put(w, h, U), h, Nothing) /\ z = p
  OBVIOUS
<1> HIDE DEF p, z, x
<1>7. Edits(p, x, h) /\ x.h[h].count = p.h[h].count /\ x.h[h].card = 0
      /\ ~x.h[h].exact /\ x.h[h].ends = p.h[h].ends
  BY <1>2, <1>4, <1>5, LateSet
<1>8. x.h[h].card \in 0..Cardinality(U)
  BY <1>4, <1>7
<1>9. Done(w, x, V, h, U)
  BY <1>3, <1>6, <1>7, <1>8, LateIsDone
<1>10. QED
  BY <1>9 DEF x, U


\* Reading an endpoint computes both.
LEMMA EndsTold ==
  ASSUME NEW r, NEW s, NEW S \in SUBSET Values, Tells(r, S), s.count = r.count,
         s.card = r.card, s.exact = r.exact, s.kind = r.kind, S # {} => s.ends = Ends(S)
  PROVE  Tells(s, S)
<1>1. s.ends # Nothing => \A v \in S : s.ends[1] <= v /\ v <= s.ends[2]
  <2>1. CASE S = {}
    BY <2>1
  <2>2. CASE S # {}
    BY <2>2, EndsTell
  <2>3. QED
    BY <2>1, <2>2
<1>2. QED
  BY <1>1 DEF Tells

LEMMA EnsureEndsDone ==
  ASSUME NEW w, NEW V, NEW h \in Handles, Sound(w, V), ~w.thrown
  PROVE  Done(w, EnsureEnds(w, h), V, h, V[h])
<1> DEFINE S == V[h]
           e == IF S = {} THEN <<0, 0>> ELSE Ends(S)
           x == EnsureEnds(w, h)
<1>1. /\ w \in Worlds /\ Held(w, h) = S /\ S \in SUBSET Values
      /\ Tells(w.h[h], S) /\ w.h[h].count <= w.h[h].capacity
  BY DEF Sound, Placed
<1>2. x = w \/ x = SetEnds(w, h, e)
  BY <1>1 DEF EnsureEnds
<1>3. CASE x = w
  BY <1>3, UntouchedIsDone DEF x
<1>4. CASE x = SetEnds(w, h, e)
  <2>1. e \in Endpoints
    <3>1. CASE S = {}
      BY <3>1 DEF Endpoints
    <3>2. CASE S # {}
      BY <1>1, <3>2, EndsAreEndpoints
    <3>3. QED
      BY <3>1, <3>2
  <2>2. S # {} => e = Ends(S)
    OBVIOUS
  <2> HIDE DEF e, x
  <2>3. /\ Edits(w, x, h) /\ x.h[h].count = w.h[h].count /\ x.h[h].card = w.h[h].card
        /\ x.h[h].exact = w.h[h].exact /\ x.h[h].ends = e
    BY <1>1, <1>4, <2>1, EndsSet
  <2>4. x.h[h].kind = w.h[h].kind /\ x.h[h].capacity = w.h[h].capacity
        /\ x.m = w.m /\ x.thrown = w.thrown
    BY <2>3 DEF Edits
  <2>5. Tells(x.h[h], S)
    BY <1>1, <2>2, <2>3, <2>4, EndsTold
  <2>6. x.h[h].count <= x.h[h].capacity
    BY <1>1, <2>3, <2>4
  <2>7. Sound(x, V)
    BY <2>3, <2>5, <2>6, HeaderOnly
  <2>8. [V EXCEPT ![h] = V[h]] = V
    BY DEF Sound
  <2>9. QED
    BY <2>4, <2>7, <2>8 DEF Done, x
<1>5. QED
  BY <1>2, <1>3, <1>4

LEMMA SettledDone ==
  ASSUME NEW w, NEW V, NEW h \in Handles, Sound(w, V), ~w.thrown
  PROVE  Done(w, Settled(w, h), V, h, V[h])
<1> DEFINE x == Settled(w, h)
<1>1. Sound(x, V) /\ x.m = w.m
  BY SettledIsSound
<1>2. x.thrown <=> w.thrown
  BY SettledThrows DEF Sound
<1>3. [V EXCEPT ![h] = V[h]] = V
  BY DEF Sound
<1> HIDE DEF x
<1>4. Done(w, x, V, h, V[h])
  BY <1>1, <1>2, <1>3 DEF Done
<1>5. QED
  BY <1>4 DEF x

-----------------------------------------------------------------------------
(***************************************************************************)
(* A payload that is filled anew.                                          *)
(***************************************************************************)
LEMMA EditsRewritten ==
  ASSUME NEW w \in Worlds, NEW h \in Handles, NEW x, NEW y, NEW S,
         Edits(w, x, h), Rewrites(x, y, h, S)
  PROVE  Rewrites(w, y, h, S)
<1>1. w.h \in [Handles -> Header]
  BY DEF Worlds
<1>2. y.h = [w.h EXCEPT ![h] = y.h[h]]
  BY <1>1 DEF Rewrites, Edits
<1>3. QED
  BY <1>2 DEF Rewrites, Edits

\* The header of an empty array.
Emptied(w, h) == [w EXCEPT !.h[h].count = 0, !.h[h].card = 0, !.h[h].exact = TRUE]

LEMMA EmptiedSet ==
  ASSUME NEW w \in Worlds, NEW h \in Handles
  PROVE  /\ Edits(w, Emptied(w, h), h)
         /\ Emptied(w, h).h[h].count = 0
         /\ Emptied(w, h).h[h].card = 0
         /\ Emptied(w, h).h[h].exact
<1> DEFINE a == [w.h[h] EXCEPT !.count = 0]
           n == 0
           r == [a EXCEPT !.card = n, !.exact = TRUE]
<1>1. w.h[h] \in Header /\ w.h \in [Handles -> Header]
  BY DEF Worlds
<1>2. Emptied(w, h) = [w EXCEPT !.h = [w.h EXCEPT ![h] = r]]
  BY <1>1 DEF Emptied, Worlds
<1>3. a \in Header /\ a.at = w.h[h].at /\ a.owner = w.h[h].owner /\ a.count = 0
      /\ a.capacity = w.h[h].capacity /\ a.kind = w.h[h].kind /\ a.here = w.h[h].here
  BY <1>1 DEF Header
<1>n. n \in Int
  OBVIOUS
<1> HIDE DEF a, n
<1>4. /\ r \in Header /\ r.at = a.at /\ r.owner = a.owner
      /\ r.capacity = a.capacity /\ r.kind = a.kind /\ r.here = a.here
  BY <1>3, <1>n DEF Header
<1>5. r.count = 0 /\ r.card = n /\ r.exact
  BY <1>3 DEF Header
<1> DEFINE y == Emptied(w, h)
<1>6. y = [w EXCEPT !.h = [w.h EXCEPT ![h] = r]]
  BY <1>2
<1> HIDE DEF r, y
<1>7. Edits(w, y, h) /\ y.h[h] = r
  BY <1>3, <1>4, <1>6, HeaderSet
<1>8. QED
  BY <1>5, <1>7 DEF y, n

LEMMA ReusedBitsetDone ==
  ASSUME NEW w, NEW V, NEW h \in Handles, Sound(w, V), Own(w, h), ~w.thrown,
         NEW S \in SUBSET Values, w.h[h].kind = "bitset"
  PROVE  Done(w, ReusedBitset(w, h, S), V, h, S) /\ ~ReusedBitset(w, h, S).thrown
<1> DEFINE n == Cardinality(S)
           p == Put(w, h, S)
           q == SetCardinality(p, h, n)
           x == SetEnds(q, h, Nothing)
<1>1. w \in Worlds /\ w.h[h].at \notin Images /\ n \in Int /\ n \in Nat
  BY BitsetSays, Counts
<1>2. Rewrites(w, p, h, S) /\ p \in Worlds /\ p.h[h].count = w.h[h].count
  BY <1>1, PutKeeps
<1> HIDE DEF n, p
<1>3. Edits(p, q, h) /\ q.h[h].count = p.h[h].count /\ q.h[h].card = n
  BY <1>1, <1>2, CardinalitySet
<1> HIDE DEF q
<1>4. Rewrites(w, q, h, S) /\ q \in Worlds
  <2>1. Rewrites(w, q, h, S)
    BY <1>1, <1>2, <1>3, RewritesEdited
  <2>2. QED
    BY <2>1 DEF Rewrites
<1> HIDE DEF x
<1>5. Rewrites(w, x, h, S) /\ x.h[h].count = q.h[h].count /\ x.h[h].card = q.h[h].card
      /\ x.h[h].ends = Nothing
  BY <1>1, <1>4, EndsAfter, NothingIsEndpoints DEF x
<1>6. x.h[h].count = w.h[h].count /\ x.h[h].card = Cardinality(S)
      /\ x.h[h].card \in 0..Cardinality(S)
  BY <1>1, <1>2, <1>3, <1>5 DEF n
<1>7. Done(w, x, V, h, S) /\ ~x.thrown
  BY <1>5, <1>6, BitsetRewritten
<1>8. x = ReusedBitset(w, h, S)
  BY DEF ReusedBitset, x, q, p, n
<1>9. QED
  BY <1>7, <1>8

LEMMA ReusedArrayDone ==
  ASSUME NEW w, NEW V, NEW h \in Handles, Sound(w, V), Own(w, h), ~w.thrown,
         NEW S \in SUBSET Values, w.h[h].kind = "array"
  PROVE  LET x == ReusedArray(w, h, S) IN
           x.m = w.m /\ (~x.thrown => Sound(x, [V EXCEPT ![h] = S]))
<1> DEFINE z == Emptied(w, h)
           p == Put(z, h, {})
           n == Cardinality(S)
           N == [V EXCEPT ![h] = {}]
           x == ReusedArray(w, h, S)
<1>1. w \in Worlds /\ w.h[h].at \notin Images /\ w.h[h].count <= w.h[h].capacity
      /\ w.h[h] \in Header /\ V \in [Handles -> SUBSET Values]
  BY OwnIsWritable DEF Sound
<1>2. x = Written(Ensure(p, h, n), h, S)
  BY DEF ReusedArray, Emptied
<1>3. Edits(w, z, h) /\ z.h[h].count = 0 /\ z.h[h].card = 0 /\ z.h[h].exact
  BY <1>1, EmptiedSet
<1> HIDE DEF z
<1>4. z \in Worlds /\ z.h[h].at \notin Images
  BY <1>1, <1>3 DEF Edits
<1>5. Rewrites(z, p, h, {}) /\ p.h[h].count = 0 /\ p.h[h].card = 0 /\ (p.h[h].exact <=> z.h[h].exact)
  BY <1>3, <1>4, PutKeeps
<1> HIDE DEF p
<1>6. Rewrites(w, p, h, {})
  BY <1>1, <1>3, <1>5, EditsRewritten
<1>7. p.h[h].kind = "array" /\ p.h[h].capacity = w.h[h].capacity /\ p.m = w.m
      /\ (p.thrown <=> w.thrown)
  BY <1>6 DEF Rewrites
<1>8. Tells(p.h[h], {}) /\ p.h[h].count <= p.h[h].capacity
  <2>1. CountOf("array", {}) = 0 /\ Cardinality({}) = 0
    BY Counts
  <2>2. p.h[h].exact
    BY <1>3, <1>5
  <2>3. p.h[h].card \in 0..Cardinality({})
    BY <1>5, <2>1
  <2>4. w.h[h].capacity \in Nat
    BY <1>1 DEF Header
  <2>5. p.h[h].count <= p.h[h].capacity
    BY <1>5, <1>7, <2>4
  <2>6. QED
    BY <1>5, <1>7, <2>1, <2>2, <2>3, <2>5 DEF Tells
<1>9. Sound(p, N) /\ Own(p, h)
  BY <1>6, <1>8, InPlace
<1>10. n \in Nat /\ CountOf(p.h[h].kind, S) <= n
  BY <1>7, Counts
<1> HIDE DEF n
<1> DEFINE NS == [N EXCEPT ![h] = S]
<1>11. NS = [V EXCEPT ![h] = S]
  BY <1>1
<1> HIDE DEF N
<1>12. Done(p, Written(Ensure(p, h, n), h, S), N, h, S)
  BY <1>7, <1>9, <1>10, EnsuredWritten
<1>13. x.m = w.m /\ (~x.thrown => Sound(x, NS))
  <2> HIDE DEF x
  <2>1. QED
    BY <1>2, <1>7, <1>12 DEF Done
<1>14. QED
  BY <1>11, <1>13


-----------------------------------------------------------------------------
(***************************************************************************)
(* Each call after the write barrier, by the kind of container it meets.   *)
(***************************************************************************)
LEMMA BarrierThen ==
  ASSUME NEW w, NEW x, NEW y, NEW V, NEW h \in Handles, Sound(w, V), Private(w, x, V, h),
         NEW S, x.thrown => y = x, ~x.thrown => Done(x, y, V, h, S)
  PROVE  Done(w, y, V, h, S)
<1>1. CASE x.thrown
  <2>1. x \in Worlds /\ x.h = w.h /\ x.b = w.b /\ x.m = w.m
    BY <1>1 DEF Private
  <2>2. Sound(x, V)
    BY <2>1, RefusedIsSound
  <2>3. QED
    BY <1>1, <2>1, <2>2 DEF Done
<1>2. CASE ~x.thrown
  BY <1>2 DEF Private, Done
<1>3. QED
  BY <1>1, <1>2

LEMMA Kinds ==
  ASSUME NEW w, NEW V, NEW h \in Handles, Sound(w, V)
  PROVE  w.h[h].kind \in {"array", "run", "bitset"}
<1>1. w.h[h] \in Header
  BY DEF Sound, Worlds
<1>2. QED
  BY <1>1 DEF Header

LEMMA ContainerAddDone ==
  ASSUME NEW w, NEW V, NEW h \in Handles, Sound(w, V), Own(w, h), ~w.thrown, NEW v \in Values
  PROVE  Done(w, ContainerAdd(w, h, v), V, h, V[h] \cup {v})
<1>1. CASE w.h[h].kind = "array"
  <2>1. ContainerAdd(w, h, v) = ArrayAdd(w, h, v)
    BY <1>1 DEF ContainerAdd
  <2>2. QED
    BY <1>1, <2>1, ArrayAddDone
<1>2. CASE w.h[h].kind = "run"
  <2>1. ContainerAdd(w, h, v) = RunAdd(w, h, v)
    BY <1>2 DEF ContainerAdd
  <2>2. QED
    BY <1>2, <2>1, RunAddDone
<1>3. CASE w.h[h].kind = "bitset"
  <2>1. ContainerAdd(w, h, v) = BitsetAdd(w, h, v)
    BY <1>3 DEF ContainerAdd
  <2>2. QED
    BY <1>3, <2>1, BitsetAddDone
<1>4. QED
  BY <1>1, <1>2, <1>3, Kinds

LEMMA ContainerRemoveDone ==
  ASSUME NEW w, NEW V, NEW h \in Handles, Sound(w, V), Own(w, h), ~w.thrown, NEW v \in Values
  PROVE  Done(w, ContainerRemove(w, h, v), V, h, V[h] \ {v})
<1>0. {v} \in SUBSET Values
  OBVIOUS
<1>1. CASE w.h[h].kind = "array"
  <2>1. ContainerRemove(w, h, v) = ArrayRemoveAll(w, h, {v})
    BY <1>1 DEF ContainerRemove
  <2>2. QED
    BY <1>0, <1>1, <2>1, ArrayRemoveAllDone
<1>2. CASE w.h[h].kind = "run"
  <2>1. ContainerRemove(w, h, v) = RunRemoveAll(w, h, {v})
    BY <1>2 DEF ContainerRemove
  <2>2. QED
    BY <1>0, <1>2, <2>1, RunRemoveAllDone
<1>3. CASE w.h[h].kind = "bitset"
  <2>1. ContainerRemove(w, h, v) = BitsetRemove(w, h, v)
    BY <1>3 DEF ContainerRemove
  <2>2. QED
    BY <1>3, <2>1, BitsetRemoveDone
<1>4. QED
  BY <1>1, <1>2, <1>3, Kinds

LEMMA AddIsDone ==
  ASSUME NEW w, NEW V, NEW h \in Handles, Sound(w, V), Unaliased(w, h), ~w.thrown, NEW v \in Values
  PROVE  Done(w, ContainerAdd(MakeUnique(w, h), h, v), V, h, V[h] \cup {v})
<1> DEFINE x == MakeUnique(w, h)
           y == ContainerAdd(x, h, v)
<1>1. Private(w, x, V, h)
  BY MadeUnique
<1> HIDE DEF x
<1>2. x.thrown => y = x
  BY DEF ContainerAdd
<1>3. ASSUME ~x.thrown PROVE Done(x, y, V, h, V[h] \cup {v})
  <2>1. Sound(x, V) /\ Own(x, h)
    BY <1>1, <1>3 DEF Private
  <2>2. QED
    BY <1>3, <2>1, ContainerAddDone
<1> HIDE DEF y
<1>4. Done(w, y, V, h, V[h] \cup {v})
  BY <1>1, <1>2, <1>3, BarrierThen
<1>5. QED
  BY <1>4 DEF x, y

LEMMA RemoveIsDone ==
  ASSUME NEW w, NEW V, NEW h \in Handles, Sound(w, V), Unaliased(w, h), ~w.thrown, NEW v \in Values
  PROVE  Done(w, ContainerRemove(MakeUnique(w, h), h, v), V, h, V[h] \ {v})
<1> DEFINE x == MakeUnique(w, h)
           y == ContainerRemove(x, h, v)
<1>1. Private(w, x, V, h)
  BY MadeUnique
<1> HIDE DEF x
<1>2. x.thrown => y = x
  BY DEF ContainerRemove
<1>3. ASSUME ~x.thrown PROVE Done(x, y, V, h, V[h] \ {v})
  <2>1. Sound(x, V) /\ Own(x, h)
    BY <1>1, <1>3 DEF Private
  <2>2. QED
    BY <1>3, <2>1, ContainerRemoveDone
<1> HIDE DEF y
<1>4. Done(w, y, V, h, V[h] \ {v})
  BY <1>1, <1>2, <1>3, BarrierThen
<1>5. QED
  BY <1>4 DEF x, y

\* The call of RemoveAll.
LEMMA RemoveAllIsDone ==
  ASSUME NEW w, NEW V, NEW h \in Handles, Sound(w, V), Unaliased(w, h), ~w.thrown,
         w.h[h].kind # "run", NEW T \in SUBSET Values,
         NEW x, x = MakeUnique(w, h),
         NEW y, y = CASE x.thrown -> x
                      [] ~x.thrown /\ x.h[h].kind = "array" -> ArrayRemoveAll(x, h, T)
                      [] ~x.thrown /\ x.h[h].kind = "bitset" -> BitsetRemoveAll(x, h, T)
  PROVE  Done(w, y, V, h, V[h] \ T)
<1>1. Private(w, x, V, h)
  BY MadeUnique
<1>2. x.thrown => y = x
  OBVIOUS
<1>3. ASSUME ~x.thrown PROVE Done(x, y, V, h, V[h] \ T)
  <2>1. Sound(x, V) /\ Own(x, h) /\ x.h[h].kind = w.h[h].kind
    BY <1>1, <1>3 DEF Private, SameTale
  <2>2. x.h[h].kind = "array" \/ x.h[h].kind = "bitset"
    BY <2>1, Kinds
  <2>3. CASE x.h[h].kind = "array"
    <3>1. y = ArrayRemoveAll(x, h, T)
      BY <1>3, <2>3
    <3>2. QED
      BY <1>3, <2>1, <2>3, <3>1, ArrayRemoveAllDone
  <2>4. CASE x.h[h].kind = "bitset"
    <3>1. y = BitsetRemoveAll(x, h, T)
      BY <1>3, <2>4
    <3>2. QED
      BY <1>3, <2>1, <2>4, <3>1, BitsetRemoveAllDone
  <2>5. QED
    BY <2>2, <2>3, <2>4
<1>4. QED
  BY <1>1, <1>2, <1>3, BarrierThen

\* The calls of a fold.
LEMMA FoldIsDone ==
  ASSUME NEW w, NEW V, NEW h \in Handles, Sound(w, V), Unaliased(w, h), ~w.thrown,
         w.h[h].kind = "bitset", NEW T \in SUBSET Values,
         NEW x, x = MakeUnique(w, h)
  PROVE  /\ Done(w, IF x.thrown THEN x ELSE LazyUnion(x, h, T), V, h, V[h] \cup T)
         /\ Done(w, IF x.thrown THEN x ELSE LazyXor(x, h, T), V, h, SymDiff(V[h], T))
<1>1. Private(w, x, V, h)
  BY MadeUnique
<1>2. ~x.thrown => Sound(x, V) /\ Own(x, h) /\ x.h[h].kind = "bitset"
  BY <1>1 DEF Private, SameTale
<1>3. ~x.thrown => Done(x, LazyUnion(x, h, T), V, h, V[h] \cup T)
  BY <1>2, LazyUnionDone
<1>4. ~x.thrown => Done(x, LazyXor(x, h, T), V, h, SymDiff(V[h], T))
  BY <1>2, LazyXorDone
<1> DEFINE y == IF x.thrown THEN x ELSE LazyUnion(x, h, T)
           z == IF x.thrown THEN x ELSE LazyXor(x, h, T)
<1>5. /\ x.thrown => y = x
      /\ ~x.thrown => Done(x, y, V, h, V[h] \cup T)
      /\ x.thrown => z = x
      /\ ~x.thrown => Done(x, z, V, h, SymDiff(V[h], T))
  BY <1>3, <1>4
<1> HIDE DEF y, z
<1>6. Done(w, y, V, h, V[h] \cup T)
  BY <1>1, <1>5, BarrierThen
<1>7. Done(w, z, V, h, SymDiff(V[h], T))
  BY <1>1, <1>5, BarrierThen
<1>8. QED
  BY <1>6, <1>7 DEF y, z


-----------------------------------------------------------------------------
(***************************************************************************)
(* A group of values that goes into runs, in place or into a new block.    *)
(***************************************************************************)
\* The groups of T that S does not hold already.
Opened(S, T) == {g \in RunsOf(T) : ~(Group(T, g) \subseteq S)}

LEMMA OpenedRuns ==
  ASSUME NEW S \in SUBSET Values, NEW T \in SUBSET Values
  PROVE  /\ Cardinality(Opened(S, T)) \in Nat
         /\ Cardinality(Opened(S, T)) = 0 => T \subseteq S
         /\ Cardinality(RunsOf(S \cup T)) <= Cardinality(RunsOf(S)) + Cardinality(Opened(S, T))
<1> DEFINE U == S \cup T
           G == Opened(S, T)
           R == RunsOf(S)
<1>1. U \in SUBSET Values /\ G \in SUBSET Values /\ R \in SUBSET Values
      /\ RunsOf(U) \in SUBSET Values
  BY DEF Opened, RunsOf
<1>2. Cardinality(G) \in Nat /\ (Cardinality(G) = 0 <=> G = {}) /\ Cardinality(R) \in Nat
      /\ Cardinality(RunsOf(U)) \in Nat
  BY <1>1, Counts
<1>3. Cardinality(G) = 0 => T \subseteq S
  <2> SUFFICES ASSUME Cardinality(G) = 0, NEW u \in T PROVE u \in S
    OBVIOUS
  <2>1. G = {}
    BY <1>2
  <2>2. PICK g \in RunsOf(T) : u \in Group(T, g)
    BY FirstOfRun
  <2>3. Group(T, g) \subseteq S
    BY <2>1 DEF Opened
  <2>4. QED
    BY <2>2, <2>3
<1>4. RunsOf(U) \subseteq R \cup G
  <2> SUFFICES ASSUME NEW v \in U, v - 1 \notin U, v \notin R PROVE v \in G
    BY DEF RunsOf
  <2>1. v \in T /\ v \notin S /\ v \in RunsOf(T)
    BY DEF RunsOf
  <2>2. v \in Group(T, v)
    <3>1. v \in Int
      BY <2>1 DEF Values
    <3>2. \A x \in v..v : x = v
      BY <3>1
    <3>3. v >= v
      BY <3>1
    <3>4. v..v \subseteq T
      BY <2>1, <3>2
    <3>5. QED
      BY <2>1, <3>3, <3>4 DEF Group
  <2>3. QED
    BY <2>1, <2>2 DEF Opened
<1> HIDE DEF G, R, U
<1>5. Cardinality(R \cup G) <= Cardinality(R) + Cardinality(G) /\ R \cup G \in SUBSET Values
  BY <1>1, Sizes
<1>6. Cardinality(RunsOf(U)) <= Cardinality(R \cup G) /\ Cardinality(R \cup G) \in Nat
  <2>1. Cardinality(RunsOf(U)) <= Cardinality(R \cup G)
    BY <1>1, <1>4, <1>5, Sizes
  <2>2. Cardinality(R \cup G) \in Nat
    BY <1>5, Counts
  <2>3. QED
    BY <2>1, <2>2
<1>7. Cardinality(RunsOf(U)) <= Cardinality(R) + Cardinality(G)
  BY <1>2, <1>5, <1>6
<1>8. QED
  BY <1>2, <1>3, <1>7 DEF U, G, R

\* The counts and the endpoints a group leaves in the header.
LEMMA HeaderAdjusted ==
  ASSUME NEW p \in Worlds, NEW h \in Handles, NEW k \in Nat, NEW d \in Int, NEW e \in Endpoints,
         NEW z, z = SetEnds(Adjust(SetCount(p, h, k), h, d), h, e)
  PROVE  Edits(p, z, h) /\ z.h[h].count = k /\ z.h[h].card = p.h[h].card + d
         /\ z.h[h].exact = p.h[h].exact /\ z.h[h].ends = e
<1> DEFINE q == SetCount(p, h, k)
           a == Adjust(q, h, d)
<1>1. Edits(p, q, h) /\ q.h[h].count = k /\ q.h[h].card = p.h[h].card
      /\ q.h[h].exact = p.h[h].exact
  BY CountSet
<1> HIDE DEF q
<1>2. q \in Worlds
  BY <1>1 DEF Edits
<1>3. Edits(q, a, h) /\ a.h[h].count = q.h[h].count /\ a.h[h].card = q.h[h].card + d
      /\ a.h[h].exact = q.h[h].exact
  BY <1>2, CardinalityAdjusted
<1>4. z = SetEnds(a, h, e)
  BY DEF q
<1> HIDE DEF a
<1>5. a \in Worlds
  BY <1>3 DEF Edits
<1>6. Edits(a, z, h) /\ z.h[h].count = a.h[h].count /\ z.h[h].card = a.h[h].card
      /\ z.h[h].exact = a.h[h].exact /\ z.h[h].ends = e
  BY <1>4, <1>5, EndsSet
<1>7. Edits(p, z, h)
  BY <1>1, <1>3, <1>5, <1>6, EditsEdited
<1>8. QED
  BY <1>1, <1>3, <1>6, <1>7


\* Runs that are written with their counts and endpoints tell the truth.
LEMMA RunTells ==
  ASSUME NEW r, NEW s, NEW S \in SUBSET Values, NEW U \in SUBSET Values, U # {},
         Tells(s, S), s.kind = "run", r.kind = "run", r.exact = s.exact,
         r.count = Cardinality(RunsOf(U)), r.card = Cardinality(U), r.ends = Ends(U)
  PROVE  Tells(r, U)
<1>1. CountOf("run", U) = Cardinality(RunsOf(U)) /\ Cardinality(U) \in Nat
  BY Counts
<1>2. r.ends # Nothing => \A v \in U : r.ends[1] <= v /\ v <= r.ends[2]
  BY EndsTell
<1>3. r.card \in 0..Cardinality(U)
  BY <1>1
<1>4. QED
  BY <1>1, <1>2, <1>3 DEF Tells

LEMMA RunAddAllDone ==
  ASSUME NEW w, NEW V, NEW h \in Handles, Sound(w, V), Unaliased(w, h), ~w.thrown,
         NEW T \in SUBSET Values, w.h[h].kind = "run"
  PROVE  Done(w, RunAddAll(w, h, T), V, h, V[h] \cup T)
<1> DEFINE S == V[h]
           U == S \cup T
           k == Cardinality(RunsOf(U))
           d == Cardinality(T \ S)
           n == w.h[h].count
           o == Cardinality(Opened(S, T))
           fits == n + o <= w.h[h].capacity
           c == IF fits THEN w.h[h].capacity ELSE Max({n + o, 2 * w.h[h].capacity})
           got == Allocated(w, c)
           home == IF fits /\ Unshared(w, h) THEN w
                   ELSE IF got.thrown THEN got
                   ELSE SpillTo(Release(got, h), h, Fresh(w), c)
           x == RunAddAll(w, h, T)
<1>1. /\ w \in Worlds /\ w.h[h] \in Header /\ w.h \in [Handles -> Header] /\ Held(w, h) = S
      /\ S \in SUBSET Values /\ Tells(w.h[h], S) /\ V \in [Handles -> SUBSET Values]
      /\ n <= w.h[h].capacity /\ w.h[h].capacity \in Nat /\ n \in Nat
  <2>1. /\ w \in Worlds /\ Held(w, h) = S /\ Tells(w.h[h], S) /\ V \in [Handles -> SUBSET Values]
        /\ n <= w.h[h].capacity
    BY DEF Sound, Placed
  <2>2. w.h[h] \in Header /\ w.h \in [Handles -> Header]
    BY <2>1 DEF Worlds
  <2>3. w.h[h].capacity \in Nat /\ n \in Nat
    BY <2>2 DEF Header
  <2>4. QED
    BY <2>1, <2>2, <2>3
<1>2. /\ U \in SUBSET Values /\ T \ S \in SUBSET Values /\ k \in Nat /\ d \in Nat /\ d \in Int
      /\ Cardinality(S) \in Nat
  <2>1. U \in SUBSET Values /\ T \ S \in SUBSET Values
    BY <1>1
  <2>2. k \in Nat /\ d \in Nat /\ Cardinality(S) \in Nat
    BY <1>1, <2>1, Counts
  <2>3. QED
    BY <2>1, <2>2
<1>3. Cardinality(U) = Cardinality(S) + d
  BY <1>1, Sizes
<1>4. n = Cardinality(RunsOf(S)) /\ w.h[h].card = Cardinality(S)
  BY <1>1, ArrayTells
<1>5. o \in Nat /\ (o = 0 => T \subseteq S) /\ k <= n + o
  BY <1>1, <1>4, OpenedRuns
<1>6. x = IF o = 0 THEN w ELSE IF home.thrown THEN home
          ELSE SetEnds(Adjust(SetCount(Put(home, h, U), h, CountOf(home.h[h].kind, U)), h, d),
                       h, Ends(U))
  BY <1>1 DEF RunAddAll, Opened, Assign
<1> HIDE DEF o
<1>7. c \in Nat /\ k <= c /\ n <= c /\ (fits => c = w.h[h].capacity)
  <2>1. CASE fits
    BY <1>1, <1>2, <1>5, <2>1
  <2>2. CASE ~fits
    <3> DEFINE e == n + o
               f == 2 * w.h[h].capacity
    <3>1. e \in Int /\ f \in Int /\ c = Max({e, f}) /\ f >= 0 /\ e >= k /\ e >= n
      BY <1>1, <1>2, <1>5, <2>2
    <3> HIDE DEF e, f
    <3>2. Max({e, f}) \in Int /\ Max({e, f}) >= e /\ Max({e, f}) >= f
      BY <3>1, LeastOfTwo
    <3>3. c \in Int /\ c >= e /\ c >= f /\ ~fits
      BY <2>2, <3>1, <3>2
    <3> HIDE DEF c, fits
    <3>4. QED
      BY <1>1, <1>2, <3>1, <3>3
  <2>3. QED
    BY <2>1, <2>2
<1> HIDE DEF fits, c, x
<1>8. CASE o = 0
  <2>1. x = w /\ U = S
    BY <1>5, <1>6, <1>8
  <2>2. QED
    BY <2>1, UntouchedIsDone DEF x
<1>9. ASSUME o # 0 PROVE U # {}
  <2>1. T # {}
    <3>1. CASE T = {}
      <4>1. Opened(S, T) = {}
        BY <3>1 DEF Opened, RunsOf
      <4>2. QED
        BY <1>9, <4>1, FS_EmptySet DEF o
    <3>2. QED
      BY <3>1
  <2>2. QED
    BY <2>1
<1> DEFINE e == Ends(U)
<1>10. o # 0 => e \in Endpoints
  BY <1>2, <1>9, EndsAreEndpoints
<1>11. CASE o # 0 /\ fits /\ Unshared(w, h)
  <2> DEFINE p == Put(w, h, U)
             z == SetEnds(Adjust(SetCount(p, h, k), h, d), h, e)
  <2>1. home = w /\ CountOf(w.h[h].kind, U) = k
    BY <1>2, <1>11, Counts
  <2>2. x = z
    BY <1>6, <1>11, <2>1
  <2>3. Own(w, h)
    BY <1>11, Sole
  <2>4. w.h[h].at \notin Images
    BY <2>3, OwnIsWritable
  <2>5. Rewrites(w, p, h, U) /\ p \in Worlds /\ p.h[h].card = w.h[h].card
        /\ p.h[h].exact = w.h[h].exact
    BY <1>1, <1>2, <2>4, PutKeeps
  <2> HIDE DEF p, k, d, e
  <2>6. Edits(p, z, h) /\ z.h[h].count = k /\ z.h[h].card = p.h[h].card + d
        /\ z.h[h].exact = p.h[h].exact /\ z.h[h].ends = e
    BY <1>2, <1>10, <1>11, <2>5, HeaderAdjusted
  <2> HIDE DEF z
  <2>7. Rewrites(w, z, h, U)
    BY <1>1, <2>5, <2>6, RewritesEdited
  <2>8. z.h[h].kind = "run" /\ z.h[h].capacity = w.h[h].capacity /\ z.m = w.m
        /\ z.thrown = w.thrown
    BY <2>7 DEF Rewrites
  <2>9. z.h[h].exact = w.h[h].exact /\ z.h[h].card = Cardinality(U)
    BY <1>3, <1>4, <2>5, <2>6
  <2>10. Tells(z.h[h], U)
    BY <1>1, <1>2, <1>9, <1>11, <2>6, <2>8, <2>9, RunTells DEF k, e
  <2>11. z.h[h].count <= z.h[h].capacity
    BY <1>7, <1>11, <2>6, <2>8
  <2>12. Sound(z, [V EXCEPT ![h] = U])
    BY <1>2, <2>3, <2>7, <2>10, <2>11, InPlace
  <2>13. Done(w, z, V, h, U)
    BY <2>8, <2>12 DEF Done
  <2>14. QED
    BY <2>2, <2>13 DEF x, U
<1>12. CASE o # 0 /\ ~(fits /\ Unshared(w, h)) /\ w.left = 0
  <2>1. Fresh(w) \in Blocks
    BY FreshIsFree
  <2>2. got \in Worlds /\ got.h = w.h /\ got.m = w.m /\ got.thrown = TRUE /\ got.b = w.b
    BY <1>1, <1>7, <1>12, <2>1, AllocatedWorld
  <2>3. x = got
    BY <1>6, <1>12, <2>2
  <2> HIDE DEF got
  <2>4. Sound(got, V)
    BY <2>2, RefusedIsSound
  <2>5. QED
    BY <2>2, <2>3, <2>4 DEF Done, x
<1>13. CASE o # 0 /\ ~(fits /\ Unshared(w, h)) /\ w.left # 0
  <2>1. Fresh(w) \in Blocks
    BY FreshIsFree
  <2>2. /\ got \in Worlds /\ got.h = w.h /\ got.m = w.m /\ got.thrown = w.thrown
        /\ got.b = [w.b EXCEPT ![Fresh(w)] = Cellof(c, {})]
    BY <1>1, <1>7, <1>13, <2>1, AllocatedWorld
  <2> DEFINE y == Release(got, h)
             B == Release(w, h).b
             s == SpillTo(y, h, Fresh(w), c)
             p == Put(s, h, U)
             z == SetEnds(Adjust(SetCount(p, h, k), h, d), h, e)
  <2>3. home = s
    BY <1>13, <2>2
  <2> HIDE DEF home, got
  <2>4. Cellof(c, {}) \in Cell
    BY <1>7 DEF Cellof, Cell
  <2>5. /\ y \in Worlds /\ y.h = w.h /\ y.m = w.m /\ y.thrown = w.thrown
        /\ y.b = [B EXCEPT ![Fresh(w)] = Cellof(c, {})]
    BY <2>2, <2>4, LetsGoBeside
  <2>6. Vacated(w, B, h) /\ B \in [Blocks -> Cell]
    <3>1. Vacated(w, B, h)
      BY LetsGo
    <3>2. QED
      BY <3>1 DEF Vacated
  <2> HIDE DEF y, B
  <2>7. y.h = [w.h EXCEPT ![h] = y.h[h]]
    BY <1>1, <2>5
  <2>8. Lands(w, s, h, c, B, {}) /\ SameTale(s.h[h], w.h[h])
    <3>1. Lands(w, s, h, c, B, {}) /\ SameTale(s.h[h], y.h[h])
      BY <1>7, <2>5, <2>7, LandsSpilt
    <3>2. QED
      BY <2>5, <3>1
  <2> HIDE DEF s
  <2>9. Lands(w, p, h, c, B, U) /\ p.h = s.h
    BY <1>2, <1>7, <2>6, <2>8, LandsPut
  <2>10. x = z
    <3>1. s.h[h].kind = "run" /\ ~s.thrown
      BY <2>8 DEF SameTale, Lands
    <3>2. CountOf(s.h[h].kind, U) = k
      BY <1>2, <3>1, Counts
    <3>3. QED
      BY <1>6, <1>13, <2>3, <3>1, <3>2
  <2>11. p \in Worlds /\ p.h[h].card = w.h[h].card /\ p.h[h].exact = w.h[h].exact
         /\ p.h[h].kind = "run"
    BY <2>8, <2>9 DEF Lands, SameTale
  <2> HIDE DEF p, k, d, e
  <2>12. Edits(p, z, h) /\ z.h[h].count = k /\ z.h[h].card = p.h[h].card + d
         /\ z.h[h].exact = p.h[h].exact /\ z.h[h].ends = e
    BY <1>2, <1>10, <1>13, <2>11, HeaderAdjusted
  <2> HIDE DEF z
  <2>13. Lands(w, z, h, c, B, U)
    BY <2>9, <2>12, LandsEdited
  <2>14. z.h[h].kind = "run" /\ z.m = w.m /\ z.thrown = w.thrown
    BY <2>11, <2>12, <2>13 DEF Edits, Lands
  <2>15. z.h[h].exact = w.h[h].exact /\ z.h[h].card = Cardinality(U)
    BY <1>3, <1>4, <2>11, <2>12
  <2>16. Tells(z.h[h], U)
    BY <1>1, <1>2, <1>9, <1>13, <2>12, <2>14, <2>15, RunTells DEF k, e
  <2>17. z.h[h].count <= c
    BY <1>7, <2>12
  <2>18. Sound(z, [V EXCEPT ![h] = U])
    BY <1>2, <2>6, <2>13, <2>16, <2>17, Landed
  <2>19. Done(w, z, V, h, U)
    BY <2>14, <2>18 DEF Done
  <2>20. QED
    BY <2>10, <2>19 DEF x, U
<1>14. QED
  BY <1>8, <1>11, <1>12, <1>13


LEMMA AddAllIsDone ==
  ASSUME NEW w, NEW V, NEW h \in Handles, Sound(w, V), Unaliased(w, h), ~w.thrown,
         NEW T \in SUBSET Values
  PROVE  Done(w, ContainerAddAll(w, h, T), V, h, V[h] \cup T)
<1>1. CASE w.h[h].kind = "run"
  <2>1. ContainerAddAll(w, h, T) = RunAddAll(w, h, T)
    BY <1>1 DEF ContainerAddAll
  <2>2. QED
    BY <1>1, <2>1, RunAddAllDone
<1>2. CASE w.h[h].kind # "run"
  <2> DEFINE x == MakeUnique(w, h)
             y == ContainerAddAll(w, h, T)
  <2>1. Private(w, x, V, h)
    BY MadeUnique
  <2>2. y = IF x.thrown THEN x ELSE IF w.h[h].kind = "array" THEN ArrayAddAll(x, h, T)
            ELSE BitsetAddAll(x, h, T)
    BY <1>2 DEF ContainerAddAll
  <2> HIDE DEF x, y
  <2>3. x.thrown => y = x
    BY <2>2
  <2>4. ASSUME ~x.thrown PROVE Done(x, y, V, h, V[h] \cup T)
    <3>1. Sound(x, V) /\ Own(x, h) /\ x.h[h].kind = w.h[h].kind
      BY <2>1, <2>4 DEF Private, SameTale
    <3>2. CASE w.h[h].kind = "array"
      <4>1. y = ArrayAddAll(x, h, T)
        BY <2>2, <2>4, <3>2
      <4>2. QED
        BY <2>4, <3>1, <3>2, <4>1, ArrayAddAllDone
    <3>3. CASE w.h[h].kind = "bitset"
      <4>1. y = BitsetAddAll(x, h, T)
        BY <2>2, <2>4, <3>3
      <4>2. QED
        BY <2>4, <3>1, <3>3, <4>1, BitsetAddAllDone
    <3>4. QED
      BY <1>2, <3>2, <3>3, Kinds
  <2>5. Done(w, y, V, h, V[h] \cup T)
    BY <2>1, <2>3, <2>4, BarrierThen
  <2>6. QED
    BY <2>5 DEF y
<1>3. QED
  BY <1>1, <1>2

-----------------------------------------------------------------------------
(***************************************************************************)
(* Handles that come, go and are copied.                                   *)
(***************************************************************************)
LEMMA EmptyHeader ==
  /\ Empty \in Header /\ Empty.at = Inline /\ Empty.owner = "unique" /\ Empty.here = {}
  /\ Empty.kind = "array" /\ Empty.count = 0 /\ Empty.count <= Empty.capacity
  /\ Empty.ends = Nothing /\ Tells(Empty, {})
<1>1. /\ Empty.at = Inline /\ Empty.owner = "unique" /\ Empty.here = {}
      /\ Empty.kind = "array" /\ Empty.count = 0 /\ Empty.capacity = InlineValues
      /\ Empty.ends = Nothing /\ Empty.card = 0 /\ Empty.exact
  BY DEF Empty
<1>2. Empty \in Header
  BY SizesAssumption, NothingIsEndpoints DEF Empty, Header
<1>3. Empty.count <= Empty.capacity
  BY <1>1, SizesAssumption
<1>4. Cardinality({}) = 0 /\ CountOf("array", {}) = 0
  BY Counts
<1>5. Tells(Empty, {})
  BY <1>1, <1>4 DEF Tells
<1>6. QED
  BY <1>1, <1>2, <1>3, <1>5

LEMMA ResetIsSound ==
  ASSUME NEW w, NEW V, NEW h \in Handles, Sound(w, V), Unaliased(w, h)
  PROVE  LET x == Reset(Release(w, h), h) IN
           /\ Sound(x, [V EXCEPT ![h] = {}]) /\ x.m = w.m /\ x.thrown = w.thrown
           /\ x.h = [w.h EXCEPT ![h] = Empty] /\ x.b = Release(w, h).b
<1> DEFINE y == Release(w, h)
           x == Reset(y, h)
           r == Empty
<1>1. /\ y \in Worlds /\ y.h = w.h /\ y.m = w.m /\ y.thrown = w.thrown
      /\ Vacated(w, y.b, h)
  BY LetsGo
<1> HIDE DEF y
<1>2. r \in Header /\ r.at = Inline /\ r.owner = "unique" /\ r.here = {}
      /\ r.count <= r.capacity /\ Tells(r, {})
  BY EmptyHeader
<1>3. x = [y EXCEPT !.h = [y.h EXCEPT ![h] = r]]
  BY DEF Reset
<1> HIDE DEF r, x
<1>4. y.h \in [Handles -> Header]
  BY <1>1 DEF Worlds
<1>5. x \in Worlds /\ x.h = [w.h EXCEPT ![h] = r] /\ x.b = y.b /\ x.m = y.m
      /\ x.thrown = y.thrown
  BY <1>1, <1>2, <1>3, <1>4 DEF Worlds
<1>6. x.h[h] = r
  BY <1>1, <1>4, <1>5
<1>7. Held(x, h) = {}
  BY <1>2, <1>6, HeldHere
<1>8. Placed(r, x.b) /\ (r.at \in Blocks => r.owner = "borrowed")
  BY <1>2, PlacesApart DEF Placed
<1>9. Vacated(w, x.b, h) /\ x.m = w.m
  BY <1>1, <1>5
<1>10. Sound(x, [V EXCEPT ![h] = {}])
  BY <1>2, <1>5, <1>7, <1>8, <1>9, Uncounted
<1>11. QED
  BY <1>1, <1>5, <1>10 DEF x, y, r


LEMMA HeaderPut ==
  ASSUME NEW w \in Worlds, NEW h \in Handles, NEW r \in Header,
         NEW x, x = [w EXCEPT !.h = [w.h EXCEPT ![h] = r]]
  PROVE  x \in Worlds /\ x.h = [w.h EXCEPT ![h] = r] /\ x.b = w.b /\ x.m = w.m
         /\ x.thrown = w.thrown
  BY DEF Worlds

\* A payload in the handle leaves no block.
LEMMA InlineVacates ==
  ASSUME NEW w, NEW V, NEW h \in Handles, Sound(w, V), w.h[h].at = Inline
  PROVE  Vacated(w, w.b, h)
<1>1. w \in Worlds /\ w.b \in [Blocks -> Cell]
  BY DEF Sound, Worlds
<1>2. w.h[h].at \notin Blocks
  BY PlacesApart
<1>3. QED
  BY <1>1, <1>2, VacatedBy

\* x is w but for the header r of h, which is on the values S, but on no block
\* of its own.
Takes(w, x, h, r, S) ==
  /\ w.h[h].at = Inline
  /\ x \in Worlds /\ x.h = [w.h EXCEPT ![h] = r] /\ x.b = w.b /\ x.m = w.m
  /\ r \in Header /\ S \in SUBSET Values /\ Tells(r, S)
  /\ r.count <= r.capacity
  /\ r.at \in Blocks => r.owner = "borrowed" /\ w.b[r.at].live /\ w.b[r.at].values = S
  /\ r.at \in Images => r.owner = "borrowed" /\ w.m[r.at] = S
  /\ r.at = Inline => r.owner = "unique" /\ r.here = S
  /\ counted /\ r.owner = "unique" => r.at = Inline

LEMMA TakesHeader ==
  ASSUME NEW w, NEW V, NEW h \in Handles, Sound(w, V), NEW x, NEW r, NEW S,
         Takes(w, x, h, r, S)
  PROVE  Sound(x, [V EXCEPT ![h] = S]) /\ x.h[h] = r
<1>0. /\ w.h[h].at = Inline
      /\ x \in Worlds /\ x.h = [w.h EXCEPT ![h] = r] /\ x.b = w.b /\ x.m = w.m
      /\ r \in Header /\ S \in SUBSET Values /\ Tells(r, S)
      /\ r.count <= r.capacity
      /\ r.at \in Blocks => r.owner = "borrowed" /\ w.b[r.at].live /\ w.b[r.at].values = S
      /\ r.at \in Images => r.owner = "borrowed" /\ w.m[r.at] = S
      /\ r.at = Inline => r.owner = "unique" /\ r.here = S
      /\ counted /\ r.owner = "unique" => r.at = Inline
  BY DEF Takes
<1>1. w \in Worlds /\ w.h \in [Handles -> Header]
  BY DEF Sound, Worlds
<1>2. x.h[h] = r
  BY <1>0, <1>1
<1>3. Vacated(w, w.b, h)
  BY <1>0, InlineVacates
<1>4. Placed(r, x.b)
  BY <1>0 DEF Placed
<1>5. Held(x, h) = S
  <2>1. r.at = Inline \/ r.at \in Blocks \/ r.at \in Images
    BY <1>0 DEF Header
  <2>2. CASE r.at = Inline
    BY <1>0, <1>2, <2>2, HeldHere
  <2>3. CASE r.at \in Blocks
    BY <1>0, <1>2, <2>3, HeldOnBlock
  <2>4. CASE r.at \in Images
    BY <1>0, <1>2, <2>4, HeldInImage
  <2>5. QED
    BY <2>1, <2>2, <2>3, <2>4
<1>6. Vacated(w, x.b, h) /\ (r.at \in Blocks => r.owner = "borrowed")
  BY <1>0, <1>3
<1>7. Sound(x, [V EXCEPT ![h] = S])
  BY <1>0, <1>4, <1>5, <1>6, Uncounted
<1>8. QED
  BY <1>2, <1>7

\* The factories.
LEMMA EmptyIsOwn ==
  ASSUME NEW w, NEW V, NEW h \in Handles, Sound(w, V), w.h[h] = Empty
  PROVE  Own(w, h) /\ Reset(w, h) = w /\ V[h] = {}
<1>1. w \in Worlds /\ w.h \in [Handles -> Header] /\ Held(w, h) = V[h]
  BY DEF Sound, Worlds
<1>2. Empty.at = Inline /\ Empty.owner = "unique" /\ Empty.here = {}
  BY EmptyHeader
<1>3. Own(w, h)
  BY <1>2, PlacesApart DEF Own
<1>4. V[h] = {}
  BY <1>1, <1>2, HeldHere
<1>5. Reset(w, h) = w
  BY <1>1 DEF Reset, Worlds
<1>6. QED
  BY <1>3, <1>4, <1>5

LEMMA MadeArrayDone ==
  ASSUME NEW w, NEW V, NEW h \in Handles, Sound(w, V), ~w.thrown, w.h[h] = Empty,
         NEW S \in SUBSET Values
  PROVE  Done(w, MadeArray(w, h, S), V, h, S)
<1> DEFINE n == Cardinality(S)
<1>1. Own(w, h) /\ Reset(w, h) = w
  BY EmptyIsOwn
<1>2. w.h[h].kind = "array"
  BY EmptyHeader
<1>3. n \in Nat /\ CountOf(w.h[h].kind, S) <= n
  BY <1>2, Counts
<1>4. MadeArray(w, h, S) = Written(Ensure(w, h, n), h, S)
  BY <1>1 DEF MadeArray
<1> HIDE DEF n
<1>5. QED
  BY <1>1, <1>3, <1>4, EnsuredWritten

\* The header of no runs.
NoRuns == [Empty EXCEPT !.kind = "run", !.capacity = InlineRuns]

LEMMA NoRunsHeader ==
  /\ NoRuns \in Header /\ NoRuns.at = Inline /\ NoRuns.owner = "unique" /\ NoRuns.here = {}
  /\ NoRuns.kind = "run" /\ NoRuns.count <= NoRuns.capacity /\ Tells(NoRuns, {})
<1>1. Empty \in Header
  BY EmptyHeader
<1>2. NoRuns \in Header
  BY <1>1, SizesAssumption DEF NoRuns, Header
<1>3. /\ NoRuns.at = Inline /\ NoRuns.owner = "unique" /\ NoRuns.here = {}
      /\ NoRuns.kind = "run" /\ NoRuns.count = 0 /\ NoRuns.capacity = InlineRuns
      /\ NoRuns.ends = Nothing /\ NoRuns.card = 0 /\ NoRuns.exact
  BY DEF NoRuns, Empty
<1>4. NoRuns.count <= NoRuns.capacity
  BY <1>3, SizesAssumption
<1>5. Cardinality({}) = 0 /\ CountOf("run", {}) = 0
  <2>1. {} \in SUBSET Values
    OBVIOUS
  <2>2. QED
    BY <2>1, Counts
<1>6. Tells(NoRuns, {})
  BY <1>3, <1>5 DEF Tells
<1>7. QED
  BY <1>2, <1>3, <1>4, <1>6

LEMMA MadeRunDone ==
  ASSUME NEW w, NEW V, NEW h \in Handles, Sound(w, V), ~w.thrown, w.h[h] = Empty,
         NEW S \in SUBSET Values
  PROVE  Done(w, MadeRun(w, h, S), V, h, S)
<1> DEFINE n == Cardinality(RunsOf(S))
           run == [w EXCEPT !.h = [w.h EXCEPT ![h] = NoRuns]]
           x == MadeRun(w, h, S)
<1>1. Reset(w, h) = w /\ V[h] = {} /\ w \in Worlds /\ w.h \in [Handles -> Header]
  BY EmptyIsOwn DEF Sound, Worlds
<1>2. w.h[h].at = Inline
  BY EmptyHeader
<1>3. [w EXCEPT !.h[h].kind = "run", !.h[h].capacity = InlineRuns] = run
  BY <1>1 DEF Worlds, NoRuns
<1>4. x = Written(Ensure(run, h, n), h, S)
  BY <1>1, <1>3 DEF MadeRun
<1> DEFINE r == NoRuns
<1>5. /\ r \in Header /\ r.at = Inline /\ r.owner = "unique" /\ r.here = {}
      /\ r.kind = "run" /\ r.count <= r.capacity /\ Tells(r, {})
  BY NoRunsHeader
<1>6. run = [w EXCEPT !.h = [w.h EXCEPT ![h] = r]]
  OBVIOUS
<1> HIDE DEF r, run, x
<1>7. Sound(run, [V EXCEPT ![h] = {}]) /\ run.m = w.m /\ run.thrown = w.thrown
      /\ run.h[h] = r
  <2>1. r.at \notin Blocks /\ r.at \notin Images
    BY <1>5, PlacesApart
  <2>2. run \in Worlds /\ run.h = [w.h EXCEPT ![h] = r] /\ run.b = w.b /\ run.m = w.m
        /\ run.thrown = w.thrown
    BY <1>1, <1>5, <1>6, HeaderPut
  <2>3. Takes(w, run, h, r, {})
    BY <1>2, <1>5, <2>1, <2>2 DEF Takes
  <2>4. Sound(run, [V EXCEPT ![h] = {}]) /\ run.h[h] = r
    BY <2>3, TakesHeader
  <2>5. QED
    BY <2>2, <2>4
<1>8. [V EXCEPT ![h] = {}] = V
  BY <1>1 DEF Sound
<1>9. Own(run, h) /\ run.h[h].kind = "run"
  BY <1>5, <1>7, PlacesApart DEF Own
<1>10. n \in Nat /\ CountOf(run.h[h].kind, S) <= n
  BY <1>9, Counts
<1> HIDE DEF n
<1>11. Done(run, Written(Ensure(run, h, n), h, S), V, h, S)
  BY <1>7, <1>8, <1>9, <1>10, EnsuredWritten
<1>12. Done(w, x, V, h, S)
  BY <1>4, <1>7, <1>11 DEF Done
<1>13. QED
  BY <1>12 DEF x


\* The header of the words of a bitset before they have a block.
NoWords == [Empty EXCEPT !.kind = "bitset", !.count = WordCount]

LEMMA NoWordsHeader ==
  NoWords \in Header /\ NoWords.kind = "bitset" /\ NoWords.count = WordCount
  /\ NoWords.ends = Nothing
<1>1. Empty \in Header /\ Empty.ends = Nothing
  BY EmptyHeader
<1>2. NoWords \in Header
  BY <1>1, SizesAssumption DEF NoWords, Header
<1>3. NoWords.kind = "bitset" /\ NoWords.count = WordCount /\ NoWords.ends = Nothing
  BY DEF NoWords, Empty
<1>4. QED
  BY <1>2, <1>3

LEMMA MadeBitsetDone ==
  ASSUME NEW w, NEW V, NEW h \in Handles, Sound(w, V), ~w.thrown, w.h[h] = Empty,
         NEW S \in SUBSET Values, ~MadeBitset(w, h, S).thrown
  PROVE  Done(w, MadeBitset(w, h, S), V, h, S)
<1> DEFINE words == [w EXCEPT !.h = [w.h EXCEPT ![h] = NoWords]]
           n == WordCount
           k == Cardinality(S)
           F == Fresh(w)
           got == Allocated(words, n)
           s == SpillTo(got, h, F, n)
           p == Put(s, h, S)
           z == SetCardinality(p, h, k)
           x == MadeBitset(w, h, S)
<1>1. Reset(w, h) = w /\ Own(w, h) /\ w \in Worlds /\ w.h \in [Handles -> Header]
      /\ w.b \in [Blocks -> Cell]
  BY EmptyIsOwn DEF Sound, Worlds
<1>2. [w EXCEPT !.h[h].kind = "bitset", !.h[h].count = WordCount] = words
  BY <1>1 DEF Worlds, NoWords
<1> DEFINE u == [Reset(w, h) EXCEPT !.h[h].kind = "bitset", !.h[h].count = WordCount]
           a == Allocated(u, n)
<1>3. x = IF got.thrown THEN got ELSE z
  <2>1. x = IF a.thrown THEN a ELSE SetCardinality(Put(SpillTo(a, h, F, n), h, S), h, k)
    BY DEF MadeBitset
  <2>2. u = words
    BY <1>1, <1>2
  <2> HIDE DEF u, words, x
  <2>3. a = got
    BY <2>2
  <2>4. QED
    BY <2>1, <2>3
<1> DEFINE r == NoWords
<1>4. r \in Header /\ r.kind = "bitset" /\ r.count = n /\ r.ends = Nothing /\ n \in Nat
  BY NoWordsHeader, SizesAssumption
<1>5. words = [w EXCEPT !.h = [w.h EXCEPT ![h] = r]]
  OBVIOUS
<1> HIDE DEF r, words, n
<1>6. words \in Worlds /\ words.h = [w.h EXCEPT ![h] = r] /\ words.b = w.b /\ words.m = w.m
      /\ (words.thrown <=> w.thrown)
  BY <1>1, <1>4, <1>5, HeaderPut
<1>7. Fresh(words) = F /\ F \in Blocks
  BY <1>6, FreshIsFree DEF Fresh, FreeBlocks
<1>8. CASE w.left = 0
  <2>1. words.left = 0
    BY <1>1, <1>5, <1>8 DEF Worlds
  <2>2. got.thrown
    BY <1>4, <1>6, <1>7, <2>1, AllocatedWorld
  <2>3. x = got
    BY <1>3, <2>2
  <2>4. x.thrown
    BY <2>2, <2>3
  <2>5. QED
    BY <2>4
<1>9. CASE w.left # 0
  <2>1. words.left # 0
    BY <1>1, <1>5, <1>9 DEF Worlds
  <2>2. /\ got \in Worlds /\ got.h = words.h /\ got.m = words.m /\ got.thrown = words.thrown
        /\ got.b = [words.b EXCEPT ![Fresh(words)] = Cellof(n, {})]
    BY <1>4, <1>6, <1>7, <2>1, AllocatedWorld
  <2>3. /\ got \in Worlds /\ got.h = [w.h EXCEPT ![h] = got.h[h]] /\ got.h[h] = r /\ got.m = w.m
        /\ got.b = [w.b EXCEPT ![F] = Cellof(n, {})]
    <3> HIDE DEF got, F
    <3>1. got.h = [w.h EXCEPT ![h] = r]
      BY <1>6, <2>2
    <3>2. got.h[h] = r
      BY <1>1, <3>1
    <3>3. QED
      BY <1>6, <1>7, <2>2, <3>1, <3>2
  <2>4. got.thrown = w.thrown
    <3>1. words.thrown = w.thrown
      BY <1>1, <1>5 DEF Worlds
    <3>2. QED
      BY <2>2, <3>1
  <2> HIDE DEF got
  <2>5. x = z
    BY <1>3, <2>4
  <2>6. Lands(w, s, h, n, w.b, {}) /\ SameTale(s.h[h], got.h[h])
    BY <1>4, <2>3, <2>4, LandsSpilt DEF F
  <2> HIDE DEF s
  <2>7. Lands(w, p, h, n, w.b, S) /\ p.h = s.h
    BY <1>1, <1>4, <2>6, LandsPut
  <2>8. p \in Worlds /\ p.h[h].kind = "bitset" /\ p.h[h].count = n /\ p.h[h].ends = Nothing
    BY <1>4, <2>3, <2>6, <2>7 DEF Lands, SameTale
  <2>9. k \in Nat /\ k \in Int
    BY Counts
  <2> HIDE DEF p, k
  <2>10. Edits(p, z, h) /\ z.h[h].count = p.h[h].count /\ z.h[h].card = k
         /\ z.h[h].ends = p.h[h].ends
    BY <2>8, <2>9, CardinalitySet
  <2> HIDE DEF z
  <2>11. Lands(w, z, h, n, w.b, S)
    BY <2>7, <2>10, LandsEdited
  <2>12. z.h[h].kind = "bitset" /\ z.m = w.m /\ z.thrown = w.thrown
    BY <2>8, <2>10, <2>11 DEF Edits, Lands
  <2>13. Tells(z.h[h], S)
    <3>1. z.h[h].count = WordCount /\ z.h[h].ends = Nothing
      BY <2>8, <2>10 DEF n
    <3>2. z.h[h].card \in 0..Cardinality(S) /\ z.h[h].card = Cardinality(S)
      BY <2>9, <2>10 DEF k
    <3>3. QED
      BY <2>12, <3>1, <3>2, BitsetTells
  <2>14. z.h[h].count <= n
    BY <1>4, <2>8, <2>10
  <2>15. Vacated(w, w.b, h)
    <3>1. w.h[h].at = Inline
      BY EmptyHeader
    <3>2. QED
      BY <3>1, InlineVacates
  <2>16. Sound(z, [V EXCEPT ![h] = S])
    BY <2>11, <2>13, <2>14, <2>15, Landed
  <2>17. Done(w, z, V, h, S)
    BY <2>12, <2>16 DEF Done
  <2>18. QED
    BY <2>5, <2>17 DEF x
<1>10. QED
  BY <1>8, <1>9

LEMMA MadeDone ==
  ASSUME NEW w, NEW V, NEW h \in Handles, Sound(w, V), ~w.thrown, w.h[h] = Empty,
         NEW S \in SUBSET Values, NEW kind \in {"array", "run", "bitset"},
         ~Made(w, h, kind, S).thrown
  PROVE  Done(w, Made(w, h, kind, S), V, h, S)
<1>1. CASE kind = "array"
  <2>1. Made(w, h, kind, S) = MadeArray(w, h, S)
    BY <1>1 DEF Made
  <2>2. QED
    BY <2>1, MadeArrayDone
<1>2. CASE kind = "run"
  <2>1. Made(w, h, kind, S) = MadeRun(w, h, S)
    BY <1>2 DEF Made
  <2>2. QED
    BY <2>1, MadeRunDone
<1>3. CASE kind = "bitset"
  <2>1. Made(w, h, kind, S) = MadeBitset(w, h, S)
    BY <1>3 DEF Made
  <2>2. ~MadeBitset(w, h, S).thrown
    BY <2>1
  <2>3. QED
    BY <2>1, <2>2, MadeBitsetDone
<1>4. QED
  BY <1>1, <1>2, <1>3


LEMMA BorrowedDone ==
  ASSUME NEW w, NEW V, NEW h \in Handles, Sound(w, V), ~w.thrown, w.h[h] = Empty,
         NEW image \in Images, w.m[image] # {}
  PROVE  Done(w, Borrowed(w, h, image), V, h, w.m[image])
<1> DEFINE S == w.m[image]
           kind == ImageKind[image]
           n == CountOf(kind, S)
           r == [kind |-> kind, count |-> n, card |-> Cardinality(S), exact |-> TRUE,
                 ends |-> IF kind = "bitset" THEN Nothing ELSE Ends(S),
                 owner |-> "borrowed", at |-> image, capacity |-> n, here |-> {}]
           x == Borrowed(w, h, image)
<1>1. w \in Worlds /\ S \in SUBSET Values /\ w.h[h].at = Inline
  <2>1. w \in Worlds
    BY DEF Sound
  <2>2. S \in SUBSET Values
    BY <2>1 DEF Worlds
  <2>3. QED
    BY <2>1, <2>2, EmptyHeader
<1>2. kind \in {"array", "run", "bitset"}
  BY PlacesAssumption
<1>3. n \in Nat /\ Cardinality(S) \in Nat
  BY <1>1, <1>2, Counts
<1>4. x = [w EXCEPT !.h = [w.h EXCEPT ![h] = r]]
  BY DEF Borrowed
<1>5. Ends(S) \in Endpoints /\ Nothing \in Endpoints
  BY <1>1, EndsAreEndpoints, NothingIsEndpoints
<1> HIDE DEF S, kind, n
<1>6. r \in Header
  <2>1. image \in {Inline} \cup Blocks \cup Images
    OBVIOUS
  <2>2. QED
    BY <1>2, <1>3, <1>5, <2>1 DEF Header
<1>7. /\ r.kind = kind /\ r.count = n /\ r.card = Cardinality(S) /\ r.exact
      /\ r.ends = (IF kind = "bitset" THEN Nothing ELSE Ends(S)) /\ r.owner = "borrowed"
      /\ r.at = image /\ r.capacity = n
  OBVIOUS
<1> HIDE DEF r, x
<1>8. x \in Worlds /\ x.h = [w.h EXCEPT ![h] = r] /\ x.b = w.b /\ x.m = w.m
      /\ x.thrown = w.thrown
  BY <1>1, <1>4, <1>6 DEF Worlds
<1>9. Tells(r, S)
  <2>1. r.card \in 0..Cardinality(S)
    BY <1>3, <1>7
  <2>2. S # {}
    BY DEF S
  <2>3. r.ends # Nothing => \A v \in S : r.ends[1] <= v /\ v <= r.ends[2]
    <3>1. CASE kind = "bitset"
      BY <1>7, <3>1
    <3>2. CASE kind # "bitset"
      BY <1>1, <1>7, <2>2, <3>2, EndsTell
    <3>3. QED
      BY <3>1, <3>2
  <2>4. QED
    BY <1>7, <2>1, <2>3 DEF Tells, n
<1>10. r.count <= r.capacity
  BY <1>3, <1>7
<1>11. Takes(w, x, h, r, S)
  <2>1. r.at \notin Blocks /\ r.at # Inline
    BY <1>7, PlacesApart
  <2>2. w.m[r.at] = S
    BY <1>7 DEF S
  <2>3. QED
    BY <1>1, <1>6, <1>7, <1>8, <1>9, <1>10, <2>1, <2>2 DEF Takes
<1>12. Sound(x, [V EXCEPT ![h] = S])
  BY <1>11, TakesHeader
<1>13. Done(w, x, V, h, S)
  BY <1>8, <1>12 DEF Done
<1>14. QED
  BY <1>13 DEF x, S

\* The values under a header that is put beside the one that has them.
LEMMA SharesPlace ==
  ASSUME NEW w, NEW V, NEW h \in Handles, Sound(w, V)
  PROVE  /\ w.h[h].at = Inline => w.h[h].here = V[h]
         /\ w.h[h].at \in Blocks => w.b[w.h[h].at].live /\ w.b[w.h[h].at].values = V[h]
         /\ w.h[h].at \in Images => w.m[w.h[h].at] = V[h] /\ w.h[h].owner = "borrowed"
<1>1. Held(w, h) = V[h] /\ Placed(w.h[h], w.b)
  BY DEF Sound
<1>2. w.h[h].at = Inline => w.h[h].here = V[h]
  BY <1>1, HeldHere
<1>3. w.h[h].at \in Blocks => w.b[w.h[h].at].live /\ w.b[w.h[h].at].values = V[h]
  BY <1>1, HeldOnBlock DEF Placed
<1>4. w.h[h].at \in Images => w.m[w.h[h].at] = V[h] /\ w.h[h].owner = "borrowed"
  BY <1>1, HeldInImage DEF Placed
<1>5. QED
  BY <1>2, <1>3, <1>4

LEMMA AliasedDone ==
  ASSUME NEW w, NEW V, NEW g \in Handles, NEW h \in Handles, Sound(w, V), ~w.thrown,
         w.h[g] = Empty
  PROVE  Done(w, Aliased(w, g, h), V, g, V[h])
<1> DEFINE S == V[h]
           q == w.h[h]
           r == IF Spilled(w, h) THEN [q EXCEPT !.owner = "borrowed", !.capacity = q.count]
                ELSE q
           x == Aliased(w, g, h)
<1>1. /\ w \in Worlds /\ q \in Header /\ S \in SUBSET Values /\ Tells(q, S) /\ Placed(q, w.b)
      /\ w.h[g].at = Inline
  <2>1. w \in Worlds /\ S \in SUBSET Values /\ Tells(q, S) /\ Placed(q, w.b)
    BY DEF Sound
  <2>2. q \in Header
    BY <2>1 DEF Worlds
  <2>3. QED
    BY <2>1, <2>2, EmptyHeader
<1>2. x = [w EXCEPT !.h = [w.h EXCEPT ![g] = r]]
  BY DEF Aliased
<1>3. /\ q.at = Inline => q.here = S
      /\ q.at \in Blocks => w.b[q.at].live /\ w.b[q.at].values = S
      /\ q.at \in Images => w.m[q.at] = S /\ q.owner = "borrowed"
  BY SharesPlace
<1> HIDE DEF q, S
<1>4. r \in Header /\ r.at = q.at /\ SameTale(r, q) /\ r.here = q.here
      /\ (q.at # Inline => r.owner = "borrowed") /\ (q.at = Inline => r = q) /\ r.count <= r.capacity
  <2>1. CASE Spilled(w, h)
    <3> DEFINE t == [q EXCEPT !.owner = "borrowed", !.capacity = q.count]
    <3>0. q.at # Inline
      BY <2>1 DEF Spilled, q
    <3>1. t \in Header /\ t.at = q.at /\ t.here = q.here /\ t.owner = "borrowed"
          /\ t.capacity = q.count /\ t.count = q.count
      BY <1>1 DEF Header
    <3>2. SameTale(t, q)
      BY <1>1 DEF SameTale, Header
    <3>3. q.count <= q.count
      BY <1>1 DEF Header
    <3>4. r = t
      BY <2>1
    <3> HIDE DEF t, r
    <3>5. QED
      BY <3>0, <3>1, <3>2, <3>3, <3>4
  <2>2. CASE ~Spilled(w, h)
    <3>1. r = q /\ q.at = Inline
      BY <2>2 DEF Spilled, q
    <3>2. q.count <= q.capacity
      BY <1>1 DEF Placed
    <3>3. QED
      BY <1>1, <3>1, <3>2 DEF SameTale
  <2>3. QED
    BY <2>1, <2>2
<1> HIDE DEF r, x
<1>5. x \in Worlds /\ x.h = [w.h EXCEPT ![g] = r] /\ x.b = w.b /\ x.m = w.m
      /\ x.thrown = w.thrown
  BY <1>1, <1>2, <1>4 DEF Worlds
<1>6. Tells(r, S)
  BY <1>1, <1>4, SameTells
<1>7. Takes(w, x, g, r, S)
  <2>1. /\ r.at = Inline => r.owner = "unique" /\ r.here = S
        /\ counted /\ r.owner = "unique" => r.at = Inline
        /\ r.at \in Blocks => r.owner = "borrowed"
        /\ r.at \in Images => r.owner = "borrowed"
    <3>1. /\ q.at = Inline => q.owner = "unique"
          /\ counted /\ q.owner = "unique" => q.at = Inline
      BY <1>1 DEF Placed
    <3>2. CASE q.at = Inline
      BY <1>3, <1>4, <3>1, <3>2, PlacesApart
    <3>3. CASE q.at # Inline
      BY <1>4, <3>3
    <3>4. QED
      BY <3>2, <3>3
  <2>2. QED
    BY <1>1, <1>3, <1>4, <1>5, <1>6, <2>1 DEF Takes
<1>8. Sound(x, [V EXCEPT ![g] = S])
  BY <1>7, TakesHeader
<1>9. Done(w, x, V, g, S)
  BY <1>5, <1>8 DEF Done
<1>10. QED
  BY <1>9 DEF x, S


\* The counted copy g of h.
Joined(w, g, h) ==
  [w EXCEPT !.h = [w.h EXCEPT ![g] = w.h[h]],
            !.b = [w.b EXCEPT ![w.h[h].at] =
                     [w.b[w.h[h].at] EXCEPT !.rc = w.b[w.h[h].at].rc + 1]]]

LEMMA JoinedIsSound ==
  ASSUME NEW w, NEW V, NEW g \in Handles, NEW h \in Handles, Sound(w, V), w.h[g] = Empty,
         counted, Spilled(w, h), w.h[h].owner # "borrowed"
  PROVE  LET x == Joined(w, g, h) IN
           Sound(x, [V EXCEPT ![g] = V[h]]) /\ x.m = w.m /\ x.thrown = w.thrown
<1> DEFINE q == w.h[h]
           b == q.at
           c == w.b[b]
           d == [c EXCEPT !.rc = c.rc + 1]
           Q == OnBlock(w.h, b)
           B == [w.b EXCEPT ![b] = d]
           H == [w.h EXCEPT ![g] = q]
           x == Joined(w, g, h)
<1>1. /\ w \in Worlds /\ w.h \in [Handles -> Header] /\ w.b \in [Blocks -> Cell]
      /\ q \in Header /\ V[h] \in SUBSET Values /\ Tells(q, V[h]) /\ Placed(q, w.b)
      /\ Held(w, h) = V[h]
  BY DEF Sound, Worlds
<1>2. b \in Blocks
  BY <1>1 DEF Header, Spilled, Placed
<1>3. c \in Cell /\ c.live
  BY <1>1, <1>2 DEF Placed
<1>4. c.rc \in Int
  BY <1>3 DEF Cell
<1> HIDE DEF c
<1> DEFINE n == c.rc + 1
<1>n. n \in Int
  BY <1>4
<1>d. d = [c EXCEPT !.rc = n]
  OBVIOUS
<1> HIDE DEF n, d
<1>5. d \in Cell /\ d.rc = n /\ d.live = c.live /\ d.bytes = c.bytes
      /\ d.values = c.values
  <2>1. d \in Cell /\ d.rc = n /\ d.live = c.live
    BY <1>3, <1>n, <1>d DEF Cell
  <2>2. d.bytes = c.bytes /\ d.values = c.values
    BY <1>3, <1>n, <1>d DEF Cell
  <2>3. QED
    BY <2>1, <2>2
<1>6. w.h[g].at = Inline
  BY EmptyHeader
<1>7. Accounted(w.h, w.b, b, Q) /\ h \in Q /\ g \notin Q
  BY <1>2, <1>6, PlacesApart DEF Sound, OnBlock
<1>8. c.rc = Cardinality(Q) /\ q.capacity = c.bytes /\ \A a \in Q : w.h[a].capacity = c.bytes
  <2>1. c.live /\ (\A a \in Q : w.h[a].capacity = w.b[b].bytes)
        /\ w.b[b].rc = (IF counted THEN Cardinality(Q) ELSE 1)
    BY <1>3, <1>7 DEF Accounted, c
  <2>2. QED
    BY <1>7, <2>1 DEF c
<1>9. Cardinality(Q \cup {g}) = Cardinality(Q) + 1
  <2>1. IsFiniteSet(Q) /\ Cardinality(Q) \in Nat
    BY OnBlockFinite
  <2> HIDE DEF Q
  <2>2. QED
    BY <1>7, <2>1, FS_AddElement
<1> HIDE DEF d, Q, b
<1>10. B \in [Blocks -> Cell] /\ B[b] = d /\ \A a \in Blocks : a # b => B[a] = w.b[a]
  BY <1>1, <1>2, <1>5
<1> HIDE DEF B
<1>11. H \in [Handles -> Header] /\ H[g] = q /\ \A a \in Handles \ {g} : H[a] = w.h[a]
  BY <1>1
<1>12. x = [w EXCEPT !.h = H, !.b = B]
  BY DEF B, H, d, c, b, q, Joined
<1> HIDE DEF x, B, H
<1>13. x \in Worlds /\ x.h = H /\ x.b = B /\ x.m = w.m /\ x.thrown = w.thrown
  BY <1>1, <1>10, <1>11, <1>12 DEF Worlds
<1>14. ASSUME NEW a \in Blocks
       PROVE  Accounted(x.h, x.b, a, (OnBlock(w.h, a) \ {g}) \cup
                          (IF q.at = a /\ q.owner # "borrowed" THEN {g} ELSE {}))
  <2>1. CASE a = b
    <3>1. (OnBlock(w.h, a) \ {g}) \cup
             (IF q.at = a /\ q.owner # "borrowed" THEN {g} ELSE {}) = Q \cup {g}
      <4>1. q.at = a /\ q.owner # "borrowed"
        BY <2>1 DEF b
      <4>2. OnBlock(w.h, a) = Q
        BY <2>1 DEF Q
      <4> HIDE DEF q
      <4>3. QED
        BY <1>7, <4>1, <4>2
    <3>2. x.b[b] = d
      BY <1>10, <1>13
    <3>3. x.b[b].live /\ x.b[b].rc = Cardinality(Q \cup {g})
      BY <1>3, <1>5, <1>8, <1>9, <3>2 DEF n
    <3>4. \A e \in Q \cup {g} : x.h[e].capacity = x.b[b].bytes
      <4>1. x.b[b].bytes = c.bytes
        BY <1>5, <3>2
      <4>2. Q \subseteq Handles
        BY DEF Q, OnBlock
      <4>3. x.h[g].capacity = c.bytes
        BY <1>8, <1>11, <1>13
      <4>4. ASSUME NEW e \in Q
            PROVE  x.h[e].capacity = c.bytes
        BY <1>7, <1>8, <1>11, <1>13, <4>2
      <4>5. QED
        BY <4>1, <4>3, <4>4
    <3>5. Accounted(x.h, x.b, b, Q \cup {g})
      BY <3>3, <3>4 DEF Accounted
    <3>6. QED
      BY <2>1, <3>1, <3>5
  <2>2. CASE a # b
    <3>1. x.b[a] = w.b[a] /\ g \notin OnBlock(w.h, a)
      BY <1>6, <1>10, <1>13, <2>2, PlacesApart DEF OnBlock
    <3>2. (OnBlock(w.h, a) \ {g}) \cup
             (IF q.at = a /\ q.owner # "borrowed" THEN {g} ELSE {}) = OnBlock(w.h, a)
      <4>1. q.at # a
        BY <2>2 DEF b
      <4> HIDE DEF q
      <4>2. QED
        BY <3>1, <4>1
    <3>3. \A e \in OnBlock(w.h, a) : x.h[e] = w.h[e]
      BY <1>11, <1>13, <3>1 DEF OnBlock
    <3>4. Accounted(w.h, w.b, a, OnBlock(w.h, a))
      BY DEF Sound
    <3>5. Accounted(x.h, x.b, a, OnBlock(w.h, a))
      BY <3>1, <3>3, <3>4 DEF Accounted
    <3>6. QED
      BY <3>2, <3>5
  <2>3. QED
    BY <2>1, <2>2
<1>15. ASSUME NEW a \in Handles \ {g}, w.h[a].at \in Blocks
       PROVE  x.b[w.h[a].at].live /\ x.b[w.h[a].at].values = w.b[w.h[a].at].values
  <2>1. w.b[w.h[a].at].live
    BY <1>15 DEF Sound, Placed
  <2>2. CASE w.h[a].at = b
    BY <1>3, <1>5, <1>10, <1>13, <2>2 DEF c
  <2>3. CASE w.h[a].at # b
    BY <1>10, <1>13, <1>15, <2>1, <2>3
  <2>4. QED
    BY <2>2, <2>3
<1>16. Placed(q, x.b)
  <2>1. x.b[b].live
    BY <1>3, <1>5, <1>10, <1>13
  <2>2. QED
    BY <1>1, <2>1 DEF Placed, b
<1>17. Held(x, g) = V[h]
  <2>1. x.b[b].values = c.values
    BY <1>5, <1>10, <1>13
  <2>2. x.h[g].at = b
    BY <1>11, <1>13 DEF b
  <2>3. Held(x, g) = x.b[b].values
    BY <1>2, <2>2, HeldOnBlock
  <2>4. Held(w, h) = c.values
    BY <1>2, HeldOnBlock DEF c, b
  <2>5. QED
    BY <1>1, <2>1, <2>3, <2>4
<1>18. x.h = [w.h EXCEPT ![g] = q]
  BY <1>13 DEF H
<1>19. Sound(x, [V EXCEPT ![g] = V[h]])
  <2> HIDE DEF q, b
  <2>1. QED
    BY <1>1, <1>13, <1>14, <1>15, <1>16, <1>17, <1>18, Rehoused
<1>20. QED
  BY <1>13, <1>19 DEF x


LEMMA CellRefilled ==
  ASSUME NEW n \in Nat, NEW S \in SUBSET Values, NEW T \in SUBSET Values
  PROVE  [Cellof(n, S) EXCEPT !.values = T] = Cellof(n, T)
<1> DEFINE c == Cellof(n, S)
           d == Cellof(n, T)
           e == [c EXCEPT !.values = T]
<1>1. c \in Cell /\ d \in Cell
  BY DEF Cellof, Cell
<1>2. c.live = d.live /\ c.rc = d.rc /\ c.bytes = d.bytes /\ d.values = T
  BY DEF Cellof
<1> HIDE DEF c, d
<1>3. e \in Cell /\ e.live = c.live /\ e.rc = c.rc /\ e.bytes = c.bytes /\ e.values = T
  BY <1>1 DEF Cell
<1> HIDE DEF e
<1>4. e = d
  BY <1>1, <1>2, <1>3 DEF Cell
<1>5. QED
  BY <1>4 DEF c, d, e

\* A copy: the values are there twice, or the call was refused and nothing is.
LEMMA ClonedDone ==
  ASSUME NEW w, NEW V, NEW g \in Handles, NEW h \in Handles, Sound(w, V), ~w.thrown,
         w.h[g] = Empty
  PROVE  Done(w, Cloned(w, g, h), V, g, V[h])
<1> DEFINE S == V[h]
           q == w.h[h]
           F == Fresh(w)
           x == Cloned(w, g, h)
           same == [w EXCEPT !.h = [w.h EXCEPT ![g] = q]]
           got == Allocated(w, q.capacity)
<1>1. /\ w \in Worlds /\ q \in Header /\ S \in SUBSET Values /\ Tells(q, S) /\ Placed(q, w.b)
      /\ w.h[g].at = Inline /\ Held(w, h) = S /\ w.h \in [Handles -> Header]
  <2>1. w \in Worlds /\ S \in SUBSET Values /\ Tells(q, S) /\ Placed(q, w.b) /\ Held(w, h) = S
    BY DEF Sound
  <2>2. q \in Header /\ w.h \in [Handles -> Header]
    BY <2>1 DEF Worlds
  <2>3. QED
    BY <2>1, <2>2, EmptyHeader
<1>2. CASE ~Spilled(w, h) \/ q.owner = "borrowed"
  <2>1. x = same
    BY <1>2 DEF Cloned
  <2>2. /\ q.at = Inline => q.here = S
        /\ q.at \in Blocks => w.b[q.at].live /\ w.b[q.at].values = S
        /\ q.at \in Images => w.m[q.at] = S /\ q.owner = "borrowed"
    BY SharesPlace
  <2>3. q.at # Inline => q.owner = "borrowed"
    BY <1>2 DEF Spilled
  <2> HIDE DEF q, S
  <2>4. same \in Worlds /\ same.h = [w.h EXCEPT ![g] = q] /\ same.b = w.b /\ same.m = w.m
        /\ same.thrown = w.thrown
    BY <1>1 DEF Worlds
  <2> HIDE DEF same, x
  <2>5. q.count <= q.capacity /\ (q.at = Inline => q.owner = "unique")
        /\ (counted /\ q.owner = "unique" => q.at = Inline)
    BY <1>1 DEF Placed
  <2>6. Takes(w, same, g, q, S)
    BY <1>1, <2>2, <2>3, <2>4, <2>5, PlacesApart DEF Takes
  <2>7. Sound(same, [V EXCEPT ![g] = S])
    BY <2>6, TakesHeader
  <2>8. Done(w, same, V, g, S)
    BY <2>4, <2>7 DEF Done
  <2>9. QED
    BY <2>1, <2>8 DEF x, S
<1>3. CASE Spilled(w, h) /\ q.owner # "borrowed" /\ counted
  <2>1. x = Joined(w, g, h)
    BY <1>3 DEF Cloned, Joined
  <2>2. LET y == Joined(w, g, h) IN
          Sound(y, [V EXCEPT ![g] = S]) /\ y.m = w.m /\ y.thrown = w.thrown
    BY <1>3, JoinedIsSound
  <2> HIDE DEF x
  <2>3. Sound(x, [V EXCEPT ![g] = S]) /\ x.m = w.m /\ x.thrown = w.thrown
    BY <2>1, <2>2
  <2>4. Done(w, x, V, g, S)
    BY <2>3 DEF Done
  <2>5. QED
    BY <2>4 DEF x
<1>4. CASE Spilled(w, h) /\ q.owner # "borrowed" /\ ~counted
  <2> DEFINE r == [q EXCEPT !.at = F, !.owner = "unique"]
             y == [got EXCEPT !.h = [got.h EXCEPT ![g] = r],
                              !.b = [got.b EXCEPT ![F] = [got.b[F] EXCEPT !.values = S]]]
  <2>1. x = IF got.thrown THEN got ELSE y
    BY <1>1, <1>4 DEF Cloned
  <2>2. F \in Blocks /\ q.capacity \in Nat
    BY <1>1, FreshIsFree DEF Header
  <2>3. /\ got \in Worlds /\ got.h = w.h /\ got.m = w.m
        /\ w.left = 0 => got.thrown = TRUE /\ got.b = w.b
        /\ w.left # 0 => /\ got.thrown = w.thrown
                         /\ got.b = [w.b EXCEPT ![F] = Cellof(q.capacity, {})]
    BY <1>1, <2>2, AllocatedWorld
  <2>4. CASE w.left = 0
    <3>1. got.thrown /\ got.b = w.b /\ x = got
      BY <2>1, <2>3, <2>4
    <3> HIDE DEF got, x
    <3>2. Sound(got, V)
      BY <2>3, <3>1, RefusedIsSound
    <3>3. Done(w, got, V, g, S)
      BY <2>3, <3>1, <3>2 DEF Done
    <3>4. QED
      BY <3>1, <3>3 DEF x
  <2>5. CASE w.left # 0
    <3>1. ~got.thrown /\ got.b = [w.b EXCEPT ![F] = Cellof(q.capacity, {})]
      BY <2>3, <2>5
    <3>t. got.thrown = w.thrown
      BY <2>3, <2>5
    <3>2. x = y
      BY <2>1, <3>1
    <3>3. [got.b EXCEPT ![F] = [got.b[F] EXCEPT !.values = S]]
            = [w.b EXCEPT ![F] = Cellof(q.capacity, S)]
      <4>1. got.b[F] = Cellof(q.capacity, {})
        BY <1>1, <2>2, <3>1 DEF Worlds
      <4>2. [Cellof(q.capacity, {}) EXCEPT !.values = S] = Cellof(q.capacity, S)
        BY <1>1, <2>2, CellRefilled
      <4> HIDE DEF got, F, S, q
      <4>3. QED
        BY <3>1, <4>1, <4>2
    <3> DEFINE B == [w.b EXCEPT ![F] = Cellof(q.capacity, S)]
    <3>4. B \in [Blocks -> Cell]
      <4>1. Cellof(q.capacity, S) \in Cell
        BY <1>1, <2>2 DEF Cellof, Cell
      <4> HIDE DEF F, S, q
      <4>2. QED
        BY <1>1, <2>2, <4>1 DEF Worlds
    <3> HIDE DEF got
    <3>5. y = [got EXCEPT !.h = [w.h EXCEPT ![g] = r], !.b = B]
      BY <2>3, <3>3
    <3> HIDE DEF B, q, S, y, x, F
    <3>6. /\ r \in Header /\ r.at = F /\ r.owner = "unique" /\ r.capacity = q.capacity
          /\ r.count = q.count
      BY <1>1, <2>2 DEF Header
    <3>7. SameTale(r, q)
      BY <1>1 DEF SameTale, Header
    <3> HIDE DEF r
    <3>8. y \in Worlds /\ y.h = [w.h EXCEPT ![g] = r] /\ y.b = B /\ y.m = w.m
          /\ y.thrown = got.thrown
      BY <1>1, <2>3, <3>4, <3>5, <3>6 DEF Worlds
    <3>9. Tells(r, S)
      BY <1>1, <3>7, SameTells
    <3>10. r.count <= r.capacity
      BY <1>1, <3>6 DEF Placed
    <3>11. Vacated(w, w.b, g)
      BY <1>1, InlineVacates
    <3>12. y.b = [w.b EXCEPT ![Fresh(w)] =
                    [live |-> TRUE, rc |-> 1, bytes |-> r.capacity, values |-> S]]
      BY <3>6, <3>8 DEF B, F, Cellof
    <3>13. r.at = Fresh(w) /\ r.owner = (IF counted THEN "shared" ELSE "unique")
      BY <1>4, <3>6 DEF F
    <3>14. Sound(y, [V EXCEPT ![g] = S])
      BY <1>1, <3>6, <3>8, <3>9, <3>10, <3>11, <3>12, <3>13, Settles
    <3>15. Done(w, y, V, g, S)
      BY <3>1, <3>8, <3>14 DEF Done
    <3>16. QED
      BY <3>2, <3>15 DEF x, S
  <2>6. QED
    BY <2>4, <2>5
<1>5. QED
  BY <1>2, <1>3, <1>4


\* The payload of h comes to be the one of g, which had none.
Carried(w, g, h) == [w EXCEPT !.h = [w.h EXCEPT ![g] = w.h[h], ![h] = Empty]]

LEMMA CarriedIsSound ==
  ASSUME NEW w, NEW V, NEW g \in Handles, NEW h \in Handles, Sound(w, V), g # h,
         w.h[g] = Empty
  PROVE  LET x == Carried(w, g, h) IN
           Sound(x, [V EXCEPT ![g] = V[h], ![h] = {}]) /\ x.m = w.m /\ x.thrown = w.thrown
<1> DEFINE q == w.h[h]
           H == [w.h EXCEPT ![g] = q, ![h] = Empty]
           N == [V EXCEPT ![g] = V[h], ![h] = {}]
           x == Carried(w, g, h)
<1>1. /\ w \in Worlds /\ w.h \in [Handles -> Header] /\ q \in Header
      /\ V \in [Handles -> SUBSET Values]
  BY DEF Sound, Worlds
<1>2. /\ Empty \in Header /\ Empty.at = Inline /\ Empty.owner = "unique" /\ Empty.here = {}
      /\ Empty.count <= Empty.capacity /\ Tells(Empty, {})
  BY EmptyHeader
<1>3. x = [w EXCEPT !.h = H]
  BY DEF Carried
<1>4. H \in [Handles -> Header] /\ H[g] = q /\ H[h] = Empty
      /\ \A a \in Handles : a # g /\ a # h => H[a] = w.h[a]
  BY <1>1, <1>2
<1> HIDE DEF H, x
<1>5. x \in Worlds /\ x.h = H /\ x.b = w.b /\ x.m = w.m /\ x.thrown = w.thrown
  BY <1>1, <1>3, <1>4 DEF Worlds
<1>6. ASSUME NEW b \in Blocks
      PROVE  Accounted(x.h, x.b, b, OnBlock(x.h, b))
  <2> DEFINE Q == OnBlock(w.h, b)
             P == OnBlock(x.h, b)
  <2>1. Accounted(w.h, w.b, b, Q)
    BY DEF Sound
  <2>2. g \notin Q
    BY <1>2, PlacesApart DEF OnBlock
  <2>3. h \notin P
    BY <1>2, <1>4, <1>5, PlacesApart DEF OnBlock
  <2>4. g \in P <=> h \in Q
    BY <1>4, <1>5 DEF OnBlock
  <2>5. \A a : a # g /\ a # h => (a \in P <=> a \in Q)
    BY <1>4, <1>5 DEF OnBlock
  <2>6. IsFiniteSet(Q) /\ Cardinality(Q) \in Nat /\ IsFiniteSet(Q \ {h})
        /\ Cardinality(Q \ {h}) = Cardinality(Q) - (IF h \in Q THEN 1 ELSE 0)
    BY OnBlockFinite
  <2>7. P \subseteq Handles
    BY DEF OnBlock
  <2> HIDE DEF P, Q
  <2>8. CASE h \in Q
    <3>1. P = (Q \ {h}) \cup {g}
      BY <2>2, <2>3, <2>4, <2>5, <2>8
    <3>2. g \notin Q \ {h}
      BY <2>2
    <3>3. Cardinality(P) = Cardinality(Q)
      <4>1. Cardinality((Q \ {h}) \cup {g}) = Cardinality(Q \ {h}) + 1
        BY <2>6, <3>2, FS_AddElement
      <4>2. QED
        BY <2>6, <2>8, <3>1, <4>1
    <3>4. w.b[b].live /\ P # {}
      BY <2>1, <2>8, <3>1 DEF Accounted
    <3>5. \A a \in P : x.h[a].capacity = x.b[b].bytes
      <4>1. \A a \in Q : w.h[a].capacity = w.b[b].bytes
        BY <2>1 DEF Accounted
      <4>2. x.h[g].capacity = w.b[b].bytes
        BY <1>4, <1>5, <2>8, <4>1
      <4>3. ASSUME NEW a \in P
            PROVE  x.h[a].capacity = w.b[b].bytes
        <5>1. CASE a = g
          BY <4>2, <5>1
        <5>2. CASE a # g
          BY <1>4, <1>5, <2>3, <2>5, <2>7, <4>1, <5>2
        <5>3. QED
          BY <5>1, <5>2
      <4>4. QED
        BY <1>5, <4>3
    <3>6. x.b[b] = w.b[b]
      BY <1>5
    <3>7. w.b[b].rc = (IF counted THEN Cardinality(P) ELSE 1)
          /\ (~counted => Cardinality(P) <= 1)
      BY <2>1, <3>3, <3>4 DEF Accounted
    <3>8. QED
      BY <3>4, <3>5, <3>6, <3>7 DEF Accounted, P
  <2>9. CASE h \notin Q
    <3>1. P = Q
      BY <2>2, <2>3, <2>4, <2>5, <2>9
    <3>2. \A a \in Q : x.h[a] = w.h[a]
      BY <1>4, <1>5, <2>2, <2>7, <2>9, <3>1
    <3>3. Accounted(x.h, x.b, b, P)
      BY <1>5, <2>1, <3>1, <3>2 DEF Accounted
    <3>4. QED
      BY <3>3 DEF P
  <2>10. QED
    BY <2>8, <2>9
<1>7. N \in [Handles -> SUBSET Values] /\ N[g] = V[h] /\ N[h] = {}
      /\ \A a \in Handles : a # g /\ a # h => N[a] = V[a]
  BY <1>1
<1> HIDE DEF N
<1>8. ASSUME NEW a \in Handles
      PROVE  Placed(x.h[a], x.b) /\ Held(x, a) = N[a] /\ Tells(x.h[a], N[a])
  <2>1. CASE a = h
    <3>1. x.h[a] = Empty /\ N[a] = {}
      BY <1>4, <1>5, <1>7, <2>1
    <3>2. Held(x, a) = {}
      BY <1>2, <3>1, HeldHere
    <3>3. Placed(Empty, x.b)
      BY <1>2, PlacesApart DEF Placed
    <3>4. QED
      BY <1>2, <3>1, <3>2, <3>3
  <2>2. CASE a = g
    <3>1. x.h[a] = q /\ N[a] = V[h]
      BY <1>4, <1>5, <1>7, <2>2
    <3>2. Placed(q, w.b) /\ Held(w, h) = V[h] /\ Tells(q, V[h])
      BY DEF Sound
    <3>3. Held(x, a) = Held(w, h)
      BY <1>5, <3>1 DEF Held
    <3>4. QED
      BY <1>5, <3>1, <3>2, <3>3
  <2>3. CASE a # h /\ a # g
    <3>1. x.h[a] = w.h[a] /\ N[a] = V[a]
      BY <1>4, <1>5, <1>7, <2>3
    <3>2. Placed(w.h[a], w.b) /\ Held(w, a) = V[a] /\ Tells(w.h[a], V[a])
      BY DEF Sound
    <3>3. Held(x, a) = Held(w, a)
      BY <1>5, <3>1 DEF Held
    <3>4. QED
      BY <1>5, <3>1, <3>2, <3>3
  <2>4. QED
    BY <2>1, <2>2, <2>3
<1>9. Sound(x, N)
  BY <1>5, <1>6, <1>7, <1>8 DEF Sound
<1>10. QED
  BY <1>5, <1>9 DEF x, N

LEMMA MovedIsSound ==
  ASSUME NEW w, NEW V, NEW g \in Handles, NEW h \in Handles, Sound(w, V), Unaliased(w, g),
         g # h
  PROVE  Sound(Moved(w, g, h), [V EXCEPT ![g] = V[h], ![h] = {}]) /\ Moved(w, g, h).m = w.m
<1> DEFINE r == Release(w, g)
           x == Moved(w, g, h)
           y == Reset(r, g)
           z == Carried(y, g, h)
           N == [V EXCEPT ![g] = {}]
<1>1. Sound(y, N) /\ y.m = w.m /\ y.h = [w.h EXCEPT ![g] = Empty]
  BY ResetIsSound
<1>2. r \in Worlds /\ r.h = w.h
  BY LetsGo
<1>3. w.h \in [Handles -> Header] /\ V \in [Handles -> SUBSET Values]
  BY DEF Sound, Worlds
<1>4. y.h[g] = Empty /\ y.h[h] = w.h[h]
  BY <1>1, <1>3
<1>5. y = [r EXCEPT !.h = [w.h EXCEPT ![g] = Empty]]
  BY <1>2 DEF Reset
<1>6. x = [r EXCEPT !.h = [w.h EXCEPT ![g] = w.h[h], ![h] = Empty]]
  BY <1>2 DEF Moved
<1> HIDE DEF y
<1>7. z = [y EXCEPT !.h = [y.h EXCEPT ![g] = w.h[h], ![h] = Empty]]
  BY <1>4 DEF Carried
<1>8. [y.h EXCEPT ![g] = w.h[h], ![h] = Empty] = [w.h EXCEPT ![g] = w.h[h], ![h] = Empty]
  BY <1>1, <1>3
<1> HIDE DEF z, x, r
<1>9. z = x
  BY <1>2, <1>5, <1>6, <1>7, <1>8 DEF Worlds
<1>10. Sound(z, [N EXCEPT ![g] = N[h], ![h] = {}]) /\ z.m = y.m
  <2> HIDE DEF N
  <2>1. Sound(y, N) /\ y.h[g] = Empty /\ g # h
    BY <1>1, <1>4
  <2>2. LET c == Carried(y, g, h) IN
          Sound(c, [N EXCEPT ![g] = N[h], ![h] = {}]) /\ c.m = y.m /\ c.thrown = y.thrown
    BY <2>1, CarriedIsSound
  <2>3. QED
    BY <2>2 DEF z
<1>11. [N EXCEPT ![g] = N[h], ![h] = {}] = [V EXCEPT ![g] = V[h], ![h] = {}]
  BY <1>3
<1>12. QED
  BY <1>1, <1>9, <1>10, <1>11 DEF x, r


\* Shrinking and filling anew, as calls.
LEMMA ShrunkDone ==
  ASSUME NEW w, NEW V, NEW h \in Handles, Sound(w, V), Unaliased(w, h), ~w.thrown
  PROVE  Done(w, Shrunk(w, h), V, h, V[h])
<1> DEFINE x == Shrunk(w, h)
<1>1. Sound(x, V) /\ ~x.thrown /\ x.m = w.m
  BY ShrunkIsSound
<1>2. [V EXCEPT ![h] = V[h]] = V
  BY DEF Sound
<1> HIDE DEF x
<1>3. Done(w, x, V, h, V[h])
  BY <1>1, <1>2 DEF Done
<1>4. QED
  BY <1>3 DEF x

LEMMA ReusableIsOwn ==
  ASSUME NEW w, NEW V, NEW h \in Handles, Sound(w, V), Unaliased(w, h), NEW kind,
         OffersReusable(w, h, kind)
  PROVE  Own(w, h) /\ w.h[h].kind = kind
<1>1. Placed(w.h[h], w.b)
  BY DEF Sound
<1>2. Spilled(w, h) /\ w.h[h].kind = kind
      /\ (w.h[h].owner = "unique" \/ (w.h[h].owner = "shared" /\ counted /\ w.b[w.h[h].at].rc = 1))
  BY DEF OffersReusable
<1>3. Unshared(w, h)
  <2>1. CASE w.h[h].owner = "unique"
    BY <1>1, <1>2, <2>1 DEF Placed, Spilled, Unshared
  <2>2. CASE w.h[h].owner = "shared" /\ counted /\ w.b[w.h[h].at].rc = 1
    BY <2>2 DEF Unshared
  <2>3. QED
    BY <1>2, <2>1, <2>2
<1>4. QED
  BY <1>2, <1>3, Sole

-----------------------------------------------------------------------------
(***************************************************************************)
(* The state and the world a call runs in.                                 *)
(***************************************************************************)
LEMMA WorldIs ==
  ASSUME NEW n
  PROVE  /\ World(n).h = handle /\ World(n).b = block /\ World(n).m = mapping
         /\ World(n).left = n /\ World(n).thrown = FALSE
  BY DEF World

LEMMA WorldHolds ==
  ASSUME NEW n, NEW h
  PROVE  Held(World(n), h) = Contents(h)
<1>1. World(n).h = World(0).h /\ World(n).b = World(0).b /\ World(n).m = World(0).m
  BY WorldIs
<1>2. QED
  BY <1>1 DEF Held, Contents

LEMMA StateIsSound ==
  ASSUME IInv, NEW n \in Nat
  PROVE  Sound(World(n), held) /\ ~World(n).thrown
<1> DEFINE w == World(n)
<1>1. w.h = handle /\ w.b = block /\ w.m = mapping /\ w.left = n /\ ~w.thrown
  BY WorldIs
<1>2. /\ handle \in [Handles -> Header] /\ block \in [Blocks -> Cell]
      /\ mapping \in [Images -> SUBSET Values] /\ held \in [Handles -> SUBSET Values]
  BY DEF IInv, TypeOK
<1>3. w \in Worlds
  BY <1>2 DEF World, Worlds
<1>4. \A h \in Handles : Held(w, h) = Contents(h) /\ Contents(h) = held[h]
  BY WorldHolds DEF IInv, HandlesHoldTheirValues
<1>5. ASSUME NEW b \in Blocks
      PROVE  Accounted(w.h, w.b, b, OnBlock(w.h, b))
  <2>1. OnBlock(w.h, b) = Holders(b)
    BY <1>1 DEF OnBlock, Holders
  <2>2. /\ block[b].live <=> Holders(b) # {}
        /\ block[b].live => block[b].rc = (IF counted THEN Cardinality(Holders(b)) ELSE 1)
        /\ ~counted => Cardinality(Holders(b)) <= 1
        /\ \A h \in Holders(b) : handle[h].capacity = block[b].bytes
    BY DEF IInv, BlocksAreAccounted
  <2>3. QED
    BY <1>1, <2>1, <2>2 DEF Accounted
<1>6. ASSUME NEW h \in Handles
      PROVE  Placed(w.h[h], w.b) /\ Held(w, h) = held[h] /\ Tells(w.h[h], held[h])
  <2>1. /\ handle[h].count <= handle[h].capacity
        /\ handle[h].at = Inline => handle[h].owner = "unique"
        /\ counted /\ handle[h].owner = "unique" => handle[h].at = Inline
        /\ handle[h].at \in Blocks => block[handle[h].at].live
        /\ handle[h].at \in Images => handle[h].owner = "borrowed"
    BY DEF IInv, BlocksAreAccounted, BorrowsImages
  <2>2. Placed(w.h[h], w.b)
    BY <1>1, <2>1 DEF Placed
  <2>3. Contents(h) = held[h]
    BY <1>4
  <2>4. /\ handle[h].count = CountOf(handle[h].kind, held[h])
        /\ handle[h].card \in 0..Cardinality(held[h])
        /\ handle[h].exact => handle[h].card = Cardinality(held[h])
        /\ handle[h].ends # Nothing =>
             \A v \in held[h] : handle[h].ends[1] <= v /\ v <= handle[h].ends[2]
        /\ handle[h].kind # "bitset" => handle[h].exact
        /\ handle[h].kind # "bitset" /\ held[h] # {} => handle[h].ends = Ends(held[h])
    BY <2>3 DEF IInv, HeaderTellsPayload, LateBitsetsOnly
  <2>5. Tells(w.h[h], held[h])
    BY <1>1, <2>4 DEF Tells
  <2>6. QED
    BY <1>4, <2>2, <2>5
<1> HIDE DEF w
<1>7. Sound(w, held)
  BY <1>2, <1>3, <1>5, <1>6 DEF Sound
<1>8. QED
  BY <1>1, <1>7 DEF w

LEMMA ResultIsSound ==
  ASSUME IInv, NEW w, NEW N, Sound(w, N), w.m = mapping, Finish(w), held' = N
  PROVE  IInv'
<1>1. handle' = w.h /\ block' = w.b /\ mapping' = w.m /\ mapping' = mapping
      /\ counted' = counted
  BY DEF Finish
<1>2. /\ w \in Worlds /\ w.h \in [Handles -> Header] /\ w.b \in [Blocks -> Cell]
      /\ w.m \in [Images -> SUBSET Values] /\ N \in [Handles -> SUBSET Values]
  BY DEF Sound, Worlds
<1>3. TypeOK' /\ ImageIsAsMapped'
  BY <1>1, <1>2 DEF TypeOK, IInv, ImageIsAsMapped
<1>4. \A h \in Handles : Contents(h)' = Held(w, h)
  <2> SUFFICES ASSUME NEW h \in Handles PROVE Contents(h)' = Held(w, h)
    OBVIOUS
  <2> DEFINE u == [h |-> handle', b |-> block', m |-> mapping', left |-> 0, thrown |-> FALSE]
  <2>1. Contents(h)' = Held(u, h)
    BY DEF Contents, Held, World
  <2>2. u.h = w.h /\ u.b = w.b /\ u.m = w.m
    BY <1>1
  <2> HIDE DEF u
  <2>3. Held(u, h) = Held(w, h)
    BY <2>2 DEF Held
  <2>4. QED
    BY <2>1, <2>3
<1>5. \A h \in Handles : Placed(w.h[h], w.b) /\ Held(w, h) = N[h] /\ Tells(w.h[h], N[h])
  BY DEF Sound
<1>6. HandlesHoldTheirValues'
  BY <1>4, <1>5 DEF HandlesHoldTheirValues
<1>7. BorrowsImages' /\ LateBitsetsOnly'
  <2>1. BorrowsImages'
    BY <1>1, <1>5 DEF BorrowsImages, Placed
  <2>2. LateBitsetsOnly'
    BY <1>1, <1>5 DEF LateBitsetsOnly, Tells
  <2>3. QED
    BY <2>1, <2>2
<1>8. HeaderTellsPayload'
  <2> SUFFICES ASSUME NEW h \in Handles
               PROVE  LET S == Contents(h)'
                          ends == handle'[h].ends
                      IN  /\ handle'[h].count = CountOf(handle'[h].kind, S)
                          /\ handle'[h].card \in 0..Cardinality(S)
                          /\ handle'[h].exact => handle'[h].card = Cardinality(S)
                          /\ ends # Nothing => \A v \in S : ends[1] <= v /\ v <= ends[2]
                          /\ handle'[h].kind # "bitset" /\ S # {} =>
                               handle'[h].exact /\ ends = Ends(S)
    BY DEF HeaderTellsPayload
  <2>1. Contents(h)' = N[h] /\ handle'[h] = w.h[h]
    BY <1>1, <1>4, <1>5
  <2>2. /\ w.h[h].count = CountOf(w.h[h].kind, N[h])
        /\ w.h[h].card \in 0..Cardinality(N[h])
        /\ w.h[h].exact => w.h[h].card = Cardinality(N[h])
        /\ w.h[h].ends # Nothing =>
             \A v \in N[h] : w.h[h].ends[1] <= v /\ v <= w.h[h].ends[2]
        /\ w.h[h].kind # "bitset" => w.h[h].exact
        /\ w.h[h].kind # "bitset" /\ N[h] # {} => w.h[h].ends = Ends(N[h])
    BY <1>5 DEF Tells
  <2>3. QED
    BY <2>1, <2>2
<1>9. BlocksAreAccounted'
  <2>1. ASSUME NEW b \in Blocks
        PROVE  /\ block'[b].live <=> Holders(b)' # {}
               /\ block'[b].live =>
                    block'[b].rc = (IF counted' THEN Cardinality(Holders(b)') ELSE 1)
               /\ ~counted' => Cardinality(Holders(b)') <= 1
               /\ \A h \in Holders(b)' : handle'[h].capacity = block'[b].bytes
    <3>1. Holders(b)' = OnBlock(w.h, b)
      BY <1>1 DEF Holders, OnBlock
    <3>2. Accounted(w.h, w.b, b, OnBlock(w.h, b))
      BY DEF Sound
    <3> DEFINE Q == OnBlock(w.h, b)
    <3> HIDE DEF Q
    <3>3. Holders(b)' = Q /\ Accounted(w.h, w.b, b, Q)
      BY <3>1, <3>2 DEF Q
    <3>4. QED
      BY <1>1, <3>3 DEF Accounted
  <2>2. ASSUME NEW h \in Handles
        PROVE  /\ handle'[h].count <= handle'[h].capacity
               /\ handle'[h].at = Inline => handle'[h].owner = "unique"
               /\ counted' /\ handle'[h].owner = "unique" => handle'[h].at = Inline
               /\ handle'[h].at \in Blocks => block'[handle'[h].at].live
    BY <1>1, <1>5 DEF Placed
  <2>3. QED
    BY <2>1, <2>2 DEF BlocksAreAccounted
<1>10. QED
  BY <1>3, <1>6, <1>7, <1>8, <1>9 DEF IInv

\* A call that is done as it should be leaves a state as it should be.
LEMMA CallIsSound ==
  ASSUME IInv, NEW n \in Nat, NEW x, NEW h \in Handles, NEW S,
         Done(World(n), x, held, h, S), Leaves(x, h, S)
  PROVE  IInv' /\ mapping' = mapping
<1>1. x.m = mapping /\ Finish(x)
  BY WorldIs DEF Done, Leaves
<1>2. CASE x.thrown
  <2>1. Sound(x, held) /\ held' = held
    BY <1>2 DEF Done, Leaves
  <2>2. IInv'
    BY <1>1, <2>1, ResultIsSound
  <2>3. QED
    BY <1>1, <2>2 DEF Finish
<1>3. CASE ~x.thrown
  <2> DEFINE N == [held EXCEPT ![h] = S]
  <2>1. Sound(x, N) /\ held' = N
    BY <1>3 DEF Done, Leaves
  <2> HIDE DEF N
  <2>2. IInv'
    BY <1>1, <2>1, ResultIsSound
  <2>3. QED
    BY <1>1, <2>2 DEF Finish
<1>4. QED
  BY <1>2, <1>3

LEMMA ChangeIsUnaliased ==
  ASSUME NEW n, NEW h, MayChange(h)
  PROVE  Unaliased(World(n), h)
<1>1. World(n).h = handle /\ World(0).h = handle /\ World(n).b = World(0).b
  BY WorldIs
<1>2. Unshared(World(n), h) <=> Unshared(World(0), h)
  BY <1>1 DEF Unshared, Spilled
<1>3. QED
  BY <1>1, <1>2 DEF MayChange, Unaliased


-----------------------------------------------------------------------------
(***************************************************************************)
(* The calls.                                                              *)
(***************************************************************************)
LEMMA MakeKeeps ==
  ASSUME IInv, NEW h \in Handles, NEW kind \in {"array", "run", "bitset"},
         NEW S \in SUBSET Values, NEW n \in Nat, Make(h, kind, S, n)
  PROVE  IInv' /\ mapping' = mapping
<1> DEFINE w == World(n)
           x == Made(w, h, kind, S)
<1>1. Sound(w, held) /\ ~w.thrown
  BY StateIsSound
<1>2. w.h[h] = Empty /\ ~x.thrown /\ Leaves(x, h, S)
  BY WorldIs DEF Make
<1>3. Done(w, x, held, h, S)
  <2> HIDE DEF w
  <2>1. QED
    BY <1>1, <1>2, MadeDone
<1> HIDE DEF x
<1>4. QED
  BY <1>2, <1>3, CallIsSound

LEMMA BorrowKeeps ==
  ASSUME IInv, NEW h \in Handles, NEW image \in Images, Borrow(h, image)
  PROVE  IInv' /\ mapping' = mapping
<1> DEFINE w == World(0)
           x == Borrowed(w, h, image)
           S == w.m[image]
<1>1. Sound(w, held) /\ ~w.thrown
  BY StateIsSound
<1>2. w.h[h] = Empty /\ w.m = mapping
  BY WorldIs DEF Borrow
<1>3. Leaves(x, h, S)
  BY <1>2 DEF Borrow
<1>4. S # {}
  <2>1. S = ImageValues[image]
    BY <1>2 DEF IInv, ImageIsAsMapped
  <2>2. ImageValues[image] # {}
    BY PlacesAssumption
  <2> HIDE DEF S
  <2>3. QED
    BY <2>1, <2>2
<1>5. Done(w, x, held, h, S)
  <2> HIDE DEF w
  <2>1. QED
    BY <1>1, <1>2, <1>4, BorrowedDone
<1> HIDE DEF x, S
<1>6. QED
  BY <1>3, <1>5, CallIsSound

LEMMA AliasKeeps ==
  ASSUME IInv, NEW g \in Handles, NEW h \in Handles, Alias(g, h)
  PROVE  IInv' /\ mapping' = mapping
<1> DEFINE w == World(0)
           x == Aliased(w, g, h)
<1>1. Sound(w, held) /\ ~w.thrown
  BY StateIsSound
<1>2. w.h[g] = Empty /\ Leaves(x, g, held[h])
  BY WorldIs DEF Alias
<1>3. Done(w, x, held, g, held[h])
  <2> HIDE DEF w
  <2>1. QED
    BY <1>1, <1>2, AliasedDone
<1> HIDE DEF x
<1>4. QED
  BY <1>2, <1>3, CallIsSound

LEMMA CopyKeeps ==
  ASSUME IInv, NEW g \in Handles, NEW h \in Handles, NEW n \in Nat, Copy(g, h, n)
  PROVE  IInv' /\ mapping' = mapping
<1> DEFINE w == World(n)
           x == Cloned(w, g, h)
<1>1. Sound(w, held) /\ ~w.thrown
  BY StateIsSound
<1>2. w.h[g] = Empty /\ Leaves(x, g, held[h])
  BY WorldIs DEF Copy
<1>3. Done(w, x, held, g, held[h])
  <2> HIDE DEF w
  <2>1. QED
    BY <1>1, <1>2, ClonedDone
<1> HIDE DEF x
<1>4. QED
  BY <1>2, <1>3, CallIsSound

LEMMA MoveKeeps ==
  ASSUME IInv, NEW g \in Handles, NEW h \in Handles, Move(g, h)
  PROVE  IInv' /\ mapping' = mapping
<1> DEFINE w == World(0)
           x == Moved(w, g, h)
           N == [held EXCEPT ![g] = held[h], ![h] = {}]
<1>1. Sound(w, held) /\ w.m = mapping
  BY StateIsSound, WorldIs
<1>2. g # h /\ Unaliased(w, g)
  BY ChangeIsUnaliased DEF Move
<1>3. Finish(x) /\ held' = N
  BY DEF Move
<1>4. Sound(x, N) /\ x.m = w.m
  <2> HIDE DEF w
  <2>1. QED
    BY <1>1, <1>2, MovedIsSound
<1> HIDE DEF x, N, w
<1>5. IInv'
  BY <1>1, <1>3, <1>4, ResultIsSound
<1>6. QED
  BY <1>1, <1>3, <1>4, <1>5 DEF Finish

LEMMA DropKeeps ==
  ASSUME IInv, NEW h \in Handles, NEW n \in Nat, MayChange(h),
         Leaves(Reset(Release(World(n), h), h), h, {})
  PROVE  IInv' /\ mapping' = mapping
<1> DEFINE w == World(n)
           x == Reset(Release(w, h), h)
           N == [held EXCEPT ![h] = {}]
<1>1. Sound(w, held) /\ ~w.thrown
  BY StateIsSound
<1>2. Unaliased(w, h)
  BY ChangeIsUnaliased
<1>3. Sound(x, N) /\ x.m = w.m /\ x.thrown = w.thrown
  <2> HIDE DEF w
  <2>1. QED
    BY <1>1, <1>2, ResetIsSound
<1>4. Leaves(x, h, {})
  OBVIOUS
<1> HIDE DEF x
<1>5. Done(w, x, held, h, {})
  BY <1>1, <1>3 DEF Done
<1>6. QED
  BY <1>4, <1>5, CallIsSound

LEMMA AddKeeps ==
  ASSUME IInv, NEW h \in Handles, NEW v \in Values, NEW n \in Nat,
         Add(h, v, n) \/ Remove(h, v, n)
  PROVE  IInv' /\ mapping' = mapping
<1> DEFINE w == World(n)
<1>1. Sound(w, held) /\ ~w.thrown
  BY StateIsSound
<1>2. Unaliased(w, h)
  BY ChangeIsUnaliased DEF Add, Remove
<1>3. CASE Add(h, v, n)
  <2> DEFINE x == ContainerAdd(MakeUnique(w, h), h, v)
  <2>1. Leaves(x, h, held[h] \cup {v})
    BY <1>3 DEF Add
  <2> HIDE DEF w
  <2>2. Done(w, x, held, h, held[h] \cup {v})
    BY <1>1, <1>2, AddIsDone
  <2> HIDE DEF x
  <2>3. QED
    BY <2>1, <2>2, CallIsSound DEF w
<1>4. CASE Remove(h, v, n)
  <2> DEFINE x == ContainerRemove(MakeUnique(w, h), h, v)
  <2>1. Leaves(x, h, held[h] \ {v})
    BY <1>4 DEF Remove
  <2> HIDE DEF w
  <2>2. Done(w, x, held, h, held[h] \ {v})
    BY <1>1, <1>2, RemoveIsDone
  <2> HIDE DEF x
  <2>3. QED
    BY <2>1, <2>2, CallIsSound DEF w
<1>5. QED
  BY <1>3, <1>4

LEMMA AddAllKeeps ==
  ASSUME IInv, NEW h \in Handles, NEW T \in SUBSET Values, NEW n \in Nat, AddAll(h, T, n)
  PROVE  IInv' /\ mapping' = mapping
<1> DEFINE w == World(n)
           x == ContainerAddAll(w, h, T)
<1>1. Sound(w, held) /\ ~w.thrown
  BY StateIsSound
<1>2. Unaliased(w, h)
  BY ChangeIsUnaliased DEF AddAll
<1>3. Leaves(x, h, held[h] \cup T)
  BY DEF AddAll
<1>4. Done(w, x, held, h, held[h] \cup T)
  <2> HIDE DEF w
  <2>1. QED
    BY <1>1, <1>2, AddAllIsDone
<1> HIDE DEF x
<1>5. QED
  BY <1>3, <1>4, CallIsSound

LEMMA RemoveAllKeeps ==
  ASSUME IInv, NEW h \in Handles, NEW T \in SUBSET Values, NEW n \in Nat, RemoveAll(h, T, n)
  PROVE  IInv' /\ mapping' = mapping
<1> DEFINE w == World(n)
           x == MakeUnique(w, h)
           y == CASE x.thrown -> x
                  [] ~x.thrown /\ x.h[h].kind = "array" -> ArrayRemoveAll(x, h, T)
                  [] ~x.thrown /\ x.h[h].kind = "bitset" -> BitsetRemoveAll(x, h, T)
<1>1. Sound(w, held) /\ ~w.thrown
  BY StateIsSound
<1>2. Unaliased(w, h) /\ w.h[h].kind # "run"
  BY ChangeIsUnaliased, WorldIs DEF RemoveAll
<1>3. Leaves(y, h, held[h] \ T)
  BY DEF RemoveAll
<1>4. Done(w, y, held, h, held[h] \ T)
  <2> HIDE DEF w
  <2>1. QED
    BY <1>1, <1>2, RemoveAllIsDone
<1> HIDE DEF y
<1>5. QED
  BY <1>3, <1>4, CallIsSound

LEMMA FoldKeeps ==
  ASSUME IInv, NEW h \in Handles, NEW T \in SUBSET Values, NEW n \in Nat, Fold(h, T, n)
  PROVE  IInv' /\ mapping' = mapping
<1> DEFINE w == World(n)
           x == MakeUnique(w, h)
           y == IF x.thrown THEN x ELSE LazyUnion(x, h, T)
           z == IF x.thrown THEN x ELSE LazyXor(x, h, T)
<1>1. Sound(w, held) /\ ~w.thrown
  BY StateIsSound
<1>2. Unaliased(w, h) /\ w.h[h].kind = "bitset"
  BY ChangeIsUnaliased, WorldIs DEF Fold
<1>3. Leaves(y, h, held[h] \cup T) \/ Leaves(z, h, SymDiff(held[h], T))
  BY DEF Fold
<1>4. Done(w, y, held, h, held[h] \cup T) /\ Done(w, z, held, h, SymDiff(held[h], T))
  <2> HIDE DEF w
  <2>1. QED
    BY <1>1, <1>2, FoldIsDone
<1> HIDE DEF y, z
<1>5. QED
  BY <1>3, <1>4, CallIsSound

LEMMA ReadsKeep ==
  ASSUME IInv, NEW h \in Handles, Repair(h) \/ ReadEnds(h)
  PROVE  IInv' /\ mapping' = mapping
<1> DEFINE w == World(0)
           y == Settled(w, h)
           z == EnsureEnds(w, h)
<1>1. Sound(w, held) /\ ~w.thrown
  BY StateIsSound
<1>2. Leaves(y, h, held[h]) \/ Leaves(z, h, held[h])
  BY DEF Repair, ReadEnds
<1>3. Done(w, y, held, h, held[h]) /\ Done(w, z, held, h, held[h])
  <2> HIDE DEF w
  <2>1. QED
    BY <1>1, SettledDone, EnsureEndsDone
<1> HIDE DEF y, z
<1>4. QED
  BY <1>2, <1>3, CallIsSound

LEMMA ShrinkKeeps ==
  ASSUME IInv, NEW h \in Handles, NEW n \in Nat, Shrink(h, n)
  PROVE  IInv' /\ mapping' = mapping
<1> DEFINE w == World(n)
           x == Shrunk(w, h)
<1>1. Sound(w, held) /\ ~w.thrown
  BY StateIsSound
<1>2. Unaliased(w, h)
  BY ChangeIsUnaliased DEF Shrink
<1>3. Leaves(x, h, held[h])
  BY DEF Shrink
<1>4. Done(w, x, held, h, held[h])
  <2> HIDE DEF w
  <2>1. QED
    BY <1>1, <1>2, ShrunkDone
<1> HIDE DEF x
<1>5. QED
  BY <1>3, <1>4, CallIsSound

LEMMA ReuseKeeps ==
  ASSUME IInv, NEW h \in Handles, NEW S \in SUBSET Values, NEW n \in Nat, Reuse(h, S, n)
  PROVE  IInv' /\ mapping' = mapping
<1> DEFINE w == World(n)
<1>1. Sound(w, held) /\ ~w.thrown
  BY StateIsSound
<1>2. Unaliased(w, h) /\ MayChange(h)
  BY ChangeIsUnaliased DEF Reuse
<1>3. CASE OffersReusable(w, h, "array") /\ ~ReusedArray(w, h, S).thrown
           /\ Leaves(ReusedArray(w, h, S), h, S)
  <2> DEFINE x == ReusedArray(w, h, S)
  <2> HIDE DEF w
  <2>1. Own(w, h) /\ w.h[h].kind = "array"
    BY <1>1, <1>2, <1>3, ReusableIsOwn
  <2>2. LET y == ReusedArray(w, h, S) IN
          y.m = w.m /\ (~y.thrown => Sound(y, [held EXCEPT ![h] = S]))
    BY <1>1, <2>1, ReusedArrayDone
  <2>3. x.m = w.m /\ ~x.thrown /\ Sound(x, [held EXCEPT ![h] = S]) /\ Leaves(x, h, S)
    BY <1>3, <2>2
  <2> HIDE DEF x
  <2>4. Done(w, x, held, h, S)
    BY <2>3 DEF Done
  <2>5. QED
    BY <2>3, <2>4, CallIsSound DEF w
<1>4. CASE Leaves(Reset(Release(w, h), h), h, {})
  BY <1>2, <1>4, DropKeeps
<1>5. CASE OffersReusable(w, h, "bitset") /\ Leaves(ReusedBitset(w, h, S), h, S)
  <2> DEFINE x == ReusedBitset(w, h, S)
  <2> HIDE DEF w
  <2>1. Own(w, h) /\ w.h[h].kind = "bitset"
    BY <1>1, <1>2, <1>5, ReusableIsOwn
  <2>2. Done(w, x, held, h, S) /\ Leaves(x, h, S)
    BY <1>1, <1>5, <2>1, ReusedBitsetDone
  <2> HIDE DEF x
  <2>3. QED
    BY <2>2, CallIsSound DEF w
<1>6. QED
  BY <1>3, <1>4, <1>5 DEF Reuse


-----------------------------------------------------------------------------
(***************************************************************************)
(* The theorems.                                                           *)
(***************************************************************************)
LEMMA InitIsSound == Init => IInv
<1> SUFFICES ASSUME Init PROVE IInv
  OBVIOUS
<1>1. /\ counted \in BOOLEAN /\ handle = [h \in Handles |-> Empty]
      /\ block = [b \in Blocks |-> Free] /\ mapping = ImageValues
      /\ held = [h \in Handles |-> {}]
  BY DEF Init
<1>2. /\ Empty \in Header /\ Empty.at = Inline /\ Empty.owner = "unique" /\ Empty.here = {}
      /\ Empty.count <= Empty.capacity /\ Tells(Empty, {})
  BY EmptyHeader
<1>3. Free \in Cell /\ ~Free.live
  BY DEF Free, Cell
<1>4. \A h \in Handles : handle[h] = Empty /\ Contents(h) = {} /\ held[h] = {}
  <2> SUFFICES ASSUME NEW h \in Handles
               PROVE  handle[h] = Empty /\ Contents(h) = {} /\ held[h] = {}
    OBVIOUS
  <2>1. handle[h] = Empty /\ held[h] = {}
    BY <1>1
  <2>2. World(0).h[h] = Empty
    BY <2>1, WorldIs
  <2>3. Held(World(0), h) = {}
    BY <1>2, <2>2, HeldHere
  <2>4. QED
    BY <2>1, <2>3 DEF Contents
<1>5. TypeOK
  <2>1. mapping \in [Images -> SUBSET Values]
    BY <1>1, PlacesAssumption DEF Values
  <2>2. handle \in [Handles -> Header] /\ block \in [Blocks -> Cell]
    BY <1>1, <1>2, <1>3
  <2>3. held \in [Handles -> SUBSET Values]
    BY <1>1
  <2>4. QED
    BY <1>1, <2>1, <2>2, <2>3 DEF TypeOK
<1>6. BorrowsImages /\ HandlesHoldTheirValues
  BY <1>2, <1>4, PlacesApart DEF BorrowsImages, HandlesHoldTheirValues
<1>7. LateBitsetsOnly /\ HeaderTellsPayload
  <2>1. /\ Empty.count = CountOf(Empty.kind, {}) /\ Empty.card \in 0..Cardinality({})
        /\ Empty.exact => Empty.card = Cardinality({})
        /\ Empty.kind # "bitset" => Empty.exact
    BY <1>2 DEF Tells
  <2>2. LateBitsetsOnly
    BY <1>4, <2>1 DEF LateBitsetsOnly
  <2>3. HeaderTellsPayload
    BY <1>4, <2>1 DEF HeaderTellsPayload
  <2>4. QED
    BY <2>2, <2>3
<1>8. BlocksAreAccounted
  <2>1. ASSUME NEW b \in Blocks
        PROVE  Holders(b) = {} /\ ~block[b].live
    BY <1>1, <1>2, <1>3, <1>4, PlacesApart DEF Holders
  <2>2. Cardinality({}) = 0
    BY FS_EmptySet
  <2>3. \A h \in Handles :
          /\ handle[h].count <= handle[h].capacity
          /\ handle[h].at = Inline /\ handle[h].owner = "unique"
          /\ handle[h].at \notin Blocks
    BY <1>2, <1>4, PlacesApart
  <2>4. QED
    BY <2>1, <2>2, <2>3 DEF BlocksAreAccounted
<1>9. QED
  BY <1>1, <1>5, <1>6, <1>7, <1>8 DEF IInv, ImageIsAsMapped

LEMMA StepIsSound == IInv /\ [Next]_vars => IInv' /\ mapping' = mapping
<1> SUFFICES ASSUME IInv, [Next]_vars PROVE IInv' /\ mapping' = mapping
  OBVIOUS
<1>1. CASE UNCHANGED vars
  <2>1. /\ handle' = handle /\ block' = block /\ mapping' = mapping /\ held' = held
        /\ counted' = counted
    BY <1>1 DEF vars
  <2>2. Sound(World(0), held) /\ World(0).h = handle /\ World(0).b = block
        /\ World(0).m = mapping
    BY StateIsSound, WorldIs
  <2>3. Finish(World(0))
    BY <2>1, <2>2 DEF Finish
  <2>4. IInv'
    BY <2>1, <2>2, <2>3, ResultIsSound
  <2>5. QED
    BY <2>1, <2>4
<1>2. CASE Next
  <2>1. PICK h \in Handles :
          \/ Drop(h) \/ Repair(h) \/ ReadEnds(h)
          \/ \E image \in Images : Borrow(h, image)
          \/ \E g \in Handles : Alias(g, h) \/ Move(g, h)
          \/ \E n \in Refusals(h) :
                \/ Shrink(h, n)
                \/ \E g \in Handles : Copy(g, h, n)
                \/ \E v \in Values : Add(h, v, n) \/ Remove(h, v, n)
                \/ \E S \in Batches :
                      \/ AddAll(h, S, n) \/ RemoveAll(h, S, n) \/ Fold(h, S, n) \/ Reuse(h, S, n)
                      \/ \E kind \in {"array", "run", "bitset"} : Make(h, kind, S, n)
    BY <1>2 DEF Next
  <2>2. CASE Drop(h)
    BY <2>2, DropKeeps DEF Drop
  <2>3. CASE Repair(h) \/ ReadEnds(h)
    BY <2>3, ReadsKeep
  <2>4. CASE \E image \in Images : Borrow(h, image)
    BY <2>4, BorrowKeeps
  <2>5. CASE \E g \in Handles : Alias(g, h) \/ Move(g, h)
    BY <2>5, AliasKeeps, MoveKeeps
  <2>6. ASSUME NEW n \in Refusals(h),
               \/ Shrink(h, n)
               \/ \E g \in Handles : Copy(g, h, n)
               \/ \E v \in Values : Add(h, v, n) \/ Remove(h, v, n)
        PROVE  IInv' /\ mapping' = mapping
    <3>1. n \in Nat
      BY DEF Refusals
    <3>2. QED
      BY <2>6, <3>1, ShrinkKeeps, CopyKeeps, AddKeeps
  <2>7. ASSUME NEW n \in Refusals(h), NEW S \in Batches,
               \/ AddAll(h, S, n) \/ RemoveAll(h, S, n) \/ Fold(h, S, n) \/ Reuse(h, S, n)
               \/ \E kind \in {"array", "run", "bitset"} : Make(h, kind, S, n)
        PROVE  IInv' /\ mapping' = mapping
    <3>1. n \in Nat
      BY DEF Refusals
    <3>2. S \in SUBSET Values
      BY SizesAssumption DEF Values
    <3>3. QED
      BY <2>7, <3>1, <3>2, AddAllKeeps, RemoveAllKeeps, FoldKeeps, ReuseKeeps, MakeKeeps
  <2>8. QED
    BY <2>1, <2>2, <2>3, <2>4, <2>5, <2>6, <2>7
<1>3. QED
  BY <1>1, <1>2

\* The invariant of the storage: the types, the accounts of the heap, and every
\* header true of the payload its handle holds, whatever calls of
\* container_handle.hpp came before and whichever allocation was refused.
THEOREM Invariant == Spec => []IInv
<1>1. Init => IInv
  BY InitIsSound
<1>2. IInv /\ [Next]_vars => IInv'
  BY StepIsSound
<1>3. QED
  BY <1>1, <1>2, PTL DEF Spec

\* Every handle holds the values its own calls left in it: a write through one
\* handle never shows in another that shares, aliases or borrows the payload,
\* and a call that throws leaves the values as they were
\* (container_handle.hpp:249-259, 752-840).
THEOREM ValuesHold == Spec => []HandlesHoldTheirValues
<1>1. IInv => HandlesHoldTheirValues
  BY DEF IInv
<1>2. QED
  BY <1>1, Invariant, PTL

\* The header can be trusted without the payload, after every call
\* (container_handle.hpp:216-245).
THEOREM HeadersTell == Spec => []HeaderTellsPayload
<1>1. IInv => HeaderTellsPayload
  BY DEF IInv
<1>2. QED
  BY <1>1, Invariant, PTL

\* No block leaks or is freed while a handle holds it, its count names its
\* holders, and it is freed with the size it was given
\* (container_handle.hpp:632-640, 725, 752-815).
THEOREM BlocksAccounted == Spec => []BlocksAreAccounted
<1>1. IInv => BlocksAreAccounted
  BY DEF IInv
<1>2. QED
  BY <1>1, Invariant, PTL

\* No call writes the image: a borrowed payload is cloned before the first
\* write through any handle on it (container_handle.hpp:306-314, 817-840).
THEOREM ImageOnlyRead == Spec => ImageIsOnlyRead
<1>1. IInv /\ [Next]_vars => [mapping' = mapping]_vars
  BY StepIsSound
<1>2. QED
  BY <1>1, Invariant, PTL DEF Spec, ImageIsOnlyRead
=============================================================================
