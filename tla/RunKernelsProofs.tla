--------------------------- MODULE RunKernelsProofs ---------------------------
(***************************************************************************)
(* Proofs about the kernels over runs, for every domain and all operands:  *)
(* what is written between any two iterations is what has been decided, in *)
(* maximal runs, within the block.                                         *)
(***************************************************************************)
EXTENDS RunKernels, SequenceTheorems, FiniteSetTheorems, WellFoundedInduction, TLAPS

\* Runs in order that do not overlap; and none of which touch.
Ordered(rs) ==
  /\ rs \in Seq(Run)
  /\ \A i \in 1 .. Len(rs) : rs[i].begin <= rs[i].end
  /\ \A i, j \in 1 .. Len(rs) : i < j => rs[i].end < rs[j].begin
Apart(rs) ==
  /\ rs \in Seq(Run)
  /\ \A i \in 1 .. Len(rs) : rs[i].begin <= rs[i].end
  /\ \A i, j \in 1 .. Len(rs) : i < j => rs[i].end + 1 < rs[j].begin

\* A value of one of the runs from one place to another.
Among(v, rs, i, j) == \E k \in i .. j : rs[k].begin <= v /\ v <= rs[k].end

-----------------------------------------------------------------------------
LEMMA LowIsLow ==
  ASSUME NEW n \in Low
  PROVE  AsLow(n) = n
BY LastLowAssumption DEF AsLow, Low

LEMMA RunType ==
  ASSUME NEW r \in Run
  PROVE  r.begin \in Low /\ r.end \in Low /\ r.begin \in Nat /\ r.end \in Nat
         /\ r.begin <= LastLow /\ r.end <= LastLow
BY LastLowAssumption DEF Run, Low

LEMMA RunOfType ==
  ASSUME NEW b \in Low, NEW e \in Low
  PROVE  RunOf(b, e) \in Run /\ RunOf(b, e).begin = b /\ RunOf(b, e).end = e
BY DEF RunOf, Run

LEMMA SeqRunType ==
  ASSUME NEW rs \in Seq(Run)
  PROVE  /\ Len(rs) \in Nat /\ DOMAIN rs = 1 .. Len(rs)
         /\ \A i \in 1 .. Len(rs) : rs[i] \in Run
         /\ \A i \in 1 .. Len(rs) : rs[i].begin \in Nat /\ rs[i].end \in Nat
         /\ rs = <<>> <=> Len(rs) = 0
<1>1. \A i \in 1 .. Len(rs) : rs[i] \in Run
  BY ElementOfSeq
<1> QED BY <1>1, RunType, LenProperties, EmptySeq

LEMMA ApartOrdered ==
  ASSUME NEW rs, Apart(rs)
  PROVE  Ordered(rs)
<1> QED BY SeqRunType DEF Apart, Ordered

LEMMA ApartMaximal ==
  ASSUME NEW rs, Apart(rs)
  PROVE  Maximal(rs)
BY SeqRunType DEF Apart, Maximal

LEMMA ValuesAmong ==
  ASSUME NEW rs \in Seq(Run), NEW v
  PROVE  v \in RunValues(rs) <=> v \in Int /\ Among(v, rs, 1, Len(rs))
<1>1. v \in RunValues(rs) <=> \E i \in 1 .. Len(rs) : v \in rs[i].begin .. rs[i].end
  BY SeqRunType DEF RunValues
<1>2. \A i \in 1 .. Len(rs) : v \in rs[i].begin .. rs[i].end <=> v \in Int /\ rs[i].begin <= v /\ v <= rs[i].end
  BY SeqRunType
<1> QED BY <1>1, <1>2 DEF Among

LEMMA SliceType ==
  ASSUME NEW rs \in Seq(Run), NEW i \in 1 .. Len(rs) + 1, NEW j \in 0 .. Len(rs)
  PROVE  /\ SubSeq(rs, i, j) \in Seq(Run)
         /\ Len(SubSeq(rs, i, j)) = IF i <= j THEN j - i + 1 ELSE 0
         /\ \A k \in 1 .. j - i + 1 : SubSeq(rs, i, j)[k] = rs[k + i - 1]
<1>1. \A k \in i .. j : rs[k] \in Run
  BY SeqRunType
<1> QED BY <1>1, SubSeqProperties, SeqRunType

LEMMA SliceAmong ==
  ASSUME NEW rs \in Seq(Run), NEW i \in 1 .. Len(rs) + 1, NEW j \in 0 .. Len(rs), NEW v
  PROVE  v \in RunValues(SubSeq(rs, i, j)) <=> v \in Int /\ Among(v, rs, i, j)
<1> DEFINE s == SubSeq(rs, i, j)
<1>1. /\ s \in Seq(Run) /\ Len(s) = IF i <= j THEN j - i + 1 ELSE 0
      /\ \A k \in 1 .. j - i + 1 : s[k] = rs[k + i - 1]
  BY SliceType
<1>0. Len(rs) \in Nat
  BY SeqRunType
<1> HIDE DEF s
<1>2. v \in RunValues(s) <=> v \in Int /\ Among(v, s, 1, Len(s))
  BY <1>1, ValuesAmong
<1>3. ASSUME v \in Int, Among(v, s, 1, Len(s)) PROVE Among(v, rs, i, j)
  <2>1. PICK k \in 1 .. Len(s) : s[k].begin <= v /\ v <= s[k].end
    BY <1>3 DEF Among
  <2>2. k + i - 1 \in i .. j /\ s[k] = rs[k + i - 1]
    BY <1>0, <1>1
  <2> QED BY <2>1, <2>2 DEF Among
<1>4. ASSUME v \in Int, Among(v, rs, i, j) PROVE Among(v, s, 1, Len(s))
  <2>1. PICK k \in i .. j : rs[k].begin <= v /\ v <= rs[k].end
    BY <1>4 DEF Among
  <2>2. /\ k - i + 1 \in 1 .. Len(s) /\ k - i + 1 \in 1 .. j - i + 1
        /\ (k - i + 1) + i - 1 = k
    BY <1>0, <1>1
  <2>3. s[k - i + 1] = rs[k]
    BY <1>1, <2>2
  <2> QED BY <2>1, <2>2, <2>3 DEF Among
<1> QED BY <1>2, <1>3, <1>4 DEF s
-----------------------------------------------------------------------------
(***************************************************************************)
(* The operands: the least number of a set, the order of a set of runs, and*)
(* the two ways a set is stored.                                           *)
(***************************************************************************)
LEMMA Least ==
  ASSUME NEW S \in SUBSET Nat, S # {}
  PROVE  Min(S) \in S /\ \A n \in S : Min(S) <= n
<1>1. PICK m \in S : \A n \in S : ~ (<<n, m>> \in OpToRel(<, Nat))
  BY NatLessThanWellFounded, WFMin
<1>2. ASSUME NEW n \in S PROVE m <= n
  <2>1. <<n, m>> \in OpToRel(<, Nat) <=> n < m
    BY DEF OpToRel
  <2>2. ~ (n < m)
    BY <1>1, <2>1, Zenon
  <2>3. n \in Nat /\ m \in Nat
    OBVIOUS
  <2> QED BY <2>2, <2>3
<1> QED BY <1>2 DEF Min

LEMMA Greatest ==
  ASSUME NEW S \in SUBSET Nat, S # {}, NEW top \in Nat, \A n \in S : n <= top
  PROVE  \E m \in S : \A n \in S : n <= m
<1> DEFINE T == {top - n : n \in S}
<1>1. T \in SUBSET Nat /\ T # {}
  <2>1. ASSUME NEW n \in S PROVE top - n \in Nat
    <3>1. n \in Nat /\ n <= top
      OBVIOUS
    <3> QED BY <3>1
  <2>2. T \in SUBSET Nat
    BY <2>1
  <2>3. PICK n \in S : TRUE
    OBVIOUS
  <2>4. top - n \in T
    BY <2>3
  <2> QED BY <2>2, <2>4
<1>2. Min(T) \in T /\ \A n \in T : Min(T) <= n
  BY <1>1, Least
<1>3. PICK m \in S : Min(T) = top - m
  BY <1>2
<1>4. \A n \in S : top - n \in T
  OBVIOUS
<1>5. ASSUME NEW n \in S PROVE n <= m
  <2>1. top - m <= top - n
    BY <1>2, <1>3, <1>4
  <2> QED BY <2>1
<1> QED BY <1>5

\* The run the intersections and the differences skip to.
LEMMA ReachingFirst ==
  ASSUME NEW rs \in Seq(Run), NEW from \in 1 .. Len(rs) + 1, NEW limit \in Int
  PROVE  /\ Reaching(rs, from, limit) \in from .. Len(rs) + 1
         /\ \A i \in from .. Len(rs) : i < Reaching(rs, from, limit) => rs[i].end < limit
         /\ Reaching(rs, from, limit) <= Len(rs) => rs[Reaching(rs, from, limit)].end >= limit
<1> DEFINE S == {i \in from .. Len(rs) : rs[i].end >= limit} \cup {Len(rs) + 1}
<1>1. Len(rs) \in Nat /\ \A i \in 1 .. Len(rs) : rs[i].end \in Nat
  BY SeqRunType
<1>2. S \in SUBSET Nat /\ S # {} /\ Reaching(rs, from, limit) = Min(S)
  BY <1>1 DEF Reaching
<1>3. Min(S) \in S /\ \A n \in S : Min(S) <= n
  BY <1>2, Least
<1>4. Min(S) \in from .. Len(rs) + 1 /\ (Min(S) <= Len(rs) => rs[Min(S)].end >= limit)
  BY <1>1, <1>3
<1>5. ASSUME NEW i \in from .. Len(rs), i < Min(S) PROVE rs[i].end < limit
  BY <1>1, <1>3, <1>4, <1>5
<1> QED BY <1>2, <1>4, <1>5

\* A finite set of runs none of which begin together, by their begins.
LEMMA AscendingOrder ==
  ASSUME NEW S \in SUBSET Run, IsFiniteSet(S),
         \A r, s \in S : r.begin = s.begin => r = s
  PROVE  /\ Ascending(S) \in Seq(Run)
         /\ Len(Ascending(S)) = Cardinality(S)
         /\ \A n \in 1 .. Len(Ascending(S)) : Ascending(S)[n] \in S
         /\ \A r \in S : \E n \in 1 .. Len(Ascending(S)) : Ascending(S)[n] = r
         /\ \A i, j \in 1 .. Len(Ascending(S)) : i < j => Ascending(S)[i].begin < Ascending(S)[j].begin
<1> DEFINE N == Cardinality(S)
           below(r) == {s \in S : s.begin < r.begin}
           place(r) == Cardinality(below(r)) + 1
           rank == [r \in S |-> place(r)]
           a == Ascending(S)
<1>1. N \in Nat
  BY FS_CardinalityType
<1>2. \A r \in S : r.begin \in Nat
  BY RunType
<1>3. ASSUME NEW r \in S
      PROVE  /\ IsFiniteSet(below(r)) /\ Cardinality(below(r)) \in Nat
             /\ Cardinality(below(r)) < N
  <2>1. below(r) \in SUBSET S /\ r \in S \ below(r)
    BY <1>2
  <2>2. IsFiniteSet(below(r)) /\ Cardinality(below(r)) <= N
        /\ (Cardinality(below(r)) = N => below(r) = S)
    BY <2>1, FS_Subset
  <2> QED BY <1>1, <2>1, <2>2, FS_CardinalityType
<1>4. ASSUME NEW r \in S, NEW s \in S, r.begin < s.begin
      PROVE  Cardinality(below(r)) < Cardinality(below(s))
  <2>1. below(r) \in SUBSET below(s) /\ r \in below(s) /\ r \notin below(r)
    BY <1>2, <1>4
  <2>2. /\ Cardinality(below(r)) <= Cardinality(below(s))
        /\ Cardinality(below(r)) = Cardinality(below(s)) => below(r) = below(s)
    BY <1>3, <2>1, FS_Subset
  <2> HIDE DEF below
  <2> QED BY <1>3, <2>1, <2>2
<1>5. /\ rank \in [S -> 1 .. N]
      /\ \A r \in S : rank[r] = place(r)
  <2>1. ASSUME NEW r \in S PROVE place(r) \in 1 .. N
    <3>1. Cardinality(below(r)) \in Nat /\ Cardinality(below(r)) < N
      BY <1>3
    <3> HIDE DEF below
    <3> QED BY <1>1, <3>1
  <2> HIDE DEF place
  <2> QED BY <2>1
<1>6. rank \in Injection(S, 1 .. N)
  <2>1. ASSUME NEW r \in S, NEW s \in S, rank[r] = rank[s] PROVE r = s
    <3>1. /\ Cardinality(below(r)) \in Nat /\ Cardinality(below(s)) \in Nat
          /\ r.begin < s.begin => Cardinality(below(r)) < Cardinality(below(s))
          /\ s.begin < r.begin => Cardinality(below(s)) < Cardinality(below(r))
      BY <1>3, <1>4
    <3>2. place(r) = place(s)
      BY <1>5, <2>1
    <3> HIDE DEF below
    <3>3. ~(r.begin < s.begin) /\ ~(s.begin < r.begin)
      BY <3>1, <3>2
    <3>4. r.begin = s.begin
      BY <1>2, <3>3
    <3> QED BY <3>4
  <2> HIDE DEF rank
  <2> QED BY <1>5, <2>1 DEF Injection, IsInjective
<1>7. rank \in Surjection(S, 1 .. N)
  <2>1. IsFiniteSet(1 .. N) /\ Cardinality(1 .. N) = N
    BY <1>1, FS_Interval
  <2> HIDE DEF rank
  <2> QED BY <1>6, <2>1, FS_Injection
<1>8. ASSUME NEW n \in 1 .. N
      PROVE  a[n] \in S /\ Cardinality(below(a[n])) = n - 1
  <2>1. PICK r \in S : rank[r] = n
    <3> HIDE DEF rank
    <3> QED BY <1>7 DEF Surjection
  <2>2. Cardinality(below(r)) = n - 1
    <3>1. place(r) = n /\ Cardinality(below(r)) \in Nat
      BY <1>3, <1>5, <2>1
    <3> HIDE DEF below
    <3> QED BY <3>1
  <2>3. a[n] = CHOOSE x \in S : Cardinality(below(x)) = n - 1
    BY DEF Ascending
  <2> HIDE DEF a, below
  <2> QED BY <2>2, <2>3
<1>9. a \in Seq(Run) /\ Len(a) = N
  <2>1. a \in [1 .. N -> Run]
    BY <1>8 DEF Ascending
  <2>2. \A n \in 1 .. N : a[n] \in Run
    BY <2>1
  <2> QED BY <1>1, <2>1
<1>10. ASSUME NEW r \in S PROVE \E n \in 1 .. N : a[n] = r
  <2> DEFINE n == rank[r]
  <2>1. n \in 1 .. N /\ Cardinality(below(r)) = n - 1
    <3>1. n = place(r) /\ n \in 1 .. N /\ Cardinality(below(r)) \in Nat
      BY <1>3, <1>5
    <3> HIDE DEF below, rank
    <3> QED BY <3>1
  <2>2. a[n] \in S /\ Cardinality(below(a[n])) = n - 1
    BY <1>8, <2>1
  <2>3. /\ r.begin < a[n].begin => Cardinality(below(r)) < Cardinality(below(a[n]))
        /\ a[n].begin < r.begin => Cardinality(below(a[n])) < Cardinality(below(r))
        /\ Cardinality(below(r)) \in Nat
    BY <1>3, <1>4, <2>2
  <2>4. a[n].begin = r.begin
    <3> HIDE DEF below, a, n
    <3> QED BY <1>2, <2>1, <2>2, <2>3
  <2> QED BY <2>1, <2>2, <2>4
<1>11. ASSUME NEW i \in 1 .. N, NEW j \in 1 .. N, i < j PROVE a[i].begin < a[j].begin
  <2>1. /\ a[i] \in S /\ Cardinality(below(a[i])) = i - 1
        /\ a[j] \in S /\ Cardinality(below(a[j])) = j - 1
    BY <1>8
  <2>2. /\ a[j].begin < a[i].begin => Cardinality(below(a[j])) < Cardinality(below(a[i]))
        /\ a[i].begin = a[j].begin => Cardinality(below(a[j])) = Cardinality(below(a[i]))
    BY <1>4, <2>1
  <2>3. ~(a[j].begin < a[i].begin) /\ a[i].begin # a[j].begin
    <3> HIDE DEF below, a
    <3> QED BY <1>1, <1>11, <2>1, <2>2
  <2> QED BY <1>2, <2>1, <2>3
<1> HIDE DEF a, N
<1> QED BY <1>8, <1>9, <1>10, <1>11 DEF a, N
LEMMA LowSets ==
  ASSUME NEW S \in SUBSET Low
  PROVE  S \in SUBSET Nat /\ IsFiniteSet(S) /\ LastLow \in Nat /\ \A v \in S : v <= LastLow
<1>1. LastLow \in Nat
  BY LastLowAssumption
<1>2. IsFiniteSet(Low)
  BY <1>1, FS_Interval DEF Low
<1>3. IsFiniteSet(S)
  BY <1>2, FS_Subset
<1> QED BY <1>1, <1>3 DEF Low

\* A set of runs that stands for S, in order.
LEMMA AscendingOf ==
  ASSUME NEW S \in SUBSET Low, NEW R \in SUBSET Run,
         \A r \in R : r.begin <= r.end,
         \A r, s \in R : r.begin < s.begin => r.end < s.begin,
         \A r, s \in R : r.begin = s.begin => r = s,
         \A v : v \in S <=> \E r \in R : v \in r.begin .. r.end
  PROVE  /\ Ordered(Ascending(R)) /\ RunValues(Ascending(R)) = S
         /\ \A n \in 1 .. Len(Ascending(R)) : Ascending(R)[n] \in R
<1> DEFINE a == Ascending(R)
           begins == {r.begin : r \in R}
<1>1. \A r \in R : r.begin \in Low /\ r.begin \in Nat /\ r.end \in Nat
  BY RunType
<1>2. IsFiniteSet(R)
  <2>1. begins \in SUBSET Low
    BY <1>1
  <2>2. IsFiniteSet(begins)
    BY <2>1, LowSets
  <2>3. [r \in R |-> r.begin] \in Injection(R, begins)
    BY DEF Injection, IsInjective
  <2> QED BY <2>2, <2>3, FS_Injection
<1>3. /\ a \in Seq(Run)
      /\ \A n \in 1 .. Len(a) : a[n] \in R
      /\ \A r \in R : \E n \in 1 .. Len(a) : a[n] = r
      /\ \A i, j \in 1 .. Len(a) : i < j => a[i].begin < a[j].begin
  BY <1>2, AscendingOrder
<1> HIDE DEF a
<1>4. Ordered(a)
  <2>1. ASSUME NEW i \in 1 .. Len(a) PROVE a[i].begin <= a[i].end
    BY <1>3
  <2>2. ASSUME NEW i \in 1 .. Len(a), NEW j \in 1 .. Len(a), i < j PROVE a[i].end < a[j].begin
    BY <1>3, <2>2
  <2> QED BY <1>3, <2>1, <2>2 DEF Ordered
<1>5. RunValues(a) = S
  <2>1. ASSUME NEW v PROVE v \in RunValues(a) <=> v \in S
    <3>1. v \in RunValues(a) <=> \E i \in 1 .. Len(a) : v \in a[i].begin .. a[i].end
      BY <1>3, SeqRunType DEF RunValues
    <3>2. (\E i \in 1 .. Len(a) : v \in a[i].begin .. a[i].end) <=> \E r \in R : v \in r.begin .. r.end
      BY <1>3
    <3> QED BY <3>1, <3>2
  <2> QED BY <2>1
<1> QED BY <1>3, <1>4, <1>5 DEF a

LEMMA ValuesOfSet ==
  ASSUME NEW S \in SUBSET Low
  PROVE  /\ Ordered(ValuesOf(S)) /\ RunValues(ValuesOf(S)) = S
         /\ \A n \in 1 .. Len(ValuesOf(S)) : ValuesOf(S)[n].begin = ValuesOf(S)[n].end
<1> DEFINE R == {RunOf(v, v) : v \in S}
<1>1. S \in SUBSET Nat
  BY LowSets
<1>2. \A v \in S : RunOf(v, v) \in Run /\ RunOf(v, v).begin = v /\ RunOf(v, v).end = v
  BY RunOfType
<1>3. /\ R \in SUBSET Run
      /\ \A r \in R : r.begin = r.end /\ r.begin \in S /\ r = RunOf(r.begin, r.begin)
      /\ \A v \in S : RunOf(v, v) \in R
  BY <1>2
<1> HIDE DEF R
<1>4. /\ \A r \in R : r.begin <= r.end
      /\ \A r, s \in R : r.begin < s.begin => r.end < s.begin
      /\ \A r, s \in R : r.begin = s.begin => r = s
  <2>1. \A r \in R : r.begin \in Nat /\ r.end = r.begin
    BY <1>1, <1>3
  <2>2. ASSUME NEW r \in R, NEW s \in R, r.begin = s.begin PROVE r = s
    <3>1. r = RunOf(r.begin, r.begin) /\ s = RunOf(s.begin, s.begin)
      BY <1>3
    <3> QED BY <2>2, <3>1
  <2> QED BY <2>1, <2>2
<1>5. ASSUME NEW v PROVE v \in S <=> \E r \in R : v \in r.begin .. r.end
  <2>1. ASSUME v \in S PROVE \E r \in R : v \in r.begin .. r.end
    <3>1. RunOf(v, v) \in R /\ v \in RunOf(v, v).begin .. RunOf(v, v).end
      BY <1>1, <1>2, <1>3, <2>1
    <3> QED BY <3>1
  <2>2. ASSUME NEW r \in R, v \in r.begin .. r.end PROVE v \in S
    <3>1. r.begin = r.end /\ r.begin \in S /\ r.begin \in Nat
      BY <1>1, <1>3
    <3>2. v = r.begin
      BY <2>2, <3>1
    <3> QED BY <3>1, <3>2
  <2> QED BY <2>1, <2>2
<1>6. /\ Ordered(Ascending(R)) /\ RunValues(Ascending(R)) = S
      /\ \A n \in 1 .. Len(Ascending(R)) : Ascending(R)[n] \in R
  BY <1>3, <1>4, <1>5, AscendingOf
<1>7. ValuesOf(S) = Ascending(R)
  BY DEF ValuesOf, R
<1> QED BY <1>3, <1>6, <1>7

\* Where the run of S that holds b ends, and where the one that holds v begins.
LEMMA RunEnds ==
  ASSUME NEW S \in SUBSET Low, NEW b \in S
  PROVE  LET E == {e \in S : e >= b /\ e + 1 \notin S}
         IN  Min(E) \in E /\ \A v \in b .. Min(E) : v \in S
<1> DEFINE E == {e \in S : e >= b /\ e + 1 \notin S}
           above == {v \in S : v >= b}
           missing == {v \in b .. Min(E) : v \notin S}
<1>1. S \in SUBSET Nat /\ LastLow \in Nat /\ \A v \in S : v <= LastLow
  BY LowSets
<1>2. PICK m \in above : \A n \in above : n <= m
  <2>1. above \in SUBSET Nat /\ above # {} /\ \A n \in above : n <= LastLow
    <3>1. b \in above
      BY <1>1
    <3> QED BY <1>1, <3>1
  <2> HIDE DEF above
  <2> QED BY <1>1, <2>1, Greatest
<1>3. m \in E
  BY <1>1, <1>2
<1>4. Min(E) \in E /\ \A n \in E : Min(E) <= n
  <2>1. E \in SUBSET Nat /\ E # {}
    BY <1>1, <1>3
  <2> HIDE DEF E
  <2> QED BY <2>1, Least
<1>5. missing = {}
  <2> SUFFICES ASSUME missing # {} PROVE FALSE
    OBVIOUS
  <2>1. missing \in SUBSET Nat
    BY <1>1, <1>4
  <2>2. Min(missing) \in missing /\ \A n \in missing : Min(missing) <= n
    <3> HIDE DEF missing
    <3> QED BY <2>1, Least
  <2> DEFINE w == Min(missing)
  <2> HIDE DEF w
  <2>3. w \in b .. Min(E) /\ w \notin S /\ \A n \in missing : w <= n
    BY <2>2 DEF w
  <2>4. w - 1 \in b .. Min(E) /\ w - 1 < Min(E)
    <3>1. b \in Nat /\ Min(E) \in Nat /\ w # b
      BY <1>1, <1>4, <2>3
    <3> HIDE DEF E
    <3> QED BY <2>3, <3>1
  <2>5. w - 1 \in S
    BY <1>1, <1>4, <2>3, <2>4
  <2>6. w - 1 \in E
    BY <1>1, <1>4, <2>3, <2>4, <2>5
  <2>7. Min(E) \in Nat /\ w - 1 \in Int
    <3>1. Min(E) \in Nat
      BY <1>1, <1>4
    <3>2. w \in Int
      <4> HIDE DEF E
      <4> QED BY <2>3
    <3> HIDE DEF E
    <3> QED BY <3>1, <3>2
  <2> HIDE DEF E
  <2> QED BY <1>4, <2>4, <2>6, <2>7
<1> HIDE DEF E
<1>6. \A v \in b .. Min(E) : v \in S
  BY <1>5
<1>7. Min(E) \in E /\ \A v \in b .. Min(E) : v \in S
  BY <1>4, <1>6
<1> QED BY <1>7 DEF E

LEMMA RunBegins ==
  ASSUME NEW S \in SUBSET Low, NEW v \in S
  PROVE  \E b \in S : b - 1 \notin S /\ b <= v /\ \A w \in b .. v : w \in S
<1> DEFINE B == {b \in 0 .. v : \A w \in b .. v : w \in S}
<1>1. S \in SUBSET Nat
  BY LowSets
<1>2. v \in B /\ B \in SUBSET Nat
  BY <1>1
<1>3. Min(B) \in B /\ \A n \in B : Min(B) <= n
  <2> HIDE DEF B
  <2> QED BY <1>2, Least
<1> DEFINE b == Min(B)
<1> HIDE DEF b
<1>4. b \in 0 .. v /\ (\A w \in b .. v : w \in S) /\ \A n \in B : b <= n
  BY <1>3 DEF b
<1>5. b \in S /\ b \in Nat /\ b <= v
  BY <1>1, <1>4
<1>6. ASSUME b - 1 \in S PROVE FALSE
  <2>1. b - 1 \in 0 .. v /\ \A w \in b - 1 .. v : w = b - 1 \/ w \in b .. v
    BY <1>1, <1>5, <1>6
  <2>2. b - 1 \in B
    BY <1>4, <1>6, <2>1
  <2> HIDE DEF B
  <2> QED BY <1>4, <1>5, <2>2
<1> QED BY <1>4, <1>5, <1>6

LEMMA RunsOfSet ==
  ASSUME NEW S \in SUBSET Low
  PROVE  Apart(RunsOf(S)) /\ RunValues(RunsOf(S)) = S
<1> DEFINE E(b) == {e \in S : e >= b /\ e + 1 \notin S}
           B == {v \in S : v - 1 \notin S}
           R == {RunOf(b, Min(E(b))) : b \in B}
<1>1. S \in SUBSET Nat /\ \A v \in S : v \in Low
  BY LowSets
<1>2. ASSUME NEW b \in B
      PROVE  /\ Min(E(b)) \in S /\ Min(E(b)) >= b /\ Min(E(b)) + 1 \notin S
             /\ \A v \in b .. Min(E(b)) : v \in S
  BY RunEnds
<1>3. ASSUME NEW r \in R
      PROVE  /\ r \in Run /\ r.begin \in B /\ r.end = Min(E(r.begin)) /\ r = RunOf(r.begin, Min(E(r.begin)))
  <2>1. PICK b \in B : r = RunOf(b, Min(E(b)))
    OBVIOUS
  <2>2. b \in Low /\ Min(E(b)) \in Low
    BY <1>1, <1>2
  <2> HIDE DEF E
  <2> QED BY <2>1, <2>2, RunOfType
<1>4. \A b \in B : RunOf(b, Min(E(b))) \in R
  OBVIOUS
<1> HIDE DEF R
<1>5. ASSUME NEW r \in R
      PROVE  /\ r.begin \in S /\ r.begin \in Nat /\ r.begin - 1 \notin S
             /\ r.end \in S /\ r.end \in Nat /\ r.end >= r.begin /\ r.end + 1 \notin S
             /\ \A v \in r.begin .. r.end : v \in S
  <2>1. r.begin \in B /\ r.end = Min(E(r.begin))
    BY <1>3
  <2>2. /\ r.end \in S /\ r.end >= r.begin /\ r.end + 1 \notin S
        /\ \A v \in r.begin .. r.end : v \in S
    BY <1>2, <2>1
  <2> QED BY <1>1, <2>1, <2>2
<1>6. ASSUME NEW r \in R, NEW s \in R, r.begin < s.begin PROVE r.end + 1 < s.begin
  <2> SUFFICES ASSUME r.end + 1 >= s.begin PROVE FALSE
    BY <1>5
  <2>1. s.begin - 1 \in r.begin .. r.end
    BY <1>5, <1>6
  <2> QED BY <1>5, <2>1
<1>7. ASSUME NEW v PROVE v \in S <=> \E r \in R : v \in r.begin .. r.end
  <2>1. ASSUME v \in S PROVE \E r \in R : v \in r.begin .. r.end
    <3>1. PICK b \in S : b - 1 \notin S /\ b <= v /\ \A w \in b .. v : w \in S
      BY <2>1, RunBegins
    <3> DEFINE r == RunOf(b, Min(E(b)))
    <3>2. b \in B /\ r \in R
      BY <1>4, <3>1
    <3>3. r.begin = b
      BY DEF RunOf
    <3> HIDE DEF r
    <3>4. r.end >= v
      <4> SUFFICES ASSUME ~(r.end >= v) PROVE FALSE
        OBVIOUS
      <4>1. r.end + 1 \in b .. v
        BY <1>1, <1>5, <2>1, <3>2, <3>3
      <4> QED BY <1>5, <3>1, <3>2, <4>1
    <3>5. v \in r.begin .. r.end
      BY <1>1, <1>5, <2>1, <3>1, <3>2, <3>3, <3>4
    <3> QED BY <3>2, <3>5
  <2>2. ASSUME NEW r \in R, v \in r.begin .. r.end PROVE v \in S
    BY <1>5, <2>2
  <2> QED BY <2>1, <2>2
<1>8. /\ R \in SUBSET Run
      /\ \A r \in R : r.begin <= r.end
      /\ \A r, s \in R : r.begin < s.begin => r.end < s.begin
      /\ \A r, s \in R : r.begin = s.begin => r = s
  <2>1. R \in SUBSET Run
    BY <1>3
  <2>2. ASSUME NEW r \in R, NEW s \in R PROVE r.begin = s.begin => r = s
    BY <1>3
  <2>3. ASSUME NEW r \in R, NEW s \in R, r.begin < s.begin PROVE r.end < s.begin
    BY <1>5, <1>6, <2>3
  <2> QED BY <1>5, <2>1, <2>2, <2>3
<1>9. /\ Ordered(Ascending(R)) /\ RunValues(Ascending(R)) = S
      /\ \A n \in 1 .. Len(Ascending(R)) : Ascending(R)[n] \in R
  BY <1>7, <1>8, AscendingOf
<1>10. RunsOf(S) = Ascending(R)
  BY DEF RunsOf, R
<1> DEFINE a == Ascending(R)
<1> HIDE DEF a
<1>11. ASSUME NEW i \in 1 .. Len(a), NEW j \in 1 .. Len(a), i < j PROVE a[i].end + 1 < a[j].begin
  <2>1. a[i] \in R /\ a[j] \in R /\ a[i].end < a[j].begin /\ a[i].begin <= a[i].end
    BY <1>9, <1>11 DEF a, Ordered
  <2>2. a[i].begin < a[j].begin
    BY <1>5, <2>1
  <2> QED BY <1>6, <2>1, <2>2
<1>12. Apart(a)
  BY <1>9, <1>11 DEF a, Ordered, Apart
<1> QED BY <1>9, <1>10, <1>12 DEF a
-----------------------------------------------------------------------------
(***************************************************************************)
(* The lists the kernels build.                                            *)
(***************************************************************************)
LEMMA Chained ==
  ASSUME NEW a \in Nat, NEW b \in Nat, NEW c \in Nat, NEW d \in Nat, a <= b, b + 1 < c, c <= d
  PROVE  a + 1 < d
OBVIOUS

LEMMA ConcatApart ==
  ASSUME NEW rs, NEW ss, Apart(rs), Apart(ss),
         rs # <<>> /\ ss # <<>> => Last(rs).end + 1 < ss[1].begin
  PROVE  /\ Apart(rs \o ss) /\ Len(rs \o ss) = Len(rs) + Len(ss)
         /\ \A v : v \in RunValues(rs \o ss) <=> v \in RunValues(rs) \/ v \in RunValues(ss)
         /\ ss # <<>> => rs \o ss # <<>> /\ Last(rs \o ss) = Last(ss)
         /\ ss = <<>> => rs \o ss = rs
<1> DEFINE t == rs \o ss
           m == Len(rs)
           n == Len(ss)
<1>1. /\ rs \in Seq(Run) /\ ss \in Seq(Run)
      /\ \A i \in 1 .. m : rs[i].begin <= rs[i].end /\ rs[i].begin \in Nat /\ rs[i].end \in Nat
      /\ \A i \in 1 .. n : ss[i].begin <= ss[i].end /\ ss[i].begin \in Nat /\ ss[i].end \in Nat
      /\ \A i, j \in 1 .. m : i < j => rs[i].end + 1 < rs[j].begin
      /\ \A i, j \in 1 .. n : i < j => ss[i].end + 1 < ss[j].begin
      /\ m \in Nat /\ n \in Nat
      /\ rs = <<>> <=> m = 0
      /\ ss = <<>> <=> n = 0
  BY SeqRunType DEF Apart
<1>2. /\ t \in Seq(Run) /\ Len(t) = m + n
      /\ \A i \in 1 .. m + n : t[i] = IF i <= m THEN rs[i] ELSE ss[i - m]
  BY <1>1, ConcatProperties
<1>3. m > 0 /\ n > 0 => rs[m].end + 1 < ss[1].begin
  BY <1>1 DEF Last
<1> HIDE DEF t, m, n
<1>4. /\ \A i \in 1 .. m : i \in 1 .. m + n /\ t[i] = rs[i]
      /\ \A i \in 1 .. n : i + m \in 1 .. m + n /\ t[i + m] = ss[i]
  BY <1>1, <1>2
<1>5. ASSUME NEW i \in 1 .. m, NEW j \in 1 .. n PROVE rs[i].end + 1 < ss[j].begin
  <2>1. rs[i].end <= rs[m].end /\ m \in 1 .. m /\ 1 \in 1 .. n
    <3>1. m \in 1 .. m /\ 1 \in 1 .. n
      BY <1>1
    <3>2. CASE i = m
      BY <1>1, <3>1, <3>2
    <3>3. CASE i < m
      <4>1. rs[i].end + 1 < rs[m].begin /\ rs[m].begin <= rs[m].end
        BY <1>1, <3>1, <3>3
      <4> QED BY <1>1, <3>1, <4>1, SMTT(30)
    <3> QED BY <1>1, <3>1, <3>2, <3>3
  <2>2. ss[1].begin <= ss[j].begin
    <3>1. ss[j].begin \in Nat /\ ss[1].begin \in Nat /\ ss[1].end \in Nat /\ ss[1].begin <= ss[1].end
      BY <1>1, <2>1
    <3>2. CASE j = 1
      BY <3>1, <3>2
    <3>3. CASE j # 1
      <4>1. 1 < j
        BY <1>1, <3>3
      <4>2. ss[1].end + 1 < ss[j].begin
        BY <1>1, <2>1, <4>1
      <4> QED BY <3>1, <4>2
    <3> QED BY <3>2, <3>3
  <2>3. rs[m].end + 1 < ss[1].begin
    <3>1. m > 0 /\ n > 0
      BY <1>1, <2>1
    <3> QED BY <1>3, <3>1
  <2>4. rs[i].end \in Nat /\ rs[m].end \in Nat /\ ss[1].begin \in Nat /\ ss[j].begin \in Nat
    BY <1>1, <2>1
  <2>5. rs[i].end <= rs[m].end /\ rs[m].end + 1 < ss[1].begin /\ ss[1].begin <= ss[j].begin
    BY <2>1, <2>2, <2>3
  <2> QED BY <2>4, <2>5, Chained
<1>6. Apart(t)
  <2>1. ASSUME NEW i \in 1 .. m + n PROVE t[i].begin <= t[i].end
    <3>1. CASE i <= m
      BY <1>1, <1>2, <3>1
    <3>2. CASE ~(i <= m)
      <4>1. i - m \in 1 .. n
        BY <1>1, <3>2
      <4> QED BY <1>1, <1>2, <3>2, <4>1
    <3> QED BY <3>1, <3>2
  <2>2. ASSUME NEW i \in 1 .. m + n, NEW j \in 1 .. m + n, i < j PROVE t[i].end + 1 < t[j].begin
    <3>1. CASE j <= m
      <4>1. i \in 1 .. m /\ j \in 1 .. m
        BY <1>1, <2>2, <3>1
      <4> QED BY <1>1, <1>2, <2>2, <3>1, <4>1, SMTT(30)
    <3>2. CASE i <= m /\ ~(j <= m)
      <4>1. i \in 1 .. m /\ j - m \in 1 .. n
        BY <1>1, <3>2
      <4> QED BY <1>2, <1>5, <3>2, <4>1
    <3>3. CASE ~(i <= m)
      <4>1. i - m \in 1 .. n /\ j - m \in 1 .. n /\ i - m < j - m /\ ~(j <= m)
        BY <1>1, <2>2, <3>3
      <4> QED BY <1>1, <1>2, <3>3, <4>1
    <3> QED BY <1>1, <2>2, <3>1, <3>2, <3>3
  <2> QED BY <1>2, <2>1, <2>2 DEF Apart
<1>7. ASSUME NEW v
      PROVE  v \in RunValues(t) <=> v \in RunValues(rs) \/ v \in RunValues(ss)
  <2>1. /\ v \in RunValues(t) <=> \E i \in 1 .. m + n : v \in t[i].begin .. t[i].end
        /\ v \in RunValues(rs) <=> \E i \in 1 .. m : v \in rs[i].begin .. rs[i].end
        /\ v \in RunValues(ss) <=> \E i \in 1 .. n : v \in ss[i].begin .. ss[i].end
    BY <1>1, <1>2, SeqRunType DEF RunValues, m, n
  <2>2. ASSUME NEW i \in 1 .. m + n, v \in t[i].begin .. t[i].end
        PROVE  v \in RunValues(rs) \/ v \in RunValues(ss)
    <3>1. CASE i <= m
      <4>1. i \in 1 .. m
        BY <1>1, <3>1
      <4> QED BY <1>4, <2>1, <2>2, <4>1
    <3>2. CASE ~(i <= m)
      <4>1. i - m \in 1 .. n /\ t[i] = ss[i - m]
        BY <1>1, <1>2, <3>2
      <4> QED BY <2>1, <2>2, <4>1
    <3> QED BY <3>1, <3>2
  <2> QED BY <1>4, <2>1, <2>2
<1>8. n > 0 => t # <<>> /\ t[Len(t)] = ss[n]
  BY <1>1, <1>2, <1>4, SeqRunType
<1>9. n = 0 => t = rs
  BY <1>1, ConcatEmptySeq DEF t
<1> QED BY <1>1, <1>2, <1>6, <1>7, <1>8, <1>9 DEF t, m, n, Last

LEMMA OneApart ==
  ASSUME NEW r \in Run, r.begin <= r.end
  PROVE  /\ Apart(<<r>>) /\ Len(<<r>>) = 1 /\ <<r>>[1] = r /\ Last(<<r>>) = r /\ <<r>> # <<>>
         /\ \A v : v \in RunValues(<<r>>) <=> v \in r.begin .. r.end
<1>1. /\ <<r>> \in Seq(Run) /\ Len(<<r>>) = 1 /\ <<r>>[1] = r /\ DOMAIN <<r>> = 1 .. 1
      /\ 1 .. 1 = {1}
  OBVIOUS
<1>2. Apart(<<r>>)
  <2>1. \A i \in 1 .. Len(<<r>>) : i = 1
    BY <1>1
  <2> QED BY <1>1, <2>1 DEF Apart
<1>3. \A v : v \in RunValues(<<r>>) <=> v \in r.begin .. r.end
  BY <1>1 DEF RunValues
<1> QED BY <1>1, <1>2, <1>3 DEF Last

LEMMA EmptyApart ==
  Apart(<<>>) /\ Len(<<>>) = 0 /\ \A v : v \notin RunValues(<<>>)
<1>1. <<>> \in Seq(Run) /\ Len(<<>>) = 0 /\ DOMAIN <<>> = {}
  OBVIOUS
<1> QED BY <1>1 DEF Apart, RunValues

LEMMA AppendApart ==
  ASSUME NEW rs, Apart(rs), NEW r \in Run, r.begin <= r.end,
         rs # <<>> => Last(rs).end + 1 < r.begin
  PROVE  /\ Apart(Append(rs, r)) /\ Len(Append(rs, r)) = Len(rs) + 1
         /\ Append(rs, r) # <<>> /\ Last(Append(rs, r)) = r
         /\ \A v : v \in RunValues(Append(rs, r)) <=> v \in RunValues(rs) \/ v \in r.begin .. r.end
<1>1. rs \in Seq(Run)
  BY DEF Apart
<1>2. Append(rs, r) = rs \o <<r>>
  BY <1>1, AppendIsConcat
<1> QED BY <1>2, OneApart, ConcatApart

LEMMA FrontApart ==
  ASSUME NEW rs, Apart(rs), rs # <<>>
  PROVE  /\ Apart(Front(rs)) /\ Len(Front(rs)) = Len(rs) - 1 /\ Len(rs) >= 1
         /\ Last(rs) \in Run /\ Last(rs).begin <= Last(rs).end
         /\ Front(rs) # <<>> => Last(Front(rs)).end + 1 < Last(rs).begin
         /\ \A v : v \in RunValues(rs) <=> v \in RunValues(Front(rs)) \/ v \in Last(rs).begin .. Last(rs).end
         /\ \A v \in RunValues(Front(rs)) : v + 1 < Last(rs).begin /\ v \in Nat
<1> DEFINE f == Front(rs)
           n == Len(rs)
<1>1. /\ rs \in Seq(Run) /\ n \in Nat \ {0}
      /\ \A i \in 1 .. n : rs[i] \in Run /\ rs[i].begin <= rs[i].end
                           /\ rs[i].begin \in Nat /\ rs[i].end \in Nat
      /\ \A i, j \in 1 .. n : i < j => rs[i].end + 1 < rs[j].begin
      /\ Last(rs) = rs[n]
  BY SeqRunType DEF Apart, Last
<1>2. f \in Seq(Run) /\ Len(f) = n - 1 /\ \A i \in 1 .. n - 1 : f[i] = rs[i]
  <2>1. 1 \in 1 .. Len(rs) + 1 /\ n - 1 \in 0 .. Len(rs)
    BY <1>1
  <2>2. /\ f \in Seq(Run) /\ Len(f) = IF 1 <= n - 1 THEN n - 1 - 1 + 1 ELSE 0
        /\ \A k \in 1 .. n - 1 - 1 + 1 : f[k] = rs[k + 1 - 1]
    BY <1>1, <2>1, SliceType DEF Front
  <2> HIDE DEF f, n
  <2>3. /\ (IF 1 <= n - 1 THEN n - 1 - 1 + 1 ELSE 0) = n - 1
        /\ \A k \in 1 .. n - 1 : k \in 1 .. n - 1 - 1 + 1 /\ k + 1 - 1 = k
    BY <1>1
  <2> QED BY <2>2, <2>3
<1> HIDE DEF f, n
<1>3. Apart(f)
  <2>1. \A i \in 1 .. n - 1 : i \in 1 .. n
    BY <1>1
  <2> QED BY <1>1, <1>2, <2>1 DEF Apart
<1>4. f # <<>> => f[Len(f)].end + 1 < rs[n].begin
  BY <1>1, <1>2, SeqRunType
<1>5. ASSUME NEW v
      PROVE  /\ v \in RunValues(rs) <=> v \in RunValues(f) \/ v \in rs[n].begin .. rs[n].end
             /\ v \in RunValues(f) => v + 1 < rs[n].begin /\ v \in Nat
  <2>1. /\ v \in RunValues(rs) <=> \E i \in 1 .. n : v \in rs[i].begin .. rs[i].end
        /\ v \in RunValues(f) <=> \E i \in 1 .. n - 1 : v \in f[i].begin .. f[i].end
    BY <1>1, <1>2, SeqRunType DEF RunValues, n
  <2>2. \A i \in 1 .. n : i \in 1 .. n - 1 \/ i = n
    BY <1>1
  <2>3. n \in 1 .. n /\ \A i \in 1 .. n - 1 : i \in 1 .. n /\ f[i] = rs[i]
    BY <1>1, <1>2
  <2>4. v \in RunValues(rs) <=> v \in RunValues(f) \/ v \in rs[n].begin .. rs[n].end
    BY <2>1, <2>2, <2>3
  <2>5. ASSUME v \in RunValues(f) PROVE v + 1 < rs[n].begin /\ v \in Nat
    <3>1. PICK i \in 1 .. n - 1 : v \in rs[i].begin .. rs[i].end
      BY <1>2, <2>1, <2>5
    <3>2. rs[i].end + 1 < rs[n].begin /\ rs[i].begin \in Nat /\ rs[i].end \in Nat /\ rs[n].begin \in Nat
      BY <1>1
    <3> QED BY <3>1, <3>2
  <2> QED BY <2>4, <2>5
<1> QED BY <1>1, <1>2, <1>3, <1>4, <1>5 DEF f, n, Last
LEMMA MaxMin ==
  ASSUME NEW a \in Int, NEW b \in Int
  PROVE  /\ Max({a, b}) = IF a >= b THEN a ELSE b
         /\ Min({a, b}) = IF a <= b THEN a ELSE b
<1>1. Max({a, b}) = IF a >= b THEN a ELSE b
  <2> DEFINE P(x) == x \in {a, b} /\ \A y \in {a, b} : x >= y
             m == IF a >= b THEN a ELSE b
  <2>1. P(m) /\ \A x : P(x) => x = m
    OBVIOUS
  <2>2. Max({a, b}) = CHOOSE x : P(x)
    BY DEF Max
  <2> HIDE DEF P, m
  <2>3. (CHOOSE x : P(x)) = m
    BY <2>1
  <2> QED BY <2>2, <2>3 DEF m
<1>2. Min({a, b}) = IF a <= b THEN a ELSE b
  <2> DEFINE P(x) == x \in {a, b} /\ \A y \in {a, b} : x <= y
             m == IF a <= b THEN a ELSE b
  <2>1. P(m) /\ \A x : P(x) => x = m
    OBVIOUS
  <2>2. Min({a, b}) = CHOOSE x : P(x)
    BY DEF Min
  <2> HIDE DEF P, m
  <2>3. (CHOOSE x : P(x)) = m
    BY <2>1
  <2> QED BY <2>2, <2>3 DEF m
<1> QED BY <1>1, <1>2

\* The list new is rs with r merged into it: where its last run begins and ends,
\* which the next runs of either side must not be in front of.
Follows(rs, r, new) ==
  /\ Apart(new) /\ Len(new) <= Len(rs) + 1
  /\ new # <<>> =>
       /\ Last(new).begin <= r.end + 1
       /\ \/ Last(new).begin <= r.begin
          \/ rs # <<>> /\ r.begin <= Last(rs).end /\ Last(new).begin <= Last(rs).end + 1
       /\ \/ Last(new).end <= r.end
          \/ rs # <<>> /\ r.end < Last(rs).end /\ Last(new).end <= Last(rs).end

LEMMA SeparatedFollows ==
  ASSUME NEW rs, Apart(rs), NEW r \in Run, r.begin <= r.end, Separated(rs, r)
  PROVE  /\ Follows(rs, r, Append(rs, r))
         /\ \A v : v \in RunValues(Append(rs, r)) <=> v \in RunValues(rs) \/ v \in r.begin .. r.end
         /\ \A v \in RunValues(rs) : v < r.begin
<1>1. rs # <<>> => Last(rs).end + 1 < r.begin /\ Last(rs) \in Run
  BY FrontApart, RunType DEF Separated
<1>2. r.begin \in Nat /\ r.end \in Nat /\ Len(rs) \in Nat
  BY RunType, SeqRunType DEF Apart
<1>3. /\ Apart(Append(rs, r)) /\ Len(Append(rs, r)) = Len(rs) + 1
      /\ Append(rs, r) # <<>> /\ Last(Append(rs, r)) = r
      /\ \A v : v \in RunValues(Append(rs, r)) <=> v \in RunValues(rs) \/ v \in r.begin .. r.end
  BY <1>1, AppendApart
<1>4. Follows(rs, r, Append(rs, r))
  BY <1>2, <1>3 DEF Follows
<1>5. ASSUME NEW v \in RunValues(rs) PROVE v < r.begin
  <2>1. rs # <<>>
    BY EmptyApart
  <2>2. \/ v \in Last(rs).begin .. Last(rs).end
        \/ v + 1 < Last(rs).begin /\ v \in Nat
    BY <2>1, FrontApart
  <2>3. Last(rs).begin <= Last(rs).end /\ Last(rs).begin \in Nat /\ Last(rs).end \in Nat
    BY <2>1, FrontApart, RunType
  <2> QED BY <1>1, <1>2, <2>1, <2>2, <2>3
<1> QED BY <1>3, <1>4, <1>5

LEMMA JoinedFollows ==
  ASSUME NEW rs, Apart(rs), NEW r \in Run, r.begin <= r.end,
         rs # <<>> => Last(rs).begin <= r.begin
  PROVE  /\ Follows(rs, r, Joined(rs, r))
         /\ RunValues(Joined(rs, r)) = RunValues(rs) \cup (r.begin .. r.end)
<1>1. CASE Separated(rs, r)
  BY <1>1, SeparatedFollows DEF Joined
<1>2. CASE ~Separated(rs, r)
  <2> DEFINE l == Last(rs)
             top == Max({l.end, r.end})
             u == [l EXCEPT !.end = top]
             new == Append(Front(rs), u)
  <2>1. rs # <<>> /\ ~(r.begin > l.end + 1) /\ l.begin <= r.begin
    BY <1>2 DEF Separated
  <2>2. /\ r.begin \in Nat /\ r.end \in Nat /\ r.end \in Low
        /\ l \in Run /\ l.begin \in Nat /\ l.end \in Nat /\ l.begin <= l.end /\ l.end \in Low
    BY <2>1, FrontApart, RunType
  <2>3. top = IF l.end >= r.end THEN l.end ELSE r.end
    BY <2>2, MaxMin
  <2>4. u \in Run /\ u.begin = l.begin /\ u.end = top
    BY <2>2, <2>3 DEF Run
  <2>5. /\ Apart(Front(rs)) /\ Len(Front(rs)) = Len(rs) - 1 /\ Len(rs) \in Nat
        /\ Front(rs) # <<>> => Last(Front(rs)).end + 1 < l.begin
        /\ \A v : v \in RunValues(rs) <=> v \in RunValues(Front(rs)) \/ v \in l.begin .. l.end
    BY <2>1, FrontApart, SeqRunType DEF Apart
  <2> HIDE DEF top, u, l
  <2>6. u.begin <= u.end
    BY <2>2, <2>3, <2>4
  <2>7. /\ Apart(new) /\ Len(new) = Len(Front(rs)) + 1 /\ new # <<>> /\ Last(new) = u
        /\ \A v : v \in RunValues(new) <=> v \in RunValues(Front(rs)) \/ v \in u.begin .. u.end
    BY <2>4, <2>5, <2>6, AppendApart
  <2>8. Joined(rs, r) = new
    BY <1>2 DEF Joined, l, u, top
  <2> HIDE DEF new
  <2>9. Follows(rs, r, new)
    <3>1. Apart(new) /\ Len(new) <= Len(rs) + 1
      BY <2>5, <2>7
    <3>2. u.begin <= r.begin /\ u.begin <= r.end + 1
      BY <2>1, <2>2, <2>4
    <3>3. u.end <= r.end \/ (r.end < l.end /\ u.end <= l.end)
      BY <2>2, <2>3, <2>4
    <3> QED BY <2>1, <2>7, <3>1, <3>2, <3>3 DEF Follows, l
  <2>10. \A v : v \in u.begin .. u.end <=> v \in l.begin .. l.end \/ v \in r.begin .. r.end
    BY <2>1, <2>2, <2>3, <2>4
  <2>11. RunValues(new) = RunValues(rs) \cup (r.begin .. r.end)
    BY <2>5, <2>7, <2>10
  <2> QED BY <2>8, <2>9, <2>11
<1> QED BY <1>1, <1>2

\* What two runs leave past the shorter.
LEMMA PastShorterApart ==
  ASSUME NEW l \in Run, NEW r \in Run
  PROVE  LET low == IF l.end <= r.end THEN l.end ELSE r.end
             high == IF l.end <= r.end THEN r.end ELSE l.end
             p == PastShorter(l, r)
         IN  /\ Apart(p) /\ Len(p) \in {0, 1} /\ (p = <<>> <=> l.end = r.end)
             /\ p # <<>> => p[1] = Last(p) /\ Last(p).begin = low + 1 /\ Last(p).end = high /\ p = <<Last(p)>>
             /\ \A v : v \in RunValues(p) <=> v \in low + 1 .. high
<1> DEFINE low == IF l.end <= r.end THEN l.end ELSE r.end
           high == IF l.end <= r.end THEN r.end ELSE l.end
           p == PastShorter(l, r)
           q == RunOf(low + 1, high)
           Goal == /\ Apart(p) /\ Len(p) \in {0, 1} /\ (p = <<>> <=> l.end = r.end)
                   /\ p # <<>> => p[1] = Last(p) /\ Last(p).begin = low + 1 /\ Last(p).end = high /\ p = <<Last(p)>>
                   /\ \A v : v \in RunValues(p) <=> v \in low + 1 .. high
<1>1. l.end \in Nat /\ r.end \in Nat /\ l.end <= LastLow /\ r.end <= LastLow
  BY RunType
<1>2. ASSUME l.end = r.end PROVE Goal
  <2>1. p = <<>>
    BY <1>2 DEF PastShorter
  <2>2. \A v : v \notin low + 1 .. high
    BY <1>1, <1>2
  <2> HIDE DEF low, high, p
  <2> QED BY <1>2, <2>1, <2>2, EmptyApart
<1>3. ASSUME l.end # r.end PROVE Goal
  <2>1. low + 1 <= high /\ low + 1 \in Low /\ high \in Low
    BY <1>1, <1>3, LastLowAssumption DEF Low
  <2>2. Min({l.end, r.end}) = low /\ Max({l.end, r.end}) = high
    BY <1>1, MaxMin
  <2>3. AsLow(low + 1) = low + 1
    BY <2>1, LowIsLow
  <2>4. p = <<q>>
    BY <1>3, <2>2, <2>3 DEF PastShorter
  <2> HIDE DEF low, high
  <2>5. q \in Run /\ q.begin = low + 1 /\ q.end = high
    BY <2>1, RunOfType
  <2> HIDE DEF q
  <2>6. q.begin <= q.end
    BY <2>1, <2>5
  <2> HIDE DEF p
  <2> QED BY <1>3, <2>4, <2>5, <2>6, OneApart
<1>4. Goal
  BY <1>2, <1>3
<1> QED BY <1>4
LEMMA ExclusiveFollows ==
  ASSUME NEW rs, Apart(rs), NEW r \in Run, r.begin <= r.end,
         rs # <<>> => Last(rs).begin <= r.begin
  PROVE  /\ Follows(rs, r, ExclusiveJoined(rs, r))
         /\ RunValues(ExclusiveJoined(rs, r)) = SymDiff(RunValues(rs), r.begin .. r.end)
<1>1. CASE Separated(rs, r)
  <2>1. ExclusiveJoined(rs, r) = Append(rs, r)
    BY <1>1 DEF ExclusiveJoined
  <2>2. r.begin \in Nat
    BY RunType
  <2>3. /\ \A v : v \in RunValues(Append(rs, r)) <=> v \in RunValues(rs) \/ v \in r.begin .. r.end
        /\ \A v \in RunValues(rs) : v < r.begin
        /\ Follows(rs, r, Append(rs, r))
    BY <1>1, SeparatedFollows
  <2>4. \A v \in RunValues(rs) : v \notin r.begin .. r.end
    <3>1. \A v \in RunValues(rs) : v \in Int
      BY ValuesAmong DEF Apart
    <3> QED BY <2>2, <2>3, <3>1
  <2> QED BY <2>1, <2>3, <2>4 DEF SymDiff
<1>2. ASSUME ~Separated(rs, r)
      PROVE  /\ Follows(rs, r, ExclusiveJoined(rs, r))
             /\ RunValues(ExclusiveJoined(rs, r)) = SymDiff(RunValues(rs), r.begin .. r.end)
  <2> DEFINE l == Last(rs)
             f == Front(rs)
             low == IF l.end <= r.end THEN l.end ELSE r.end
             high == IF l.end <= r.end THEN r.end ELSE l.end
             p == PastShorter(l, r)
             q == RunOf(l.begin, AsLow(r.begin - 1))
             head == IF r.begin = l.begin THEN <<>> ELSE <<q>>
             tail == IF l.end + 1 = r.begin THEN <<RunOf(l.begin, r.end)>> ELSE head \o p
             new == f \o tail
             Remade(t) ==
               /\ Apart(t) /\ Len(t) <= 2
               /\ t # <<>> => /\ t[1].begin >= l.begin
                              /\ Last(t).begin <= r.end + 1
                              /\ Last(t).begin <= r.begin \/ (r.begin <= l.end /\ Last(t).begin <= l.end + 1)
                              /\ Last(t).end <= r.end \/ (r.end < l.end /\ Last(t).end <= l.end)
               /\ \A v : v \in RunValues(t) <=> (v \in l.begin .. l.end) # (v \in r.begin .. r.end)
  <2>1. rs # <<>> /\ ~(r.begin > l.end + 1) /\ l.begin <= r.begin
    BY <1>2 DEF Separated
  <2>2. /\ r.begin \in Nat /\ r.end \in Nat /\ r.end \in Low /\ r.begin <= LastLow
        /\ l \in Run /\ l.begin \in Nat /\ l.end \in Nat /\ l.begin <= l.end /\ l.end \in Low /\ l.begin \in Low
    BY <2>1, FrontApart, RunType
  <2>3. /\ Apart(f) /\ Len(f) = Len(rs) - 1 /\ Len(rs) \in Nat /\ Len(rs) >= 1
        /\ f # <<>> => Last(f).end + 1 < l.begin
        /\ \A v : v \in RunValues(rs) <=> v \in RunValues(f) \/ v \in l.begin .. l.end
        /\ \A v \in RunValues(f) : v + 1 < l.begin /\ v \in Nat
    BY <2>1, FrontApart, SeqRunType DEF Apart
  <2>4. ExclusiveJoined(rs, r) = new
    BY <1>2 DEF ExclusiveJoined
  <2> HIDE DEF l, f, p
  \* What the last run becomes.
  <2>5. Remade(tail)
    <3>1. ASSUME l.end + 1 = r.begin
          PROVE  Remade(tail)
      <4> DEFINE w == RunOf(l.begin, r.end)
      <4>1. tail = <<w>>
        BY <3>1
      <4>2. w \in Run /\ w.begin = l.begin /\ w.end = r.end
        BY <2>2, RunOfType
      <4> HIDE DEF w, tail
      <4>3. w.begin <= w.end
        BY <2>1, <2>2, <4>2
      <4>4. /\ Apart(tail) /\ Len(tail) = 1 /\ tail[1] = w /\ Last(tail) = w
            /\ \A v : v \in RunValues(tail) <=> v \in w.begin .. w.end
        BY <4>1, <4>2, <4>3, OneApart
      <4>5. \A v : v \in l.begin .. r.end <=> (v \in l.begin .. l.end) # (v \in r.begin .. r.end)
        BY <2>1, <2>2, <3>1
      <4> QED BY <2>1, <2>2, <4>2, <4>4, <4>5
    <3>2. ASSUME l.end + 1 # r.begin
          PROVE  Remade(tail)
      <4>1. r.begin <= l.end /\ low \in Nat /\ high \in Nat
        BY <2>1, <2>2, <3>2
      <4>2. /\ Apart(p) /\ Len(p) \in {0, 1} /\ (p = <<>> <=> l.end = r.end)
            /\ p # <<>> => p[1] = Last(p) /\ Last(p).begin = low + 1 /\ Last(p).end = high
            /\ \A v : v \in RunValues(p) <=> v \in low + 1 .. high
        BY <2>2, PastShorterApart DEF p
      <4>3. /\ Apart(head) /\ Len(head) \in {0, 1} /\ (head = <<>> <=> r.begin = l.begin)
            /\ head # <<>> => /\ head[1] = Last(head) /\ Last(head).begin = l.begin
                              /\ Last(head).end = r.begin - 1
            /\ \A v : v \in RunValues(head) <=> v \in l.begin .. r.begin - 1
        <5>1. CASE r.begin = l.begin
          <6>1. head = <<>> /\ \A v : v \notin l.begin .. r.begin - 1
            BY <2>2, <5>1
          <6> HIDE DEF head
          <6> QED BY <5>1, <6>1, EmptyApart
        <5>2. CASE r.begin # l.begin
          <6>1. r.begin - 1 \in Low /\ l.begin <= r.begin - 1
            BY <2>1, <2>2, <5>2, LastLowAssumption DEF Low
          <6>2. AsLow(r.begin - 1) = r.begin - 1
            BY <6>1, LowIsLow
          <6>3. q \in Run /\ q.begin = l.begin /\ q.end = r.begin - 1 /\ head = <<q>>
            BY <2>2, <5>2, <6>1, <6>2, RunOfType
          <6> HIDE DEF q, head
          <6>4. q.begin <= q.end
            BY <6>1, <6>3
          <6> QED BY <5>2, <6>3, <6>4, OneApart
        <5> QED BY <5>1, <5>2
      <4>4. tail = head \o p
        BY <3>2
      <4> HIDE DEF head, tail
      <4>5. head # <<>> /\ p # <<>> => Last(head).end + 1 < p[1].begin
        BY <2>1, <2>2, <4>1, <4>2, <4>3
      <4>6. /\ Apart(tail) /\ Len(tail) = Len(head) + Len(p)
            /\ \A v : v \in RunValues(tail) <=> v \in RunValues(head) \/ v \in RunValues(p)
            /\ p # <<>> => tail # <<>> /\ Last(tail) = Last(p)
            /\ p = <<>> => tail = head
        BY <4>2, <4>3, <4>4, <4>5, ConcatApart
      <4>7. tail # <<>> => tail[1].begin >= l.begin
        <5>1. CASE head = <<>>
          <6>1. tail = p
            BY <4>2, <4>4, <5>1, ConcatEmptySeq DEF Apart
          <6> QED BY <2>1, <2>2, <4>1, <4>2, <6>1
        <5>2. CASE head # <<>>
          <6>1. Len(head) = 1 /\ 1 \in 1 .. Len(head) + Len(p) /\ 1 <= Len(head)
            BY <4>2, <4>3, <5>2, SeqRunType DEF Apart
          <6>2. tail[1] = head[1]
            BY <4>2, <4>3, <4>4, <6>1, ConcatProperties DEF Apart
          <6> QED BY <2>2, <4>3, <5>2, <6>2
        <5> QED BY <5>1, <5>2
      <4>8. tail # <<>> => /\ Last(tail).begin <= r.end + 1
                           /\ Last(tail).begin <= r.begin \/ (r.begin <= l.end /\ Last(tail).begin <= l.end + 1)
                           /\ Last(tail).end <= r.end \/ (r.end < l.end /\ Last(tail).end <= l.end)
        <5>1. CASE p = <<>>
          <6>1. tail # <<>> => Last(tail).begin = l.begin /\ Last(tail).end = r.begin - 1
            BY <4>3, <4>6, <5>1
          <6> QED BY <2>1, <2>2, <6>1
        <5>2. CASE p # <<>>
          <6>1. Last(tail).begin = low + 1 /\ Last(tail).end = high
            BY <4>2, <4>6, <5>2
          <6> QED BY <2>1, <2>2, <4>1, <6>1
        <5> QED BY <5>1, <5>2
      <4>9. \A v : v \in RunValues(tail) <=> (v \in l.begin .. l.end) # (v \in r.begin .. r.end)
        <5>1. \A v : v \in RunValues(tail) <=> v \in l.begin .. r.begin - 1 \/ v \in low + 1 .. high
          BY <4>2, <4>3, <4>6
        <5>2. \A v : (v \in l.begin .. r.begin - 1 \/ v \in low + 1 .. high) <=>
                     (v \in l.begin .. l.end) # (v \in r.begin .. r.end)
          BY <2>1, <2>2, <4>1
        <5> QED BY <5>1, <5>2
      <4>10. Len(tail) <= 2
        <5>1. Len(head) \in {0, 1} /\ Len(p) \in {0, 1} /\ Len(tail) = Len(head) + Len(p)
          BY <4>2, <4>3, <4>6
        <5>2. \A a, b, c : a \in {0, 1} /\ b \in {0, 1} /\ c = a + b => c <= 2
          OBVIOUS
        <5> QED BY <5>1, <5>2, Zenon
      <4> QED BY <4>6, <4>7, <4>8, <4>9, <4>10
    <3> QED BY <3>1, <3>2
  <2> HIDE DEF tail
  <2>6. f # <<>> /\ tail # <<>> => Last(f).end + 1 < tail[1].begin
    <3>1. f # <<>> => Last(f) \in Run
      BY <2>3, FrontApart
    <3>2. tail # <<>> => tail[1] \in Run
      <4>1. tail # <<>> => 1 \in 1 .. Len(tail)
        BY <2>5, SeqRunType DEF Apart
      <4> QED BY <2>5, <4>1, SeqRunType DEF Apart
    <3>3. /\ f # <<>> => Last(f).end \in Nat
          /\ tail # <<>> => tail[1].begin \in Nat
      BY <3>1, <3>2, RunType
    <3>4. tail # <<>> => tail[1].begin >= l.begin
      BY <2>5
    <3> QED BY <2>2, <2>3, <3>3, <3>4
  <2>7. /\ Apart(new) /\ Len(new) = Len(f) + Len(tail)
        /\ \A v : v \in RunValues(new) <=> v \in RunValues(f) \/ v \in RunValues(tail)
        /\ tail # <<>> => new # <<>> /\ Last(new) = Last(tail)
        /\ tail = <<>> => new = f
    BY <2>3, <2>5, <2>6, ConcatApart
  <2> HIDE DEF new
  <2>8. Follows(rs, r, new)
    <3>1. Len(new) <= Len(rs) + 1
      <4>1. Len(tail) \in Nat /\ Len(f) \in Nat
        BY <2>3, <2>5, SeqRunType DEF Apart
      <4> QED BY <2>3, <2>5, <2>7, <4>1
    <3>2. CASE tail # <<>>
      <4>1. new # <<>> /\ Last(new) = Last(tail) /\ Apart(new)
        BY <2>7, <3>2
      <4>2. /\ Last(tail).begin <= r.end + 1
            /\ Last(tail).begin <= r.begin \/ (r.begin <= l.end /\ Last(tail).begin <= l.end + 1)
            /\ Last(tail).end <= r.end \/ (r.end < l.end /\ Last(tail).end <= l.end)
        BY <2>5, <3>2
      <4> QED BY <2>1, <3>1, <4>1, <4>2 DEF Follows, l
    <3>3. CASE tail = <<>>
      <4>1. new # <<>> => /\ Last(new).end + 1 < l.begin /\ Last(new) \in Run
                          /\ Last(new).begin <= Last(new).end
        BY <2>3, <2>7, <3>3, FrontApart
      <4>2. new # <<>> => Last(new).begin <= r.end + 1 /\ Last(new).begin <= r.begin /\ Last(new).end <= r.end
        BY <2>1, <2>2, <4>1, RunType
      <4> QED BY <2>7, <3>1, <4>2 DEF Follows
    <3> QED BY <3>2, <3>3
  <2>9. ASSUME NEW v
        PROVE  v \in RunValues(new) <=> (v \in RunValues(rs)) # (v \in r.begin .. r.end)
    <3>1. v \in RunValues(f) => ~(v \in l.begin .. l.end) /\ ~(v \in r.begin .. r.end)
      BY <2>1, <2>2, <2>3
    <3> QED BY <2>3, <2>5, <2>7, <3>1
  <2>10. RunValues(new) = SymDiff(RunValues(rs), r.begin .. r.end)
    BY <2>9 DEF SymDiff
  <2> QED BY <2>4, <2>8, <2>10
<1> QED BY <1>1, <1>2
-----------------------------------------------------------------------------
(***************************************************************************)
(* The invariant: what each kernel knows between two iterations of its     *)
(* loop of the runs it has written and of those it has still to read.      *)
(***************************************************************************)
Operands ==
  /\ kernel \in Kernels
  /\ Ordered(lhs) /\ Ordered(rhs)
  /\ ~LeftIsValues(kernel) => Apart(lhs)
  /\ ~RightIsValues(kernel) => Apart(rhs)
  /\ RightIsValues(kernel) => \A i \in 1 .. Len(rhs) : rhs[i].begin = rhs[i].end

Places ==
  /\ li \in 1 .. Len(lhs) + 1 /\ ri \in 1 .. Len(rhs) + 1 /\ scan \in 1 .. Len(rhs) + 1

\* No run still to be read begins in front of the last one written, and those of
\* one side begin past it.
Merging ==
  kernel \in Unions \cup Xors =>
    /\ at \in {"merge", "done"}
    /\ Len(out) <= (li - 1) + (ri - 1)
    /\ out # <<>> =>
         /\ LeftOver  => lhs[li].begin >= Last(out).begin
         /\ RightOver => rhs[ri].begin >= Last(out).begin
         /\ \/ LeftOver  => lhs[li].begin > Last(out).end
            \/ RightOver => rhs[ri].begin > Last(out).end

\* The loaded runs are the current ones, and those of one side begin past the
\* last run written.
Intersecting ==
  kernel \in Intersections =>
    /\ at \in {"intersect", "done"}
    /\ LeftOver => left = lhs[li]
    /\ RightOver => right = rhs[ri]
    /\ kernel = "intersect_runs_cardinality" => out = <<>>
    /\ Len(out) <= (li - 1) + (ri - 1)
    /\ out # <<>> =>
         \/ LeftOver  => lhs[li].begin > Last(out).end + 1
         \/ RightOver => rhs[ri].begin > Last(out).end + 1

\* What is in front of the scan ends in front of what is left of the run that is
\* cut, and so does what is written; the runs written begin two apart at least.
Cutting ==
  kernel \in Differences =>
    /\ at \in {"outer", "inner", "done"}
    /\ ri <= scan
    /\ Len(out) <= (li - 1) + (scan - 1)
    /\ \A i \in 1 .. Len(out) : out[i].begin >= 2 * (i - 1)
    /\ at = "outer" /\ LeftOver =>
         /\ \A i \in 1 .. scan - 1 : rhs[i].end < lhs[li].begin
         /\ out # <<>> => Last(out).end + 1 < lhs[li].begin
    /\ at = "inner" =>
         /\ LeftOver /\ left \in Run
         /\ left.end = lhs[li].end /\ lhs[li].begin <= left.begin /\ left.begin <= left.end + 1
         /\ \A i \in 1 .. scan - 1 : rhs[i].end < left.begin
         /\ scan <= Len(rhs) => rhs[scan].end >= left.begin
         /\ out # <<>> => Last(out).end + 1 < left.begin

IInv ==
  /\ Operands /\ Places /\ Apart(out) /\ OutHoldsTheDecided
  /\ Merging /\ Intersecting /\ Cutting
-----------------------------------------------------------------------------
(***************************************************************************)
(* The runs that are read and those still to be read.                      *)
(***************************************************************************)
LEMMA OrderedType ==
  ASSUME NEW rs, Ordered(rs)
  PROVE  /\ rs \in Seq(Run) /\ Len(rs) \in Nat
         /\ \A i \in 1 .. Len(rs) : /\ rs[i] \in Run /\ rs[i].begin \in Nat /\ rs[i].end \in Nat
                                    /\ rs[i].begin <= rs[i].end
         /\ \A i, j \in 1 .. Len(rs) : i < j => rs[i].end < rs[j].begin
BY SeqRunType DEF Ordered

LEMMA PrefixMember ==
  ASSUME NEW rs, Ordered(rs), NEW i \in 1 .. Len(rs) + 1, NEW v
  PROVE  /\ v \in Prefix(rs, i) <=> v \in Int /\ Among(v, rs, 1, i - 1)
         /\ v \in Rest(rs, i) <=> v \in Int /\ Among(v, rs, i, Len(rs))
         /\ v \in RunValues(rs) <=> v \in Prefix(rs, i) \/ v \in Rest(rs, i)
<1>1. rs \in Seq(Run) /\ Len(rs) \in Nat
  BY OrderedType
<1>2. 1 \in 1 .. Len(rs) + 1 /\ i - 1 \in 0 .. Len(rs) /\ Len(rs) \in 0 .. Len(rs)
  BY <1>1
<1>3. v \in Prefix(rs, i) <=> v \in Int /\ Among(v, rs, 1, i - 1)
  BY <1>1, <1>2, SliceAmong DEF Prefix
<1>4. v \in Rest(rs, i) <=> v \in Int /\ Among(v, rs, i, Len(rs))
  BY <1>1, <1>2, SliceAmong DEF Rest
<1>5. v \in RunValues(rs) <=> v \in Int /\ Among(v, rs, 1, Len(rs))
  BY <1>1, ValuesAmong
<1>6. Among(v, rs, 1, Len(rs)) <=> Among(v, rs, 1, i - 1) \/ Among(v, rs, i, Len(rs))
  <2>1. \A k : k \in 1 .. Len(rs) <=> k \in 1 .. i - 1 \/ k \in i .. Len(rs)
    BY <1>1
  <2> QED BY <2>1 DEF Among
<1> QED BY <1>3, <1>4, <1>5, <1>6

LEMMA PrefixNext ==
  ASSUME NEW rs, Ordered(rs), NEW i \in 1 .. Len(rs)
  PROVE  /\ Prefix(rs, i + 1) = Prefix(rs, i) \cup (rs[i].begin .. rs[i].end)
         /\ Rest(rs, i) = Rest(rs, i + 1) \cup (rs[i].begin .. rs[i].end)
         /\ \A v \in Prefix(rs, i) : v \in Int /\ v < rs[i].begin
         /\ \A v \in Rest(rs, i + 1) : v \in Int /\ v > rs[i].end
         /\ \A v \in Rest(rs, i) : v \in Int /\ v >= rs[i].begin
         /\ i \in 1 .. Len(rs) + 1 /\ i + 1 \in 1 .. Len(rs) + 1 /\ i + 1 - 1 = i
<1>1. /\ Len(rs) \in Nat
      /\ \A k \in 1 .. Len(rs) : /\ rs[k].begin \in Nat /\ rs[k].end \in Nat
                                 /\ rs[k].begin <= rs[k].end
      /\ \A k, j \in 1 .. Len(rs) : k < j => rs[k].end < rs[j].begin
  BY OrderedType
<1>2. i \in 1 .. Len(rs) + 1 /\ i + 1 \in 1 .. Len(rs) + 1 /\ i + 1 - 1 = i
  BY <1>1
<1>3. ASSUME NEW v
      PROVE  /\ v \in Prefix(rs, i) <=> v \in Int /\ Among(v, rs, 1, i - 1)
             /\ v \in Rest(rs, i) <=> v \in Int /\ Among(v, rs, i, Len(rs))
             /\ v \in Prefix(rs, i + 1) <=> v \in Int /\ Among(v, rs, 1, i)
             /\ v \in Rest(rs, i + 1) <=> v \in Int /\ Among(v, rs, i + 1, Len(rs))
  BY <1>2, PrefixMember
<1>4. /\ \A k : k \in 1 .. i <=> k \in 1 .. i - 1 \/ k = i
      /\ \A k : k \in i .. Len(rs) <=> k \in i + 1 .. Len(rs) \/ k = i
  BY <1>1
<1>5. ASSUME NEW v \in Int
      PROVE  /\ Among(v, rs, 1, i) <=> Among(v, rs, 1, i - 1) \/ v \in rs[i].begin .. rs[i].end
             /\ Among(v, rs, i, Len(rs)) <=> Among(v, rs, i + 1, Len(rs)) \/ v \in rs[i].begin .. rs[i].end
  <2>1. v \in rs[i].begin .. rs[i].end <=> rs[i].begin <= v /\ v <= rs[i].end
    BY <1>1
  <2> QED BY <1>4, <2>1 DEF Among
<1>6. \A v : v \in rs[i].begin .. rs[i].end => v \in Int
  OBVIOUS
<1>7. /\ Prefix(rs, i + 1) = Prefix(rs, i) \cup (rs[i].begin .. rs[i].end)
      /\ Rest(rs, i) = Rest(rs, i + 1) \cup (rs[i].begin .. rs[i].end)
  BY <1>3, <1>5, <1>6
<1>8. ASSUME NEW v \in Prefix(rs, i) PROVE v \in Int /\ v < rs[i].begin
  <2>1. v \in Int /\ Among(v, rs, 1, i - 1)
    BY <1>3
  <2>2. PICK k \in 1 .. i - 1 : v <= rs[k].end
    BY <2>1 DEF Among
  <2>3. rs[k].end < rs[i].begin /\ rs[k].end \in Nat /\ rs[i].begin \in Nat
    BY <1>1
  <2> QED BY <2>1, <2>2, <2>3
<1>9. ASSUME NEW v \in Rest(rs, i + 1) PROVE v \in Int /\ v > rs[i].end
  <2>1. v \in Int /\ Among(v, rs, i + 1, Len(rs))
    BY <1>3
  <2>2. PICK k \in i + 1 .. Len(rs) : rs[k].begin <= v
    BY <2>1 DEF Among
  <2>3. rs[i].end < rs[k].begin /\ rs[k].begin \in Nat /\ rs[i].end \in Nat
    BY <1>1
  <2> QED BY <2>1, <2>2, <2>3
<1>10. ASSUME NEW v \in Rest(rs, i) PROVE v \in Int /\ v >= rs[i].begin
  <2>1. v \in Rest(rs, i + 1) \/ v \in rs[i].begin .. rs[i].end
    BY <1>7
  <2>2. rs[i].begin \in Nat /\ rs[i].end \in Nat /\ rs[i].begin <= rs[i].end
    BY <1>1
  <2> QED BY <1>9, <2>1, <2>2
<1> QED BY <1>2, <1>7, <1>8, <1>9, <1>10

LEMMA PrefixEnds ==
  ASSUME NEW rs, Ordered(rs)
  PROVE  /\ 1 \in 1 .. Len(rs) + 1 /\ Len(rs) + 1 \in 1 .. Len(rs) + 1
         /\ Prefix(rs, 1) = {} /\ Rest(rs, 1) = RunValues(rs)
         /\ Rest(rs, Len(rs) + 1) = {} /\ Prefix(rs, Len(rs) + 1) = RunValues(rs)
<1>1. Len(rs) \in Nat
  BY OrderedType
<1>2. 1 \in 1 .. Len(rs) + 1 /\ Len(rs) + 1 \in 1 .. Len(rs) + 1
  BY <1>1
<1>3. 1 .. 1 - 1 = {} /\ (Len(rs) + 1) .. Len(rs) = {}
  BY <1>1
<1>4. \A v : ~Among(v, rs, 1, 1 - 1) /\ ~Among(v, rs, Len(rs) + 1, Len(rs))
  BY <1>3 DEF Among
<1>5. \A v : v \notin Prefix(rs, 1) /\ v \notin Rest(rs, Len(rs) + 1)
  BY <1>2, <1>4, PrefixMember
<1>6. ASSUME NEW v
      PROVE  v \in Rest(rs, 1) <=> v \in RunValues(rs)
  BY <1>2, <1>5, PrefixMember
<1>7. ASSUME NEW v
      PROVE  v \in Prefix(rs, Len(rs) + 1) <=> v \in RunValues(rs)
  BY <1>2, <1>5, PrefixMember
<1> QED BY <1>2, <1>5, <1>6, <1>7

-----------------------------------------------------------------------------
(***************************************************************************)
(* The initial states.                                                     *)
(***************************************************************************)
LEMMA NoRuns ==
  ~(1 <= Len(RunsOf({})))
<1> SUFFICES ASSUME 1 <= Len(RunsOf({})) PROVE FALSE
  OBVIOUS
<1> DEFINE rs == RunsOf({})
<1>1. Ordered(rs) /\ RunValues(rs) = {} /\ 1 <= Len(rs)
  BY RunsOfSet, ApartOrdered
<1> HIDE DEF rs
<1>2. 1 \in 1 .. Len(rs)
  BY <1>1, OrderedType
<1>3. rs[1].begin \in rs[1].begin .. rs[1].end /\ DOMAIN rs = 1 .. Len(rs)
  BY <1>1, <1>2, OrderedType, SeqRunType
<1> QED BY <1>1, <1>2, <1>3 DEF RunValues

LEMMA InitIInv == KInit => IInv
<1> SUFFICES ASSUME NEW k \in Kernels, NEW A \in SUBSET Low, NEW B \in SUBSET Low, Start(k, A, B)
             PROVE  IInv
  BY DEF KInit
<1>1. /\ kernel = k /\ li = 1 /\ ri = 1 /\ scan = 1 /\ out = <<>>
      /\ lhs = OperandsOf(LeftIsValues(k), A) /\ rhs = OperandsOf(RightIsValues(k), B)
  BY DEF Start
<1>2. /\ Ordered(ValuesOf(A)) /\ Ordered(RunsOf(A)) /\ Apart(RunsOf(A)) /\ RunValues(RunsOf(A)) = A
      /\ Ordered(ValuesOf(B)) /\ Ordered(RunsOf(B)) /\ Apart(RunsOf(B)) /\ RunValues(RunsOf(B)) = B
      /\ \A n \in 1 .. Len(ValuesOf(B)) : ValuesOf(B)[n].begin = ValuesOf(B)[n].end
  BY ValuesOfSet, RunsOfSet, ApartOrdered
<1>3. Operands
  BY <1>1, <1>2 DEF Operands, OperandsOf
<1>4. Len(lhs) \in Nat /\ Len(rhs) \in Nat
  BY <1>3, OrderedType DEF Operands
<1>5. Places
  BY <1>1, <1>4 DEF Places
<1>6. Apart(out) /\ Len(out) = 0 /\ RunValues(out) = {}
  BY <1>1, EmptyApart
<1>7. at # "inner" /\ (k \in Unions \cup Xors => at = "merge") /\ (k \in Differences => at = "outer")
      /\ (k \in Intersections => at = "intersect")
  BY DEF Start, Kernels, Unions, Xors, Intersections, Differences
<1>8. OutHoldsTheDecided
  <2>1. Prefix(lhs, li) = {} /\ Prefix(rhs, ri) = {} /\ Rest(lhs, li) = RunValues(lhs) /\ Rest(rhs, ri) = RunValues(rhs)
    BY <1>1, <1>3, PrefixEnds DEF Operands
  <2>2. Decided = {}
    BY <1>1, <1>7, <2>1 DEF Decided, Kernels, SymDiff, Unions, Xors, Intersections, Differences
  <2> QED BY <1>6, <2>2 DEF OutHoldsTheDecided
<1>9. Merging
  BY <1>1, <1>6, <1>7 DEF Merging
<1>10. Intersecting
  <2>1. k \in Intersections /\ LeftOver => A # {}
    <3>1. k \in Intersections => lhs = RunsOf(A)
      BY <1>1 DEF Intersections, LeftIsValues, OperandsOf
    <3>2. A = {} => ~(1 <= Len(RunsOf(A)))
      BY NoRuns
    <3> QED BY <1>1, <3>1, <3>2 DEF LeftOver
  <2>2. k \in Intersections /\ RightOver => B # {}
    <3>1. k \in Intersections => rhs = RunsOf(B)
      BY <1>1 DEF Intersections, RightIsValues, OperandsOf
    <3>2. B = {} => ~(1 <= Len(RunsOf(B)))
      BY NoRuns
    <3> QED BY <1>1, <3>1, <3>2 DEF RightOver
  <2>3. k \in Intersections => /\ LeftOver => left = lhs[li]
                               /\ RightOver => right = rhs[ri]
    BY <1>1, <2>1, <2>2 DEF Start
  <2> QED BY <1>1, <1>6, <1>7, <2>3 DEF Intersecting
<1>11. Cutting
  <2>1. \A i : i \notin 1 .. scan - 1 /\ i \notin 1 .. Len(out)
    BY <1>1, <1>6
  <2> QED BY <1>1, <1>6, <1>7, <2>1 DEF Cutting
<1> QED BY <1>3, <1>5, <1>6, <1>8, <1>9, <1>10, <1>11 DEF IInv
-----------------------------------------------------------------------------
(***************************************************************************)
(* The merges: unions and exclusive-ors.                                   *)
(***************************************************************************)
LEMMA MergeStep ==
  ASSUME NEW o, Apart(o), NEW new,
         NEW xs, Ordered(xs), NEW i \in 1 .. Len(xs), Follows(o, xs[i], new),
         NEW ys, Ordered(ys), NEW j \in 1 .. Len(ys) + 1,
         j <= Len(ys) => ys[j].begin >= xs[i].begin,
         o # <<>> => \/ xs[i].begin > Last(o).end
                     \/ j <= Len(ys) => ys[j].begin > Last(o).end
  PROVE  new # <<>> =>
           /\ i + 1 <= Len(xs) => xs[i + 1].begin >= Last(new).begin
           /\ j <= Len(ys) => ys[j].begin >= Last(new).begin
           /\ \/ i + 1 <= Len(xs) => xs[i + 1].begin > Last(new).end
              \/ j <= Len(ys) => ys[j].begin > Last(new).end
<1> SUFFICES ASSUME new # <<>>
             PROVE  /\ i + 1 <= Len(xs) => xs[i + 1].begin >= Last(new).begin
                    /\ j <= Len(ys) => ys[j].begin >= Last(new).begin
                    /\ \/ i + 1 <= Len(xs) => xs[i + 1].begin > Last(new).end
                       \/ j <= Len(ys) => ys[j].begin > Last(new).end
  OBVIOUS
<1>1. /\ xs[i].begin \in Nat /\ xs[i].end \in Nat /\ xs[i].begin <= xs[i].end
      /\ Len(xs) \in Nat /\ Len(ys) \in Nat
      /\ i + 1 <= Len(xs) => xs[i + 1].begin \in Nat /\ xs[i].end < xs[i + 1].begin
      /\ j <= Len(ys) => ys[j].begin \in Nat
  <2>1. Len(xs) \in Nat /\ Len(ys) \in Nat
    BY OrderedType
  <2>2. /\ i + 1 <= Len(xs) => i + 1 \in 1 .. Len(xs) /\ i < i + 1
        /\ j <= Len(ys) => j \in 1 .. Len(ys)
    BY <2>1
  <2>3. i + 1 <= Len(xs) => xs[i + 1].begin \in Nat /\ xs[i].end < xs[i + 1].begin
    BY <2>2, OrderedType
  <2>4. j <= Len(ys) => ys[j].begin \in Nat
    BY <2>2, OrderedType
  <2>5. xs[i].begin \in Nat /\ xs[i].end \in Nat /\ xs[i].begin <= xs[i].end
    BY OrderedType
  <2> QED BY <2>1, <2>3, <2>4, <2>5
<1>2. Last(new).begin \in Nat /\ Last(new).end \in Nat
  BY FrontApart, RunType DEF Follows
<1>3. o # <<>> => Last(o).begin \in Nat /\ Last(o).end \in Nat
  BY FrontApart, RunType
<1>4. /\ Last(new).begin <= xs[i].end + 1
      /\ \/ Last(new).begin <= xs[i].begin
         \/ o # <<>> /\ xs[i].begin <= Last(o).end /\ Last(new).begin <= Last(o).end + 1
      /\ \/ Last(new).end <= xs[i].end
         \/ o # <<>> /\ xs[i].end < Last(o).end /\ Last(new).end <= Last(o).end
  BY DEF Follows
<1>5. i + 1 <= Len(xs) => xs[i + 1].begin >= Last(new).begin
  BY <1>1, <1>2, <1>4, SMTT(30)
<1>6. ASSUME j <= Len(ys) PROVE ys[j].begin >= Last(new).begin
  <2>1. ys[j].begin >= xs[i].begin /\ ys[j].begin \in Nat
    BY <1>1, <1>6
  <2>2. CASE Last(new).begin <= xs[i].begin
    BY <1>1, <1>2, <2>1, <2>2
  <2>3. CASE o # <<>> /\ xs[i].begin <= Last(o).end /\ Last(new).begin <= Last(o).end + 1
    <3>1. ys[j].begin > Last(o).end
      BY <1>1, <1>3, <1>6, <2>3
    <3> QED BY <1>2, <1>3, <2>1, <2>3, <3>1, SMTT(30)
  <2> QED BY <1>4, <2>2, <2>3
<1>7. \/ i + 1 <= Len(xs) => xs[i + 1].begin > Last(new).end
      \/ j <= Len(ys) => ys[j].begin > Last(new).end
  <2>1. CASE Last(new).end <= xs[i].end
    BY <1>1, <1>2, <2>1
  <2>2. CASE o # <<>> /\ xs[i].end < Last(o).end /\ Last(new).end <= Last(o).end
    <3>1. j <= Len(ys) => ys[j].begin > Last(o).end
      BY <1>1, <1>3, <2>2
    <3> QED BY <1>1, <1>2, <1>3, <2>2, <3>1, SMTT(30)
  <2> QED BY <1>4, <2>1, <2>2
<1> QED BY <1>5, <1>6, <1>7

\* What a run taken makes of the list.
LEMMA TakeFollows ==
  ASSUME Apart(out), NEW r \in Run, r.begin <= r.end,
         out # <<>> => Last(out).begin <= r.begin, Take(r)
  PROVE  /\ Follows(out, r, out')
         /\ kernel \in Unions => RunValues(out') = RunValues(out) \cup (r.begin .. r.end)
         /\ kernel \notin Unions => RunValues(out') = SymDiff(RunValues(out), r.begin .. r.end)
BY JoinedFollows, ExclusiveFollows DEF Take

LEMMA KernelKinds ==
  kernel \in Kernels =>
    /\ kernel \in Unions => kernel \notin Xors \cup Intersections \cup Differences
    /\ kernel \in Xors => kernel \notin Unions \cup Intersections \cup Differences
    /\ kernel \in Intersections => kernel \notin Unions \cup Xors \cup Differences
    /\ kernel \in Differences => kernel \notin Unions \cup Xors \cup Intersections
    /\ kernel \in Unions \cup Xors \cup Intersections \cup Differences
BY DEF Kernels, Unions, Xors, Intersections, Differences

\* What each kind of kernel has decided.
LEMMA DecidedNow ==
  ASSUME kernel \in Kernels
  PROVE  /\ kernel \in Unions => Decided = Prefix(lhs, li) \cup Prefix(rhs, ri)
         /\ kernel \in Xors => Decided = SymDiff(Prefix(lhs, li), Prefix(rhs, ri))
         /\ kernel \in Intersections =>
              Decided = (RunValues(lhs) \cap RunValues(rhs)) \ (Rest(lhs, li) \cap Rest(rhs, ri))
         /\ kernel \in Differences =>
              Decided = (Prefix(lhs, li)
                           \cup (IF at = "inner" THEN lhs[li].begin .. left.begin - 1 ELSE {}))
                        \ RunValues(rhs)
<1>1. kernel \in Unions => Decided = Prefix(lhs, li) \cup Prefix(rhs, ri)
  BY KernelKinds DEF Decided
<1>2. kernel \in Xors => Decided = SymDiff(Prefix(lhs, li), Prefix(rhs, ri))
  BY KernelKinds DEF Decided
<1>3. kernel \in Intersections =>
        Decided = (RunValues(lhs) \cap RunValues(rhs)) \ (Rest(lhs, li) \cap Rest(rhs, ri))
  BY KernelKinds DEF Decided
<1>4. kernel \in Differences =>
        Decided = (Prefix(lhs, li)
                     \cup (IF at = "inner" THEN lhs[li].begin .. left.begin - 1 ELSE {}))
                  \ RunValues(rhs)
  BY KernelKinds DEF Decided
<1> QED BY <1>1, <1>2, <1>3, <1>4

LEMMA DecidedNext ==
  ASSUME kernel \in Kernels, UNCHANGED <<kernel, lhs, rhs>>
  PROVE  /\ kernel \in Unions => Decided' = Prefix(lhs, li') \cup Prefix(rhs, ri')
         /\ kernel \in Xors => Decided' = SymDiff(Prefix(lhs, li'), Prefix(rhs, ri'))
         /\ kernel \in Intersections =>
              Decided' = (RunValues(lhs) \cap RunValues(rhs)) \ (Rest(lhs, li') \cap Rest(rhs, ri'))
         /\ kernel \in Differences =>
              Decided' = (Prefix(lhs, li')
                            \cup (IF at' = "inner" THEN lhs[li'].begin .. left'.begin - 1 ELSE {}))
                         \ RunValues(rhs)
<1>1. kernel \in Unions => Decided' = Prefix(lhs, li') \cup Prefix(rhs, ri')
  BY KernelKinds DEF Decided
<1>2. kernel \in Xors => Decided' = SymDiff(Prefix(lhs, li'), Prefix(rhs, ri'))
  BY KernelKinds DEF Decided
<1>3. kernel \in Intersections =>
        Decided' = (RunValues(lhs) \cap RunValues(rhs)) \ (Rest(lhs, li') \cap Rest(rhs, ri'))
  BY KernelKinds DEF Decided
<1>4. kernel \in Differences =>
        Decided' = (Prefix(lhs, li')
                      \cup (IF at' = "inner" THEN lhs[li'].begin .. left'.begin - 1 ELSE {}))
                   \ RunValues(rhs)
  BY KernelKinds DEF Decided
<1> QED BY <1>1, <1>2, <1>3, <1>4

\* A step that is at "merge" is a union's or an exclusive-or's, and so on.
LEMMA WhereKernelsAre ==
  ASSUME IInv
  PROVE  /\ kernel \in Kernels
         /\ at = "merge" => kernel \in Unions \cup Xors
         /\ at = "intersect" => kernel \in Intersections
         /\ at \in {"outer", "inner"} => kernel \in Differences
<1>1. kernel \in Kernels
  BY DEF IInv, Operands
<1> QED BY <1>1, KernelKinds DEF IInv, Merging, Intersecting, Cutting

\* What a merge keeps when it takes the next run of one side.
LEMMA MergedKeeps ==
  ASSUME IInv, at = "merge", UNCHANGED <<kernel, lhs, rhs, scan, at>>,
         li' \in 1 .. Len(lhs) + 1, ri' \in 1 .. Len(rhs) + 1,
         Apart(out'), Merging', OutHoldsTheDecided'
  PROVE  IInv'
<1>1. kernel \in Unions \cup Xors /\ kernel \in Kernels
  BY WhereKernelsAre
<1>2. Operands' /\ Places'
  BY DEF IInv, Operands, Places
<1>3. Intersecting' /\ Cutting'
  BY <1>1, KernelKinds DEF Intersecting, Cutting
<1> QED BY <1>2, <1>3 DEF IInv

LEMMA TakeLeftKeeps ==
  ASSUME IInv, TakeLeft
  PROVE  IInv'
<1> DEFINE r == lhs[li]
<1>1. /\ Ordered(lhs) /\ Ordered(rhs) /\ Apart(out) /\ kernel \in Unions \cup Xors /\ kernel \in Kernels
      /\ li \in 1 .. Len(lhs) + 1 /\ ri \in 1 .. Len(rhs) + 1
      /\ Len(lhs) \in Nat /\ Len(rhs) \in Nat /\ li <= Len(lhs)
  BY WhereKernelsAre, OrderedType DEF IInv, Operands, Places, TakeLeft, LeftOver
<1>2. li \in 1 .. Len(lhs) /\ li' = li + 1 /\ UNCHANGED <<kernel, lhs, rhs, ri, scan, at>> /\ at = "merge"
      /\ Take(r) /\ LeftFirst
  BY <1>1 DEF TakeLeft
<1>3. r \in Run /\ r.begin <= r.end /\ r.begin \in Nat /\ r.end \in Nat
  BY <1>1, <1>2, OrderedType
<1>4. /\ Len(out) <= (li - 1) + (ri - 1)
      /\ out # <<>> =>
         /\ r.begin >= Last(out).begin
         /\ ri <= Len(rhs) => rhs[ri].begin >= Last(out).begin
         /\ r.begin > Last(out).end \/ (ri <= Len(rhs) => rhs[ri].begin > Last(out).end)
  BY <1>1 DEF IInv, Merging, LeftOver, RightOver
<1>5. out # <<>> => Last(out).begin <= r.begin
  BY <1>4
<1>6. /\ Follows(out, r, out')
      /\ kernel \in Unions => RunValues(out') = RunValues(out) \cup (r.begin .. r.end)
      /\ kernel \notin Unions => RunValues(out') = SymDiff(RunValues(out), r.begin .. r.end)
  BY <1>1, <1>2, <1>3, <1>5, TakeFollows
<1>7. ri <= Len(rhs) => rhs[ri].begin >= r.begin
  <2>1. ri <= Len(rhs) => rhs[ri].begin \in Nat
    BY <1>1, OrderedType
  <2> QED BY <1>2, <1>3, <2>1 DEF LeftFirst, RightOver
<1>8. out' # <<>> =>
        /\ li + 1 <= Len(lhs) => lhs[li + 1].begin >= Last(out').begin
        /\ ri <= Len(rhs) => rhs[ri].begin >= Last(out').begin
        /\ \/ li + 1 <= Len(lhs) => lhs[li + 1].begin > Last(out').end
           \/ ri <= Len(rhs) => rhs[ri].begin > Last(out').end
  BY <1>1, <1>2, <1>4, <1>6, <1>7, MergeStep
<1>9. Apart(out') /\ Len(out') <= Len(out) + 1 /\ Len(out') \in Nat /\ Len(out) \in Nat
  BY <1>1, <1>6, SeqRunType DEF Follows, Apart
<1>10. Merging'
  <2>1. Len(out') <= (li' - 1) + (ri' - 1)
    BY <1>1, <1>2, <1>4, <1>9
  <2> QED BY <1>2, <1>8, <2>1 DEF Merging, LeftOver, RightOver
<1>11. OutHoldsTheDecided'
  <2>1. /\ Prefix(lhs, li + 1) = Prefix(lhs, li) \cup (r.begin .. r.end)
        /\ \A v \in Prefix(lhs, li) : v \in Int /\ v < r.begin
    BY <1>1, <1>2, PrefixNext
  <2>2. \A v \in Prefix(lhs, li) : v \notin r.begin .. r.end
    BY <1>3, <2>1
  <2>3. kernel # "intersect_runs_cardinality" /\ RunValues(out) = Decided
    BY <1>1 DEF IInv, OutHoldsTheDecided, Unions, Xors
  <2>4. CASE kernel \in Unions
    <3>1. /\ Decided = Prefix(lhs, li) \cup Prefix(rhs, ri)
          /\ Decided' = Prefix(lhs, li + 1) \cup Prefix(rhs, ri)
      BY <1>1, <1>2, <2>4, DecidedNow, DecidedNext
    <3> QED BY <1>6, <2>1, <2>3, <2>4, <3>1 DEF OutHoldsTheDecided
  <2>5. CASE kernel \in Xors
    <3>1. kernel \notin Unions
      BY <1>1, <2>5, KernelKinds
    <3>2. /\ Decided = SymDiff(Prefix(lhs, li), Prefix(rhs, ri))
          /\ Decided' = SymDiff(Prefix(lhs, li + 1), Prefix(rhs, ri))
      BY <1>1, <1>2, <2>5, DecidedNow, DecidedNext
    <3>3. RunValues(out') = Decided'
      BY <1>6, <2>1, <2>2, <2>3, <3>1, <3>2 DEF SymDiff
    <3> QED BY <3>3 DEF OutHoldsTheDecided
  <2> QED BY <1>1, <2>4, <2>5
<1>12. li' \in 1 .. Len(lhs) + 1 /\ ri' \in 1 .. Len(rhs) + 1
  BY <1>1, <1>2
<1> QED BY <1>2, <1>9, <1>10, <1>11, <1>12, MergedKeeps

LEMMA TakeRightKeeps ==
  ASSUME IInv, TakeRight
  PROVE  IInv'
<1> DEFINE r == rhs[ri]
<1>1. /\ Ordered(lhs) /\ Ordered(rhs) /\ Apart(out) /\ kernel \in Unions \cup Xors /\ kernel \in Kernels
      /\ li \in 1 .. Len(lhs) + 1 /\ ri \in 1 .. Len(rhs) + 1
      /\ Len(lhs) \in Nat /\ Len(rhs) \in Nat /\ ri <= Len(rhs)
  BY WhereKernelsAre, OrderedType DEF IInv, Operands, Places, TakeRight, RightOver
<1>2. ri \in 1 .. Len(rhs) /\ ri' = ri + 1 /\ UNCHANGED <<kernel, lhs, rhs, li, scan, at>> /\ at = "merge"
      /\ Take(r) /\ ~(LeftOver /\ LeftFirst)
  BY <1>1 DEF TakeRight
<1>3. r \in Run /\ r.begin <= r.end /\ r.begin \in Nat /\ r.end \in Nat
  BY <1>1, <1>2, OrderedType
<1>4. /\ Len(out) <= (li - 1) + (ri - 1)
      /\ out # <<>> =>
         /\ r.begin >= Last(out).begin
         /\ li <= Len(lhs) => lhs[li].begin >= Last(out).begin
         /\ r.begin > Last(out).end \/ (li <= Len(lhs) => lhs[li].begin > Last(out).end)
  BY <1>1 DEF IInv, Merging, LeftOver, RightOver
<1>5. out # <<>> => Last(out).begin <= r.begin
  BY <1>4
<1>6. /\ Follows(out, r, out')
      /\ kernel \in Unions => RunValues(out') = RunValues(out) \cup (r.begin .. r.end)
      /\ kernel \notin Unions => RunValues(out') = SymDiff(RunValues(out), r.begin .. r.end)
  BY <1>1, <1>2, <1>3, <1>5, TakeFollows
<1>7. li <= Len(lhs) => lhs[li].begin >= r.begin
  <2>1. li <= Len(lhs) => lhs[li].begin \in Nat
    BY <1>1, OrderedType
  <2> QED BY <1>2, <1>3, <2>1 DEF LeftFirst, LeftOver
<1>8. out' # <<>> =>
        /\ ri + 1 <= Len(rhs) => rhs[ri + 1].begin >= Last(out').begin
        /\ li <= Len(lhs) => lhs[li].begin >= Last(out').begin
        /\ \/ ri + 1 <= Len(rhs) => rhs[ri + 1].begin > Last(out').end
           \/ li <= Len(lhs) => lhs[li].begin > Last(out').end
  BY <1>1, <1>2, <1>4, <1>6, <1>7, MergeStep
<1>9. Apart(out') /\ Len(out') <= Len(out) + 1 /\ Len(out') \in Nat /\ Len(out) \in Nat
  BY <1>1, <1>6, SeqRunType DEF Follows, Apart
<1>10. Merging'
  <2>1. Len(out') <= (li' - 1) + (ri' - 1)
    BY <1>1, <1>2, <1>4, <1>9
  <2> QED BY <1>2, <1>8, <2>1 DEF Merging, LeftOver, RightOver
<1>11. OutHoldsTheDecided'
  <2>1. /\ Prefix(rhs, ri + 1) = Prefix(rhs, ri) \cup (r.begin .. r.end)
        /\ \A v \in Prefix(rhs, ri) : v \in Int /\ v < r.begin
    BY <1>1, <1>2, PrefixNext
  <2>2. \A v \in Prefix(rhs, ri) : v \notin r.begin .. r.end
    BY <1>3, <2>1
  <2>3. kernel # "intersect_runs_cardinality" /\ RunValues(out) = Decided
    BY <1>1 DEF IInv, OutHoldsTheDecided, Unions, Xors
  <2>4. CASE kernel \in Unions
    <3>1. /\ Decided = Prefix(lhs, li) \cup Prefix(rhs, ri)
          /\ Decided' = Prefix(lhs, li) \cup Prefix(rhs, ri + 1)
      BY <1>1, <1>2, <2>4, DecidedNow, DecidedNext
    <3> QED BY <1>6, <2>1, <2>3, <2>4, <3>1 DEF OutHoldsTheDecided
  <2>5. CASE kernel \in Xors
    <3>1. kernel \notin Unions
      BY <1>1, <2>5, KernelKinds
    <3>2. /\ Decided = SymDiff(Prefix(lhs, li), Prefix(rhs, ri))
          /\ Decided' = SymDiff(Prefix(lhs, li), Prefix(rhs, ri + 1))
      BY <1>1, <1>2, <2>5, DecidedNow, DecidedNext
    <3>3. RunValues(out') = Decided'
      BY <1>6, <2>1, <2>2, <2>3, <3>1, <3>2 DEF SymDiff
    <3> QED BY <3>3 DEF OutHoldsTheDecided
  <2> QED BY <1>1, <2>4, <2>5
<1>12. li' \in 1 .. Len(lhs) + 1 /\ ri' \in 1 .. Len(rhs) + 1
  BY <1>1, <1>2
<1> QED BY <1>2, <1>9, <1>10, <1>11, <1>12, MergedKeeps
\* The end of a pass.
LEMMA FinishKeeps ==
  ASSUME IInv, UNCHANGED <<kernel, lhs, rhs, li, ri, left, right, scan, out>>,
         at # "inner", at' = "done"
  PROVE  IInv'
<1>1. kernel \in Kernels /\ Operands' /\ Places' /\ Apart(out')
  BY DEF IInv, Operands, Places
<1>2. Decided' = Decided
  BY <1>1, DecidedNow, DecidedNext, KernelKinds
<1>3. OutHoldsTheDecided'
  BY <1>2 DEF IInv, OutHoldsTheDecided
<1>4. Merging' /\ Intersecting'
  BY DEF IInv, Merging, Intersecting, LeftOver, RightOver
<1>5. Cutting'
  BY DEF IInv, Cutting
<1> QED BY <1>1, <1>3, <1>4, <1>5 DEF IInv

-----------------------------------------------------------------------------
(***************************************************************************)
(* The intersections.                                                      *)
(***************************************************************************)
\* The runs from one place to another, of which those in between end in front
\* of a limit.
LEMMA RestSkips ==
  ASSUME NEW rs, Ordered(rs), NEW i \in 1 .. Len(rs), NEW j \in i + 1 .. Len(rs) + 1
  PROVE  /\ \A v \in Rest(rs, j) : v \in Rest(rs, i) /\ v \in Int /\ v > rs[i].end
         /\ \A v \in Rest(rs, i) : v \notin Rest(rs, j) => \E k \in i .. j - 1 : rs[k].begin <= v /\ v <= rs[k].end
         /\ j \in 1 .. Len(rs) + 1 /\ i \in 1 .. Len(rs) + 1
<1>1. /\ Len(rs) \in Nat
      /\ \A k \in 1 .. Len(rs) : /\ rs[k].begin \in Nat /\ rs[k].end \in Nat
                                 /\ rs[k].begin <= rs[k].end
      /\ \A k, n \in 1 .. Len(rs) : k < n => rs[k].end < rs[n].begin
  BY OrderedType
<1>2. j \in 1 .. Len(rs) + 1 /\ i \in 1 .. Len(rs) + 1
  BY <1>1
<1>3. \A v : /\ v \in Rest(rs, i) <=> v \in Int /\ Among(v, rs, i, Len(rs))
             /\ v \in Rest(rs, j) <=> v \in Int /\ Among(v, rs, j, Len(rs))
  BY <1>2, PrefixMember
<1>4. ASSUME NEW v \in Rest(rs, j) PROVE v \in Rest(rs, i) /\ v \in Int /\ v > rs[i].end
  <2>1. v \in Int /\ Among(v, rs, j, Len(rs))
    BY <1>3
  <2>2. PICK k \in j .. Len(rs) : rs[k].begin <= v /\ v <= rs[k].end
    BY <2>1 DEF Among
  <2>3. k \in i .. Len(rs) /\ k \in 1 .. Len(rs) /\ i < k
    BY <1>1
  <2>4. rs[i].end < rs[k].begin /\ rs[i].end \in Nat /\ rs[k].begin \in Nat
    BY <1>1, <2>3
  <2>5. v > rs[i].end
    BY <2>1, <2>2, <2>4
  <2>6. v \in Rest(rs, i)
    BY <1>3, <2>1, <2>2, <2>3 DEF Among
  <2> QED BY <2>1, <2>5, <2>6
<1>5. ASSUME NEW v \in Rest(rs, i), v \notin Rest(rs, j)
      PROVE  \E k \in i .. j - 1 : rs[k].begin <= v /\ v <= rs[k].end
  <2>1. PICK k \in i .. Len(rs) : rs[k].begin <= v /\ v <= rs[k].end
    BY <1>3 DEF Among
  <2>2. k \notin j .. Len(rs)
    BY <1>3, <1>5, <2>1 DEF Among
  <2>3. k \in i .. j - 1
    BY <1>1, <2>2
  <2> QED BY <2>1, <2>3
<1> QED BY <1>2, <1>4, <1>5

\* Where both sides stand when they are compared.
LEMMA ComparedRuns ==
  ASSUME IInv, Comparing
  PROVE  /\ kernel \in Intersections /\ kernel \in Kernels
         /\ Apart(lhs) /\ Apart(rhs) /\ Ordered(lhs) /\ Ordered(rhs) /\ Apart(out)
         /\ li \in 1 .. Len(lhs) /\ ri \in 1 .. Len(rhs)
         /\ Len(lhs) \in Nat /\ Len(rhs) \in Nat /\ Len(out) \in Nat
         /\ left = lhs[li] /\ right = rhs[ri]
         /\ left \in Run /\ left.begin \in Nat /\ left.end \in Nat /\ left.begin <= left.end
         /\ right \in Run /\ right.begin \in Nat /\ right.end \in Nat /\ right.begin <= right.end
         /\ Len(out) <= (li - 1) + (ri - 1)
         /\ kernel = "intersect_runs_cardinality" => out = <<>>
         /\ out # <<>> => left.begin > Last(out).end + 1 \/ right.begin > Last(out).end + 1
<1>1. kernel \in Intersections /\ kernel \in Kernels
  BY WhereKernelsAre DEF Comparing
<1>2. Apart(lhs) /\ Apart(rhs) /\ Ordered(lhs) /\ Ordered(rhs) /\ Apart(out)
  BY <1>1 DEF IInv, Operands, Intersections, LeftIsValues, RightIsValues
<1>3. Len(lhs) \in Nat /\ Len(rhs) \in Nat /\ Len(out) \in Nat
  BY <1>2, OrderedType, ApartOrdered
<1>4. li \in 1 .. Len(lhs) /\ ri \in 1 .. Len(rhs)
  BY <1>3 DEF IInv, Places, Comparing, LeftOver, RightOver
<1>5. left = lhs[li] /\ right = rhs[ri]
  BY <1>1 DEF IInv, Intersecting, Comparing
<1>6. /\ left \in Run /\ left.begin \in Nat /\ left.end \in Nat /\ left.begin <= left.end
      /\ right \in Run /\ right.begin \in Nat /\ right.end \in Nat /\ right.begin <= right.end
  BY <1>2, <1>4, <1>5, OrderedType
<1>7. /\ Len(out) <= (li - 1) + (ri - 1)
      /\ kernel = "intersect_runs_cardinality" => out = <<>>
      /\ out # <<>> => left.begin > Last(out).end + 1 \/ right.begin > Last(out).end + 1
  BY <1>1, <1>5 DEF IInv, Intersecting, Comparing
<1> QED BY <1>1, <1>2, <1>3, <1>4, <1>5, <1>6, <1>7

\* What an intersection keeps when it advances.
LEMMA AdvancedKeeps ==
  ASSUME IInv, Comparing, UNCHANGED <<kernel, lhs, rhs, scan, at>>,
         NEW i \in 1 .. Len(lhs) + 1, NEW j \in 1 .. Len(rhs) + 1, AdvanceTo(i, j),
         Apart(out'), Len(out') <= (i - 1) + (j - 1),
         kernel = "intersect_runs_cardinality" => out' = <<>>,
         out' # <<>> => \/ i <= Len(lhs) => lhs[i].begin > Last(out').end + 1
                        \/ j <= Len(rhs) => rhs[j].begin > Last(out').end + 1,
         kernel # "intersect_runs_cardinality" =>
           RunValues(out') = (RunValues(lhs) \cap RunValues(rhs)) \ (Rest(lhs, i) \cap Rest(rhs, j))
  PROVE  IInv'
<1>1. kernel \in Intersections /\ kernel \in Kernels /\ left = lhs[li] /\ right = rhs[ri]
  BY ComparedRuns
<1>2. li' = i /\ ri' = j
  BY DEF AdvanceTo
<1>3. Operands' /\ Places'
  BY <1>2 DEF IInv, Operands, Places
<1>4. OutHoldsTheDecided'
  <2>1. Decided' = (RunValues(lhs) \cap RunValues(rhs)) \ (Rest(lhs, li') \cap Rest(rhs, ri'))
    BY <1>1, DecidedNext
  <2> QED BY <1>2, <2>1 DEF OutHoldsTheDecided
<1>5. Intersecting'
  <2>1. at' = "intersect"
    BY DEF Comparing
  <2>2. /\ i <= Len(lhs) => left' = lhs[i]
        /\ j <= Len(rhs) => right' = rhs[j]
    BY <1>1 DEF AdvanceTo
  <2> QED BY <1>2, <2>1, <2>2 DEF Intersecting, LeftOver, RightOver
<1>6. Merging' /\ Cutting'
  BY <1>1, KernelKinds DEF Merging, Cutting
<1> QED BY <1>3, <1>4, <1>5, <1>6 DEF IInv

\* The runs skipped meet nothing of the other side.
LEMMA SkipLeftKeeps ==
  ASSUME IInv, SkipLeft
  PROVE  IInv'
<1> DEFINE j == Reaching(lhs, li + 1, right.begin)
<1>1. Comparing /\ left.end < right.begin /\ AdvanceTo(j, ri) /\ UNCHANGED <<kernel, lhs, rhs, scan, out, at>>
  BY DEF SkipLeft
<1>2. /\ kernel \in Intersections /\ kernel \in Kernels /\ Ordered(lhs) /\ Ordered(rhs) /\ Apart(out) /\ Apart(lhs)
      /\ li \in 1 .. Len(lhs) /\ ri \in 1 .. Len(rhs) /\ Len(lhs) \in Nat /\ Len(rhs) \in Nat /\ Len(out) \in Nat
      /\ left = lhs[li] /\ right = rhs[ri]
      /\ left.begin \in Nat /\ left.end \in Nat /\ left.begin <= left.end
      /\ right.begin \in Nat /\ right.end \in Nat /\ right.begin <= right.end
      /\ Len(out) <= (li - 1) + (ri - 1)
      /\ kernel = "intersect_runs_cardinality" => out = <<>>
      /\ out # <<>> => left.begin > Last(out).end + 1 \/ right.begin > Last(out).end + 1
  BY <1>1, ComparedRuns
<1>3. /\ j \in li + 1 .. Len(lhs) + 1
      /\ \A k \in li + 1 .. Len(lhs) : k < j => lhs[k].end < right.begin
  <2>1. li + 1 \in 1 .. Len(lhs) + 1 /\ right.begin \in Int /\ lhs \in Seq(Run)
    BY <1>2, OrderedType
  <2> QED BY <2>1, ReachingFirst
<1> HIDE DEF j
<1>4. j \in 1 .. Len(lhs) + 1 /\ ri \in 1 .. Len(rhs) + 1
  BY <1>2, <1>3
<1>5. Rest(lhs, j) \cap Rest(rhs, ri) = Rest(lhs, li) \cap Rest(rhs, ri)
  <2>1. /\ \A v \in Rest(lhs, j) : v \in Rest(lhs, li)
        /\ \A v \in Rest(lhs, li) : v \notin Rest(lhs, j) => \E k \in li .. j - 1 : lhs[k].begin <= v /\ v <= lhs[k].end
    BY <1>2, <1>3, RestSkips
  <2>2. ASSUME NEW v, v \in Rest(lhs, li), v \notin Rest(lhs, j), v \in Rest(rhs, ri)
        PROVE  FALSE
    <3>1. PICK k \in li .. j - 1 : v <= lhs[k].end
      BY <2>1, <2>2
    <3>2. k \in 1 .. Len(lhs) /\ (k = li \/ (k \in li + 1 .. Len(lhs) /\ k < j))
      BY <1>2, <1>3
    <3>3. lhs[k].end < right.begin /\ lhs[k].end \in Nat
      BY <1>1, <1>2, <1>3, <3>2, OrderedType
    <3>4. v \in Int /\ v >= right.begin
      BY <1>2, <2>2, PrefixNext
    <3> QED BY <1>2, <3>1, <3>3, <3>4, SMTT(30)
  <2> QED BY <2>1, <2>2
<1>6. /\ out' = out /\ Len(out) <= (j - 1) + (ri - 1)
  BY <1>1, <1>2, <1>3
<1>7. out # <<>> => \/ j <= Len(lhs) => lhs[j].begin > Last(out).end + 1
                    \/ ri <= Len(rhs) => rhs[ri].begin > Last(out).end + 1
  <2>1. CASE out # <<>> /\ left.begin > Last(out).end + 1
    <3>1. j <= Len(lhs) => j \in 1 .. Len(lhs) /\ li < j
      BY <1>2, <1>3
    <3>2. j <= Len(lhs) => lhs[li].end < lhs[j].begin /\ lhs[j].begin \in Nat
      BY <1>2, <3>1, OrderedType
    <3>3. Last(out).end \in Nat
      BY <1>2, <2>1, FrontApart, RunType
    <3>4. left.begin \in Nat /\ left.end \in Nat /\ left.begin <= left.end /\ left.end = lhs[li].end
      BY <1>2
    <3>5. j <= Len(lhs) => lhs[j].begin > Last(out).end + 1
      BY <2>1, <3>2, <3>3, <3>4
    <3> QED BY <3>5
  <2> QED BY <1>2, <2>1
<1>8. kernel # "intersect_runs_cardinality" =>
        RunValues(out) = (RunValues(lhs) \cap RunValues(rhs)) \ (Rest(lhs, j) \cap Rest(rhs, ri))
  BY <1>2, <1>5, DecidedNow DEF IInv, OutHoldsTheDecided
<1> QED BY <1>1, <1>2, <1>4, <1>6, <1>7, <1>8, AdvancedKeeps

LEMMA SkipRightKeeps ==
  ASSUME IInv, SkipRight
  PROVE  IInv'
<1> DEFINE j == Reaching(rhs, ri + 1, left.begin)
<1>1. Comparing /\ right.end < left.begin /\ AdvanceTo(li, j) /\ UNCHANGED <<kernel, lhs, rhs, scan, out, at>>
  BY DEF SkipRight
<1>2. /\ kernel \in Intersections /\ kernel \in Kernels /\ Ordered(lhs) /\ Ordered(rhs) /\ Apart(out) /\ Apart(rhs)
      /\ li \in 1 .. Len(lhs) /\ ri \in 1 .. Len(rhs) /\ Len(lhs) \in Nat /\ Len(rhs) \in Nat /\ Len(out) \in Nat
      /\ left = lhs[li] /\ right = rhs[ri]
      /\ left.begin \in Nat /\ left.end \in Nat /\ left.begin <= left.end
      /\ right.begin \in Nat /\ right.end \in Nat /\ right.begin <= right.end
      /\ Len(out) <= (li - 1) + (ri - 1)
      /\ kernel = "intersect_runs_cardinality" => out = <<>>
      /\ out # <<>> => left.begin > Last(out).end + 1 \/ right.begin > Last(out).end + 1
  BY <1>1, ComparedRuns
<1>3. /\ j \in ri + 1 .. Len(rhs) + 1
      /\ \A k \in ri + 1 .. Len(rhs) : k < j => rhs[k].end < left.begin
  <2>1. ri \in 1 .. Len(rhs) /\ Len(rhs) \in Nat
    BY <1>2
  <2>2. ri + 1 \in 1 .. Len(rhs) + 1
    BY <2>1
  <2>3. left.begin \in Int /\ rhs \in Seq(Run)
    BY <1>2, OrderedType
  <2> QED BY <2>2, <2>3, ReachingFirst
<1> HIDE DEF j
<1>4. j \in 1 .. Len(rhs) + 1 /\ li \in 1 .. Len(lhs) + 1
  <2>1. ri \in 1 .. Len(rhs) /\ Len(rhs) \in Nat /\ li \in 1 .. Len(lhs) /\ Len(lhs) \in Nat
    BY <1>2
  <2> QED BY <1>3, <2>1
<1>5. Rest(lhs, li) \cap Rest(rhs, j) = Rest(lhs, li) \cap Rest(rhs, ri)
  <2>1. /\ \A v \in Rest(rhs, j) : v \in Rest(rhs, ri)
        /\ \A v \in Rest(rhs, ri) : v \notin Rest(rhs, j) => \E k \in ri .. j - 1 : rhs[k].begin <= v /\ v <= rhs[k].end
    BY <1>2, <1>3, RestSkips
  <2>2. ASSUME NEW v, v \in Rest(rhs, ri), v \notin Rest(rhs, j), v \in Rest(lhs, li)
        PROVE  FALSE
    <3>1. PICK k \in ri .. j - 1 : v <= rhs[k].end
      BY <2>1, <2>2
    <3>2. k \in 1 .. Len(rhs) /\ (k = ri \/ (k \in ri + 1 .. Len(rhs) /\ k < j))
      BY <1>2, <1>3
    <3>3. rhs[k].end < left.begin /\ rhs[k].end \in Nat
      BY <1>1, <1>2, <1>3, <3>2, OrderedType
    <3>4. v \in Int /\ v >= left.begin
      BY <1>2, <2>2, PrefixNext
    <3> QED BY <1>2, <3>1, <3>3, <3>4, SMTT(30)
  <2> QED BY <2>1, <2>2
<1>6. /\ out' = out /\ Len(out) <= (li - 1) + (j - 1)
  BY <1>1, <1>2, <1>3
<1>7. out # <<>> => \/ li <= Len(lhs) => lhs[li].begin > Last(out).end + 1
                    \/ j <= Len(rhs) => rhs[j].begin > Last(out).end + 1
  <2>1. CASE out # <<>> /\ right.begin > Last(out).end + 1
    <3>1. j <= Len(rhs) => j \in 1 .. Len(rhs) /\ ri < j
      BY <1>2, <1>3, SMTT(30)
    <3>2. j <= Len(rhs) => rhs[ri].end < rhs[j].begin /\ rhs[j].begin \in Nat
      BY <1>2, <3>1, OrderedType
    <3>3. Last(out).end \in Nat
      BY <1>2, <2>1, FrontApart, RunType
    <3>4. right.begin \in Nat /\ right.end \in Nat /\ right.begin <= right.end /\ right.end = rhs[ri].end
      BY <1>2
    <3>5. j <= Len(rhs) => rhs[j].begin > Last(out).end + 1
      BY <2>1, <3>2, <3>3, <3>4
    <3> QED BY <3>5
  <2> QED BY <1>2, <2>1
<1>8. kernel # "intersect_runs_cardinality" =>
        RunValues(out) = (RunValues(lhs) \cap RunValues(rhs)) \ (Rest(lhs, li) \cap Rest(rhs, j))
  BY <1>2, <1>5, DecidedNow DEF IInv, OutHoldsTheDecided
<1> QED BY <1>1, <1>2, <1>4, <1>6, <1>7, <1>8, AdvancedKeeps
\* The runs copied after the i-th: all of them end inside.
LEMMA InsideRuns ==
  ASSUME NEW rs, Apart(rs), NEW i \in 1 .. Len(rs), NEW end \in Nat
  PROVE  LET c == Inside(rs, i, end)
         IN  /\ Apart(c) /\ Len(c) \in Nat
             /\ i + 1 + Len(c) \in i + 1 .. Len(rs) + 1
             /\ \A k \in i + 1 .. i + Len(c) : rs[k].end <= end
             /\ \A v : v \in RunValues(c) <=> v \in Int /\ Among(v, rs, i + 1, i + Len(c))
             /\ c # <<>> => c[1] = rs[i + 1] /\ Last(c) = rs[i + Len(c)]
             /\ ~Skewed => c = <<>>
<1> DEFINE c == Inside(rs, i, end)
           j == Reaching(rs, i + 1, end + 1)
           Goal == /\ Apart(c) /\ Len(c) \in Nat
                   /\ i + 1 + Len(c) \in i + 1 .. Len(rs) + 1
                   /\ \A k \in i + 1 .. i + Len(c) : rs[k].end <= end
                   /\ \A v : v \in RunValues(c) <=> v \in Int /\ Among(v, rs, i + 1, i + Len(c))
                   /\ c # <<>> => c[1] = rs[i + 1] /\ Last(c) = rs[i + Len(c)]
                   /\ ~Skewed => c = <<>>
<1>1. /\ rs \in Seq(Run) /\ Len(rs) \in Nat
      /\ \A k \in 1 .. Len(rs) : /\ rs[k].begin \in Nat /\ rs[k].end \in Nat
                                 /\ rs[k].begin <= rs[k].end
      /\ \A k, n \in 1 .. Len(rs) : k < n => rs[k].end + 1 < rs[n].begin
  BY SeqRunType DEF Apart
<1>2. CASE ~Skewed
  <2>1. c = <<>>
    BY <1>2 DEF Inside
  <2>2. Len(c) = 0 /\ Apart(c) /\ \A v : v \notin RunValues(c)
    BY <2>1, EmptyApart
  <2> HIDE DEF c
  <2>3. i + 1 .. i + Len(c) = {} /\ i + 1 + Len(c) \in i + 1 .. Len(rs) + 1
    BY <1>1, <2>2
  <2>4. Goal
    BY <2>1, <2>2, <2>3 DEF Among
  <2> QED BY <2>4 DEF c
<1>3. CASE Skewed
  <2>1. /\ j \in i + 1 .. Len(rs) + 1
        /\ \A k \in i + 1 .. Len(rs) : k < j => rs[k].end < end + 1
    <3>1. i + 1 \in 1 .. Len(rs) + 1 /\ end + 1 \in Int
      BY <1>1
    <3> QED BY <1>1, <3>1, ReachingFirst
  <2>2. c = SubSeq(rs, i + 1, j - 1)
    BY <1>3 DEF Inside
  <2> HIDE DEF j, c
  <2>3. i + 1 \in 1 .. Len(rs) + 1 /\ j - 1 \in 0 .. Len(rs)
    BY <1>1, <2>1
  <2>4. /\ c \in Seq(Run) /\ Len(c) = IF i + 1 <= j - 1 THEN j - 1 - (i + 1) + 1 ELSE 0
        /\ \A k \in 1 .. j - 1 - (i + 1) + 1 : c[k] = rs[k + (i + 1) - 1]
    BY <1>1, <2>2, <2>3, SliceType
  <2>5. Len(c) = j - 1 - i /\ Len(c) \in Nat /\ i + 1 + Len(c) = j /\ i + Len(c) = j - 1
    BY <1>1, <2>1, <2>4
  <2>6. \A k \in 1 .. Len(c) : c[k] = rs[k + i] /\ k + i \in 1 .. Len(rs)
    <3> TAKE k \in 1 .. Len(c)
    <3>1. k \in 1 .. j - 1 - (i + 1) + 1 /\ k + (i + 1) - 1 = k + i /\ k + i \in 1 .. Len(rs)
      BY <1>1, <2>1, <2>5
    <3> QED BY <2>4, <3>1
  <2>7. Apart(c)
    <3>1. ASSUME NEW k \in 1 .. Len(c), NEW n \in 1 .. Len(c), k < n
          PROVE  c[k].end + 1 < c[n].begin
      <4>1. /\ c[k] = rs[k + i] /\ k + i \in 1 .. Len(rs)
            /\ c[n] = rs[n + i] /\ n + i \in 1 .. Len(rs) /\ k + i < n + i
        BY <2>5, <2>6, <3>1
      <4> QED BY <1>1, <4>1
    <3>2. \A k \in 1 .. Len(c) : c[k].begin <= c[k].end
      BY <1>1, <2>6
    <3> QED BY <2>4, <3>1, <3>2 DEF Apart
  <2>8. \A k \in i + 1 .. i + Len(c) : rs[k].end <= end
    <3> TAKE k \in i + 1 .. i + Len(c)
    <3>1. k \in i + 1 .. Len(rs) /\ k \in 1 .. Len(rs) /\ k < j
      BY <1>1, <2>1, <2>5
    <3> QED BY <1>1, <2>1, <3>1
  <2>9. \A v : v \in RunValues(c) <=> v \in Int /\ Among(v, rs, i + 1, i + Len(c))
    BY <1>1, <2>2, <2>3, <2>5, SliceAmong
  <2>10. c # <<>> => c[1] = rs[i + 1] /\ Last(c) = rs[i + Len(c)]
    <3> SUFFICES ASSUME c # <<>> PROVE c[1] = rs[i + 1] /\ Last(c) = rs[i + Len(c)]
      OBVIOUS
    <3>1. Len(c) # 0
      BY <2>4, SeqRunType
    <3>2. 1 \in 1 .. Len(c) /\ Len(c) \in 1 .. Len(c) /\ 1 + i = i + 1 /\ Len(c) + i = i + Len(c)
      BY <2>5, <3>1
    <3> QED BY <2>6, <3>2 DEF Last
  <2>11. Goal
    BY <1>3, <2>1, <2>5, <2>7, <2>8, <2>9, <2>10
  <2> QED BY <2>11 DEF c
<1> QED BY <1>2, <1>3

\* The run two runs share.
LEMMA SharedRun ==
  ASSUME NEW l \in Run, NEW r \in Run, l.begin <= l.end, r.begin <= r.end,
         l.end >= r.begin, r.end >= l.begin
  PROVE  LET s == RunOf(Max({l.begin, r.begin}), Min({l.end, r.end}))
         IN  /\ s \in Run /\ s.begin <= s.end
             /\ s.begin >= l.begin /\ s.begin >= r.begin
             /\ s.end = IF l.end <= r.end THEN l.end ELSE r.end
             /\ \A v : v \in s.begin .. s.end <=> v \in l.begin .. l.end /\ v \in r.begin .. r.end
<1> DEFINE b == Max({l.begin, r.begin})
           e == Min({l.end, r.end})
           s == RunOf(b, e)
<1>1. /\ l.begin \in Low /\ l.end \in Low /\ r.begin \in Low /\ r.end \in Low
      /\ l.begin \in Nat /\ l.end \in Nat /\ r.begin \in Nat /\ r.end \in Nat
  BY RunType
<1>2. /\ b = IF l.begin >= r.begin THEN l.begin ELSE r.begin
      /\ e = IF l.end <= r.end THEN l.end ELSE r.end
  <2>1. b = IF l.begin >= r.begin THEN l.begin ELSE r.begin
    BY <1>1, MaxMin
  <2>2. e = IF l.end <= r.end THEN l.end ELSE r.end
    BY <1>1, MaxMin
  <2> QED BY <2>1, <2>2
<1> HIDE DEF b, e
<1>3. s \in Run /\ s.begin = b /\ s.end = e
  BY <1>1, <1>2, RunOfType
<1> HIDE DEF s
<1>4. /\ s \in Run /\ s.begin <= s.end
      /\ s.begin >= l.begin /\ s.begin >= r.begin
      /\ s.end = IF l.end <= r.end THEN l.end ELSE r.end
      /\ \A v : v \in s.begin .. s.end <=> v \in l.begin .. l.end /\ v \in r.begin .. r.end
  BY <1>1, <1>2, <1>3
<1> QED BY <1>4 DEF s, b, e

\* The run shared with one that ends later, and the runs copied from inside it.
LEMMA ShorterEmits ==
  ASSUME NEW xs, Apart(xs), NEW p \in 1 .. Len(xs),
         NEW ys, Apart(ys), NEW q \in 1 .. Len(ys),
         NEW s \in Run, s.begin <= s.end, s.end = xs[p].end, s.begin >= xs[p].begin, s.begin >= ys[q].begin,
         \A v : v \in s.begin .. s.end <=> v \in xs[p].begin .. xs[p].end /\ v \in ys[q].begin .. ys[q].end,
         xs[p].end >= ys[q].begin, xs[p].end < ys[q].end,
         NEW o, Apart(o),
         o # <<>> => xs[p].begin > Last(o).end + 1 \/ ys[q].begin > Last(o).end + 1
  PROVE  LET c == Inside(xs, p, ys[q].end)
             n == p + 1 + Len(c)
             new == o \o (<<s>> \o c)
         IN  /\ n \in 1 .. Len(xs) + 1 /\ n > p
             /\ Apart(new) /\ Len(new) = Len(o) + (n - p) /\ new # <<>>
             /\ n <= Len(xs) => xs[n].begin > Last(new).end + 1
             /\ \A v : v \in RunValues(new) <=>
                         v \in RunValues(o) \/ (v \in Rest(xs, p) /\ v \in Rest(ys, q) /\ v \notin Rest(xs, n))
             /\ \A v : v \in Rest(xs, n) => v \in Rest(xs, p)
<1> DEFINE c == Inside(xs, p, ys[q].end)
           n == p + 1 + Len(c)
           t == <<s>> \o c
           new == o \o t
<1>1. /\ Len(xs) \in Nat /\ Len(ys) \in Nat /\ Len(o) \in Nat /\ Ordered(xs) /\ Ordered(ys)
      /\ \A k \in 1 .. Len(xs) : /\ xs[k].begin \in Nat /\ xs[k].end \in Nat
                                 /\ xs[k].begin <= xs[k].end
      /\ \A k, m \in 1 .. Len(xs) : k < m => xs[k].end + 1 < xs[m].begin
      /\ ys[q].begin \in Nat /\ ys[q].end \in Nat /\ ys[q].begin <= ys[q].end
      /\ s.begin \in Nat /\ s.end \in Nat
  BY SeqRunType, ApartOrdered, RunType DEF Apart
<1>2. /\ Apart(c) /\ Len(c) \in Nat
      /\ n \in p + 1 .. Len(xs) + 1
      /\ \A k \in p + 1 .. p + Len(c) : xs[k].end <= ys[q].end
      /\ \A v : v \in RunValues(c) <=> v \in Int /\ Among(v, xs, p + 1, p + Len(c))
      /\ c # <<>> => c[1] = xs[p + 1] /\ Last(c) = xs[p + Len(c)]
      /\ p + Len(c) = n - 1 /\ Len(c) = n - 1 - p
  <2>1. ys[q].end \in Nat
    BY <1>1
  <2>2. /\ Apart(c) /\ Len(c) \in Nat
        /\ n \in p + 1 .. Len(xs) + 1
        /\ \A k \in p + 1 .. p + Len(c) : xs[k].end <= ys[q].end
        /\ \A v : v \in RunValues(c) <=> v \in Int /\ Among(v, xs, p + 1, p + Len(c))
        /\ c # <<>> => c[1] = xs[p + 1] /\ Last(c) = xs[p + Len(c)]
    BY <2>1, InsideRuns
  <2> HIDE DEF c
  <2>3. p + Len(c) = n - 1 /\ Len(c) = n - 1 - p
    BY <1>1, <2>2
  <2> QED BY <2>2, <2>3
<1> HIDE DEF c, n
<1>3. n \in 1 .. Len(xs) + 1 /\ n > p /\ p < n - 1 + 1 /\ (c # <<>> => p + 1 \in 1 .. Len(xs))
  <2>1. n \in 1 .. Len(xs) + 1 /\ n > p /\ p < n - 1 + 1
    BY <1>1, <1>2
  <2>2. c # <<>> => Len(c) # 0
    BY <1>2, SeqRunType DEF Apart
  <2>3. c # <<>> => p + 1 \in 1 .. Len(xs)
    BY <1>1, <1>2, <2>2
  <2> QED BY <2>1, <2>3
<1>4. /\ Apart(<<s>>) /\ Len(<<s>>) = 1 /\ <<s>>[1] = s /\ Last(<<s>>) = s /\ <<s>> # <<>>
      /\ \A v : v \in RunValues(<<s>>) <=> v \in s.begin .. s.end
  BY OneApart
<1>5. /\ Apart(t) /\ Len(t) = 1 + Len(c) /\ t[1] = s /\ t # <<>>
      /\ \A v : v \in RunValues(t) <=> v \in s.begin .. s.end \/ v \in RunValues(c)
      /\ Last(t).end = xs[n - 1].end
  <2>1. c # <<>> => Last(<<s>>).end + 1 < c[1].begin
    <3>1. c # <<>> => xs[p].end + 1 < xs[p + 1].begin
      BY <1>1, <1>3
    <3> QED BY <1>2, <1>4, <3>1
  <2>2. /\ Apart(t) /\ Len(t) = Len(<<s>>) + Len(c)
        /\ \A v : v \in RunValues(t) <=> v \in RunValues(<<s>>) \/ v \in RunValues(c)
        /\ c # <<>> => t # <<>> /\ Last(t) = Last(c)
        /\ c = <<>> => t = <<s>>
    BY <1>2, <1>4, <2>1, ConcatApart
  <2>3. t[1] = s
    <3>1. <<s>> \in Seq(Run) /\ c \in Seq(Run) /\ 1 \in 1 .. Len(<<s>>) + Len(c) /\ 1 <= Len(<<s>>)
      BY <1>2, <1>4 DEF Apart
    <3>2. t[1] = <<s>>[1]
      BY <3>1, ConcatProperties
    <3> QED BY <1>4, <3>2
  <2>4. Last(t).end = xs[n - 1].end
    <3>1. CASE c = <<>>
      <4>1. n - 1 = p
        BY <1>1, <1>2, <3>1, EmptyApart
      <4> QED BY <1>4, <2>2, <3>1, <4>1
    <3>2. CASE c # <<>>
      BY <1>2, <2>2, <3>2
    <3> QED BY <3>1, <3>2
  <2> QED BY <1>4, <2>2, <2>3, <2>4
<1> HIDE DEF t
<1>6. o # <<>> /\ t # <<>> => Last(o).end + 1 < t[1].begin
  <2>1. o # <<>> => Last(o).end \in Nat
    BY FrontApart, RunType
  <2>2. xs[p].begin \in Nat /\ ys[q].begin \in Nat /\ s.begin \in Nat /\ t[1].begin = s.begin
    BY <1>1, <1>5
  <2>3. s.begin >= xs[p].begin /\ s.begin >= ys[q].begin
    OBVIOUS
  <2>4. o # <<>> => Last(o).end + 1 < s.begin
    BY <2>1, <2>2, <2>3, SMTT(30)
  <2> QED BY <2>2, <2>4
<1>7. /\ Apart(new) /\ Len(new) = Len(o) + Len(t) /\ new # <<>> /\ Last(new) = Last(t)
      /\ \A v : v \in RunValues(new) <=> v \in RunValues(o) \/ v \in RunValues(t)
  BY <1>5, <1>6, ConcatApart
<1> HIDE DEF new
<1>8. Len(new) = Len(o) + (n - p)
  BY <1>1, <1>2, <1>5, <1>7
<1>9. n <= Len(xs) => xs[n].begin > Last(new).end + 1
  <2>1. n - 1 \in 1 .. Len(xs) /\ (n <= Len(xs) => n \in 1 .. Len(xs) /\ n - 1 < n)
    BY <1>1, <1>2, <1>3
  <2>2. n <= Len(xs) => xs[n - 1].end + 1 < xs[n].begin /\ xs[n].begin \in Nat
    BY <1>1, <2>1
  <2>3. xs[n - 1].end \in Nat
    BY <1>1, <2>1
  <2>4. Last(new).end = xs[n - 1].end
    BY <1>5, <1>7
  <2> QED BY <2>2, <2>3, <2>4
<1>10. /\ \A v \in Rest(xs, n) : v \in Rest(xs, p) /\ v \in Int /\ v > xs[p].end
       /\ \A v \in Rest(xs, p) : v \notin Rest(xs, n) => \E k \in p .. n - 1 : xs[k].begin <= v /\ v <= xs[k].end
  BY <1>1, <1>2, RestSkips
<1>11. /\ \A v : v \in xs[p].begin .. xs[p].end => v \in Rest(xs, p)
       /\ \A v : v \in ys[q].begin .. ys[q].end => v \in Rest(ys, q)
       /\ \A v \in Rest(xs, p) : v \in Int
       /\ \A v \in Rest(ys, q) : v >= ys[q].begin
       /\ p \in 1 .. Len(xs) + 1
  BY <1>1, PrefixNext, SMTT(30)
<1>12. ASSUME NEW v
       PROVE  v \in RunValues(t) <=> v \in Rest(xs, p) /\ v \in Rest(ys, q) /\ v \notin Rest(xs, n)
  <2>1. ASSUME v \in s.begin .. s.end
        PROVE  v \in Rest(xs, p) /\ v \in Rest(ys, q) /\ v \notin Rest(xs, n)
    <3>1. v \in xs[p].begin .. xs[p].end /\ v \in ys[q].begin .. ys[q].end
      BY <2>1
    <3>2. v \in Int /\ v <= xs[p].end /\ xs[p].end \in Nat
      BY <1>1, <3>1
    <3>3. ~(v > xs[p].end)
      BY <3>2
    <3> QED BY <1>10, <1>11, <3>1, <3>3
  <2>2. ASSUME v \in RunValues(c)
        PROVE  v \in Rest(xs, p) /\ v \in Rest(ys, q) /\ v \notin Rest(xs, n)
    <3>1. v \in Int /\ Among(v, xs, p + 1, n - 1)
      BY <1>2, <2>2
    <3>2. PICK k \in p + 1 .. n - 1 : xs[k].begin <= v /\ v <= xs[k].end
      BY <3>1 DEF Among
    <3>3. /\ k \in 1 .. Len(xs) /\ k \in p .. Len(xs) /\ p < k /\ n \in k + 1 .. Len(xs) + 1
          /\ k \in p + 1 .. p + Len(c)
      BY <1>1, <1>2, <3>2
    <3>4. /\ xs[p].end + 1 < xs[k].begin /\ xs[k].end <= ys[q].end
          /\ xs[p].end \in Nat /\ xs[k].begin \in Nat /\ xs[k].end \in Nat
      BY <1>1, <1>2, <3>3
    <3>5. v \in ys[q].begin .. ys[q].end
      <4>1. ys[q].begin \in Nat /\ ys[q].end \in Nat /\ ys[q].begin <= xs[p].end
        BY <1>1
      <4>2. v \in Int
        BY <3>1
      <4>3. v <= ys[q].end
        BY <3>2, <3>4, <4>1, <4>2
      <4>4. xs[k].begin >= ys[q].begin
        BY <3>4, <4>1, SMTT(30)
      <4>5. v >= ys[q].begin
        BY <3>2, <3>4, <4>1, <4>2, <4>4
      <4> QED BY <4>1, <4>2, <4>3, <4>5
    <3>6. v \in Rest(xs, p)
      BY <1>1, <1>11, <3>1, <3>2, <3>3, PrefixMember DEF Among
    <3>7. \A w \in Rest(xs, n) : w > xs[k].end
      BY <1>1, <3>3, RestSkips
    <3>8. ~(v > xs[k].end)
      BY <3>1, <3>2, <3>4
    <3> QED BY <1>11, <3>5, <3>6, <3>7, <3>8
  <2>3. ASSUME v \in Rest(xs, p), v \in Rest(ys, q), v \notin Rest(xs, n)
        PROVE  v \in s.begin .. s.end \/ v \in RunValues(c)
    <3>1. PICK k \in p .. n - 1 : xs[k].begin <= v /\ v <= xs[k].end
      BY <1>10, <2>3
    <3>2. v \in Int /\ v >= ys[q].begin
      BY <1>11, <2>3
    <3>3. CASE k = p
      <4>1. xs[p].begin \in Nat /\ xs[p].end \in Nat /\ xs[p].begin <= v /\ v <= xs[p].end
        BY <1>1, <3>1, <3>3
      <4>2. v \in xs[p].begin .. xs[p].end /\ v \in ys[q].begin .. ys[q].end
        BY <1>1, <3>2, <4>1, SMTT(30)
      <4> QED BY <4>2
    <3>4. CASE k # p
      <4>1. k \in p + 1 .. p + Len(c)
        BY <1>1, <1>2, <3>1, <3>4
      <4> QED BY <1>2, <3>1, <3>2, <4>1 DEF Among
    <3> QED BY <3>3, <3>4
  <2> QED BY <1>5, <2>1, <2>2, <2>3
<1>13. /\ n \in 1 .. Len(xs) + 1 /\ n > p
       /\ Apart(new) /\ Len(new) = Len(o) + (n - p) /\ new # <<>>
       /\ n <= Len(xs) => xs[n].begin > Last(new).end + 1
       /\ \A v : v \in RunValues(new) <=>
                   v \in RunValues(o) \/ (v \in Rest(xs, p) /\ v \in Rest(ys, q) /\ v \notin Rest(xs, n))
       /\ \A v : v \in Rest(xs, n) => v \in Rest(xs, p)
  BY <1>3, <1>7, <1>8, <1>9, <1>10, <1>12
<1> QED BY <1>13 DEF new, n, t, c
\* The run shared by two that end together.
LEMMA EqualEmits ==
  ASSUME NEW xs, Apart(xs), NEW p \in 1 .. Len(xs),
         NEW ys, Apart(ys), NEW q \in 1 .. Len(ys), xs[p].end = ys[q].end,
         NEW s \in Run, s.begin <= s.end, s.end = xs[p].end, s.begin >= xs[p].begin, s.begin >= ys[q].begin,
         \A v : v \in s.begin .. s.end <=> v \in xs[p].begin .. xs[p].end /\ v \in ys[q].begin .. ys[q].end,
         NEW o, Apart(o),
         o # <<>> => xs[p].begin > Last(o).end + 1 \/ ys[q].begin > Last(o).end + 1
  PROVE  LET new == o \o <<s>>
         IN  /\ Apart(new) /\ Len(new) = Len(o) + 1 /\ new # <<>>
             /\ p + 1 <= Len(xs) => xs[p + 1].begin > Last(new).end + 1
             /\ \A v : v \in RunValues(new) <=>
                         v \in RunValues(o) \/ (v \in Rest(xs, p) /\ v \in Rest(ys, q)
                                                /\ ~(v \in Rest(xs, p + 1) /\ v \in Rest(ys, q + 1)))
             /\ \A v : v \in Rest(xs, p + 1) => v \in Rest(xs, p)
             /\ \A v : v \in Rest(ys, q + 1) => v \in Rest(ys, q)
<1> DEFINE new == o \o <<s>>
<1>1. /\ Len(xs) \in Nat /\ Len(ys) \in Nat /\ Ordered(xs) /\ Ordered(ys)
      /\ xs[p].begin \in Nat /\ xs[p].end \in Nat
      /\ ys[q].begin \in Nat /\ ys[q].end \in Nat
      /\ s.begin \in Nat /\ s.end \in Nat
  BY SeqRunType, ApartOrdered, RunType DEF Apart
<1>2. p + 1 <= Len(xs) => xs[p].end + 1 < xs[p + 1].begin /\ xs[p + 1].begin \in Nat
  <2>1. p + 1 <= Len(xs) => p + 1 \in 1 .. Len(xs) /\ p < p + 1
    BY <1>1
  <2> QED BY <2>1, SeqRunType DEF Apart
<1>3. /\ Apart(<<s>>) /\ Len(<<s>>) = 1 /\ <<s>>[1] = s /\ Last(<<s>>) = s /\ <<s>> # <<>>
      /\ \A v : v \in RunValues(<<s>>) <=> v \in s.begin .. s.end
  BY OneApart
<1>4. o # <<>> /\ <<s>> # <<>> => Last(o).end + 1 < <<s>>[1].begin
  <2>1. o # <<>> => Last(o).end \in Nat
    BY FrontApart, RunType
  <2>2. s.begin >= xs[p].begin /\ s.begin >= ys[q].begin /\ <<s>>[1].begin = s.begin
    BY <1>3
  <2>3. o # <<>> => Last(o).end + 1 < s.begin
    BY <1>1, <2>1, <2>2, SMTT(30)
  <2> QED BY <2>2, <2>3
<1>5. /\ Apart(new) /\ Len(new) = Len(o) + 1 /\ new # <<>> /\ Last(new) = s
      /\ \A v : v \in RunValues(new) <=> v \in RunValues(o) \/ v \in s.begin .. s.end
  BY <1>3, <1>4, ConcatApart
<1> HIDE DEF new
<1>6. p + 1 <= Len(xs) => xs[p + 1].begin > Last(new).end + 1
  BY <1>1, <1>2, <1>5
<1>7. /\ Rest(xs, p) = Rest(xs, p + 1) \cup (xs[p].begin .. xs[p].end)
      /\ Rest(ys, q) = Rest(ys, q + 1) \cup (ys[q].begin .. ys[q].end)
      /\ \A v \in Rest(xs, p + 1) : v \in Int /\ v > xs[p].end
      /\ \A v \in Rest(ys, q + 1) : v \in Int /\ v > ys[q].end
  BY <1>1, PrefixNext
<1>8. ASSUME NEW v
      PROVE  v \in s.begin .. s.end <=>
               v \in Rest(xs, p) /\ v \in Rest(ys, q) /\ ~(v \in Rest(xs, p + 1) /\ v \in Rest(ys, q + 1))
  <2>1. v \in xs[p].begin .. xs[p].end => v \notin Rest(ys, q + 1) /\ v \notin Rest(xs, p + 1)
    BY <1>1, <1>7
  <2>2. v \in ys[q].begin .. ys[q].end => v \notin Rest(ys, q + 1) /\ v \notin Rest(xs, p + 1)
    BY <1>1, <1>7
  <2> QED BY <1>7, <2>1, <2>2
<1>9. /\ Apart(new) /\ Len(new) = Len(o) + 1 /\ new # <<>>
      /\ p + 1 <= Len(xs) => xs[p + 1].begin > Last(new).end + 1
      /\ \A v : v \in RunValues(new) <=>
                  v \in RunValues(o) \/ (v \in Rest(xs, p) /\ v \in Rest(ys, q)
                                         /\ ~(v \in Rest(xs, p + 1) /\ v \in Rest(ys, q + 1)))
      /\ \A v : v \in Rest(xs, p + 1) => v \in Rest(xs, p)
      /\ \A v : v \in Rest(ys, q + 1) => v \in Rest(ys, q)
  BY <1>5, <1>6, <1>7, <1>8
<1> QED BY <1>9 DEF new

\* From here the answer grows by what both sides have no longer in common.
LEMMA SharedDecided ==
  ASSUME NEW X, NEW Y, NEW L, NEW R, NEW L2, NEW R2, NEW before, NEW after,
         L \subseteq X, R \subseteq Y, L2 \subseteq L, R2 \subseteq R,
         before = (X \cap Y) \ (L \cap R),
         \A v : v \in after <=> v \in before \/ (v \in L /\ v \in R /\ ~(v \in L2 /\ v \in R2))
  PROVE  after = (X \cap Y) \ (L2 \cap R2)
OBVIOUS

LEMMA EmitSharedKeeps ==
  ASSUME IInv, EmitShared
  PROVE  IInv'
<1> DEFINE s == Shared
           i == IF left.end < right.end THEN li + 1 + Len(Inside(lhs, li, right.end))
                ELSE IF left.end = right.end THEN li + 1 ELSE li
           j == IF right.end < left.end THEN ri + 1 + Len(Inside(rhs, ri, left.end))
                ELSE IF left.end = right.end THEN ri + 1 ELSE ri
           copied == IF left.end < right.end THEN Inside(lhs, li, right.end)
                     ELSE IF left.end > right.end THEN Inside(rhs, ri, left.end)
                     ELSE <<>>
           X == RunValues(lhs)
           Y == RunValues(rhs)
           new == out \o (<<s>> \o copied)
           Good(a, b) ==
             /\ a \in 1 .. Len(lhs) + 1 /\ b \in 1 .. Len(rhs) + 1
             /\ Apart(new) /\ Len(new) <= (a - 1) + (b - 1) /\ new # <<>> /\ a + b > li + ri
             /\ \/ a <= Len(lhs) => lhs[a].begin > Last(new).end + 1
                \/ b <= Len(rhs) => rhs[b].begin > Last(new).end + 1
             /\ \A v : v \in RunValues(new) <=>
                         v \in RunValues(out) \/ (v \in Rest(lhs, li) /\ v \in Rest(rhs, ri)
                                                  /\ ~(v \in Rest(lhs, a) /\ v \in Rest(rhs, b)))
             /\ Rest(lhs, a) \subseteq Rest(lhs, li) /\ Rest(rhs, b) \subseteq Rest(rhs, ri)
<1>1. /\ Comparing /\ left.end >= right.begin /\ right.end >= left.begin
      /\ Emit(<<s>> \o copied) /\ UNCHANGED <<kernel, lhs, rhs, scan, at>>
  BY DEF EmitShared
<1>2. /\ kernel \in Intersections /\ kernel \in Kernels
      /\ Apart(lhs) /\ Apart(rhs) /\ Ordered(lhs) /\ Ordered(rhs) /\ Apart(out)
      /\ li \in 1 .. Len(lhs) /\ ri \in 1 .. Len(rhs)
      /\ Len(lhs) \in Nat /\ Len(rhs) \in Nat /\ Len(out) \in Nat
      /\ left = lhs[li] /\ right = rhs[ri]
      /\ left \in Run /\ left.begin \in Nat /\ left.end \in Nat /\ left.begin <= left.end
      /\ right \in Run /\ right.begin \in Nat /\ right.end \in Nat /\ right.begin <= right.end
      /\ Len(out) <= (li - 1) + (ri - 1)
      /\ kernel = "intersect_runs_cardinality" => out = <<>>
      /\ out # <<>> => left.begin > Last(out).end + 1 \/ right.begin > Last(out).end + 1
  BY <1>1, ComparedRuns
<1>3. /\ s \in Run /\ s.begin <= s.end
      /\ s.begin >= left.begin /\ s.begin >= right.begin
      /\ s.end = IF left.end <= right.end THEN left.end ELSE right.end
      /\ \A v : v \in s.begin .. s.end <=> v \in left.begin .. left.end /\ v \in right.begin .. right.end
  BY <1>1, <1>2, SharedRun DEF Shared
<1>4. AdvanceTo(i, j)
  <2>1. AdvanceTo(IF left.end < right.end THEN li + 1 + Len(copied)
                  ELSE IF left.end = right.end THEN li + 1 ELSE li,
                  IF right.end < left.end THEN ri + 1 + Len(copied)
                  ELSE IF left.end = right.end THEN ri + 1 ELSE ri)
    BY DEF EmitShared
  <2>2. CASE left.end < right.end
    <3>1. ~(right.end < left.end)
      BY <1>2, <2>2
    <3> QED BY <2>1, <2>2, <3>1
  <2>3. CASE right.end < left.end
    <3>1. ~(left.end < right.end) /\ left.end > right.end
      BY <1>2, <2>3
    <3> QED BY <2>1, <2>3, <3>1
  <2>4. CASE ~(left.end < right.end) /\ ~(right.end < left.end)
    BY <2>1, <2>4
  <2> QED BY <2>2, <2>3, <2>4
<1> HIDE DEF s
<1>5. /\ left.end \in Nat /\ right.end \in Nat /\ left.end = lhs[li].end /\ right.end = rhs[ri].end
      /\ Len(lhs) \in Nat /\ Len(rhs) \in Nat /\ Len(out) \in Nat /\ Len(out) <= (li - 1) + (ri - 1)
      /\ li \in 1 .. Len(lhs) /\ ri \in 1 .. Len(rhs)
      /\ li \in 1 .. Len(lhs) + 1 /\ ri \in 1 .. Len(rhs) + 1
  <2>1. /\ Len(lhs) \in Nat /\ Len(rhs) \in Nat
        /\ li \in 1 .. Len(lhs) /\ ri \in 1 .. Len(rhs)
    BY <1>2
  <2>2. li \in 1 .. Len(lhs) + 1 /\ ri \in 1 .. Len(rhs) + 1
    BY <2>1
  <2> QED BY <1>2, <2>1, <2>2
<1>6. /\ Apart(lhs) /\ Apart(rhs) /\ Apart(out) /\ s \in Run /\ s.begin <= s.end
      /\ s.begin >= lhs[li].begin /\ s.begin >= rhs[ri].begin
      /\ \A v : v \in s.begin .. s.end <=> v \in lhs[li].begin .. lhs[li].end /\ v \in rhs[ri].begin .. rhs[ri].end
      /\ lhs[li].end >= rhs[ri].begin /\ rhs[ri].end >= lhs[li].begin
      /\ out # <<>> => lhs[li].begin > Last(out).end + 1 \/ rhs[ri].begin > Last(out).end + 1
  BY <1>1, <1>2, <1>3
<1>7. ASSUME left.end < right.end PROVE Good(i, j)
  <2> DEFINE c == Inside(lhs, li, rhs[ri].end)
             n == li + 1 + Len(c)
             w == out \o (<<s>> \o c)
  <2>1. ~(right.end < left.end) /\ left.end # right.end /\ lhs[li].end < rhs[ri].end
    BY <1>5, <1>7
  <2>2. s.end = lhs[li].end
    BY <1>3, <1>5, <1>7
  <2>3. i = n /\ j = ri /\ new = w
    BY <1>5, <1>7, <2>1
  <2>4. /\ n \in 1 .. Len(lhs) + 1 /\ n > li
        /\ Apart(w) /\ Len(w) = Len(out) + (n - li) /\ w # <<>>
        /\ n <= Len(lhs) => lhs[n].begin > Last(w).end + 1
        /\ \A v : v \in RunValues(w) <=>
                    v \in RunValues(out) \/ (v \in Rest(lhs, li) /\ v \in Rest(rhs, ri) /\ v \notin Rest(lhs, n))
        /\ \A v : v \in Rest(lhs, n) => v \in Rest(lhs, li)
    BY <1>5, <1>6, <2>1, <2>2, ShorterEmits
  <2> HIDE DEF n, i, j, copied, new, w
  <2>5. Len(w) <= (n - 1) + (ri - 1) /\ n + ri > li + ri
    <3>1. Len(w) = Len(out) + (n - li) /\ n > li /\ n \in Int
      BY <2>4
    <3>2. li \in Int /\ ri \in Int /\ Len(out) \in Int /\ Len(out) <= (li - 1) + (ri - 1)
      BY <1>5
    <3> HIDE DEF Good
    <3> QED BY <3>1, <3>2
  <2>6. /\ \A v : v \in RunValues(w) <=>
                    v \in RunValues(out) \/ (v \in Rest(lhs, li) /\ v \in Rest(rhs, ri)
                                             /\ ~(v \in Rest(lhs, n) /\ v \in Rest(rhs, ri)))
        /\ Rest(lhs, n) \subseteq Rest(lhs, li) /\ Rest(rhs, ri) \subseteq Rest(rhs, ri)
    BY <2>4
  <2>7. Good(n, ri)
    BY <1>5, <2>3, <2>4, <2>5, <2>6
  <2> QED BY <2>3, <2>7
<1>8. ASSUME right.end < left.end PROVE Good(i, j)
  <2> DEFINE c == Inside(rhs, ri, lhs[li].end)
             n == ri + 1 + Len(c)
             w == out \o (<<s>> \o c)
  <2>1. ~(left.end < right.end) /\ left.end > right.end /\ left.end # right.end /\ rhs[ri].end < lhs[li].end
    BY <1>5, <1>8
  <2>2. s.end = rhs[ri].end
    <3>1. ~(left.end <= right.end)
      BY <1>5, <1>8
    <3>2. s.end = right.end
      BY <1>3, <3>1
    <3> QED BY <1>5, <3>2
  <2>3. i = li /\ j = n /\ new = w
    BY <1>5, <1>8, <2>1
  <2>4. \A v : v \in s.begin .. s.end <=> v \in rhs[ri].begin .. rhs[ri].end /\ v \in lhs[li].begin .. lhs[li].end
    BY <1>6
  <2>5. out # <<>> => rhs[ri].begin > Last(out).end + 1 \/ lhs[li].begin > Last(out).end + 1
    BY <1>6
  <2>6. /\ n \in 1 .. Len(rhs) + 1 /\ n > ri
        /\ Apart(w) /\ Len(w) = Len(out) + (n - ri) /\ w # <<>>
        /\ n <= Len(rhs) => rhs[n].begin > Last(w).end + 1
        /\ \A v : v \in RunValues(w) <=>
                    v \in RunValues(out) \/ (v \in Rest(rhs, ri) /\ v \in Rest(lhs, li) /\ v \notin Rest(rhs, n))
        /\ \A v : v \in Rest(rhs, n) => v \in Rest(rhs, ri)
    BY <1>5, <1>6, <2>1, <2>2, <2>4, <2>5, ShorterEmits
  <2> HIDE DEF n, i, j, copied, new, w
  <2>7. Len(w) <= (li - 1) + (n - 1) /\ li + n > li + ri
    <3>1. Len(w) = Len(out) + (n - ri) /\ n > ri /\ n \in Int
      BY <2>6
    <3>2. li \in Int /\ ri \in Int /\ Len(out) \in Int /\ Len(out) <= (li - 1) + (ri - 1)
      BY <1>5
    <3> HIDE DEF Good
    <3> QED BY <3>1, <3>2
  <2>8. /\ \A v : v \in RunValues(w) <=>
                    v \in RunValues(out) \/ (v \in Rest(lhs, li) /\ v \in Rest(rhs, ri)
                                             /\ ~(v \in Rest(lhs, li) /\ v \in Rest(rhs, n)))
        /\ Rest(lhs, li) \subseteq Rest(lhs, li) /\ Rest(rhs, n) \subseteq Rest(rhs, ri)
    BY <2>6
  <2>9. Good(li, n)
    BY <1>5, <2>3, <2>6, <2>7, <2>8
  <2> QED BY <2>3, <2>9
<1>9. ASSUME left.end = right.end PROVE Good(i, j)
  <2> DEFINE w == out \o <<s>>
  <2>1. ~(left.end < right.end) /\ ~(right.end < left.end) /\ lhs[li].end = rhs[ri].end
    BY <1>5, <1>9
  <2>2. s.end = lhs[li].end
    BY <1>3, <1>5, <1>9
  <2>3. i = li + 1 /\ j = ri + 1 /\ copied = <<>>
    BY <1>5, <1>9, <2>1
  <2>4. new = w
    <3>1. <<s>> \o <<>> = <<s>>
      BY <1>6
    <3> QED BY <2>3, <3>1
  <2>5. /\ Apart(w) /\ Len(w) = Len(out) + 1 /\ w # <<>>
        /\ li + 1 <= Len(lhs) => lhs[li + 1].begin > Last(w).end + 1
        /\ \A v : v \in RunValues(w) <=>
                    v \in RunValues(out) \/ (v \in Rest(lhs, li) /\ v \in Rest(rhs, ri)
                                             /\ ~(v \in Rest(lhs, li + 1) /\ v \in Rest(rhs, ri + 1)))
        /\ \A v : v \in Rest(lhs, li + 1) => v \in Rest(lhs, li)
        /\ \A v : v \in Rest(rhs, ri + 1) => v \in Rest(rhs, ri)
    BY <1>5, <1>6, <2>1, <2>2, EqualEmits
  <2> HIDE DEF i, j, copied, new, w
  <2>6. /\ Len(w) <= (li + 1 - 1) + (ri + 1 - 1) /\ li + 1 + (ri + 1) > li + ri
        /\ li + 1 \in 1 .. Len(lhs) + 1 /\ ri + 1 \in 1 .. Len(rhs) + 1
    <3>1. Len(w) = Len(out) + 1
      BY <2>5
    <3>2. /\ li \in Int /\ ri \in Int /\ Len(out) \in Int /\ Len(out) <= (li - 1) + (ri - 1)
          /\ li \in 1 .. Len(lhs) /\ ri \in 1 .. Len(rhs) /\ Len(lhs) \in Nat /\ Len(rhs) \in Nat
      BY <1>5
    <3> HIDE DEF Good
    <3>3. li + 1 \in 1 .. Len(lhs) + 1 /\ ri + 1 \in 1 .. Len(rhs) + 1
      BY <3>2
    <3> QED BY <3>1, <3>2, <3>3
  <2>7. Rest(lhs, li + 1) \subseteq Rest(lhs, li) /\ Rest(rhs, ri + 1) \subseteq Rest(rhs, ri)
    BY <2>5
  <2>8. Good(li + 1, ri + 1)
    <3> DEFINE a == li + 1
               b == ri + 1
    <3>1. a \in 1 .. Len(lhs) + 1 /\ b \in 1 .. Len(rhs) + 1
      BY <2>6
    <3>2. Len(new) <= (a - 1) + (b - 1) /\ a + b > li + ri
      <4>0. /\ li \in Int /\ ri \in Int /\ Len(out) \in Int /\ Len(out) <= (li - 1) + (ri - 1)
            /\ Len(w) = Len(out) + 1
        BY <1>5, <2>5
      <4>1. Len(w) <= (a - 1) + (b - 1)
        BY <4>0
      <4>2. a + b > li + ri
        BY <4>0
      <4> HIDE DEF a, b
      <4> QED BY <2>4, <4>1, <4>2
    <3>3. Apart(new) /\ new # <<>> /\ (a <= Len(lhs) => lhs[a].begin > Last(new).end + 1)
      BY <2>4, <2>5, Zenon
    <3>4. \A v : v \in RunValues(new) <=>
                v \in RunValues(out) \/ (v \in Rest(lhs, li) /\ v \in Rest(rhs, ri)
                                         /\ ~(v \in Rest(lhs, a) /\ v \in Rest(rhs, b)))
      BY <2>4, <2>5, Zenon
    <3>5. Rest(lhs, a) \subseteq Rest(lhs, li) /\ Rest(rhs, b) \subseteq Rest(rhs, ri)
      BY <2>7, Zenon
    <3> HIDE DEF a, b
    <3>6. Good(a, b)
      BY <3>1, <3>2, <3>3, <3>4, <3>5
    <3> QED BY <3>6 DEF a, b
  <2> QED BY <2>3, <2>8
<1>10. Good(i, j)
  <2>1. left.end < right.end \/ right.end < left.end \/ left.end = right.end
    BY <1>5, SMTT(30)
  <2> HIDE DEF Good
  <2> QED BY <1>7, <1>8, <1>9, <2>1
<1> HIDE DEF i, j
<1>11. CASE kernel = "intersect_runs"
  <2>1. out' = new
    BY <1>1, <1>11 DEF Emit
  <2>2. RunValues(out) = (X \cap Y) \ (Rest(lhs, li) \cap Rest(rhs, ri))
    BY <1>2, <1>11, DecidedNow DEF IInv, OutHoldsTheDecided
  <2>3. Rest(lhs, li) \subseteq X /\ Rest(rhs, ri) \subseteq Y
    <3>1. li \in 1 .. Len(lhs) + 1 /\ ri \in 1 .. Len(rhs) + 1
      BY <1>2
    <3> QED BY <1>2, <3>1, PrefixMember
  <2> HIDE DEF new, X, Y
  <2>4. RunValues(new) = (X \cap Y) \ (Rest(lhs, i) \cap Rest(rhs, j))
    BY <1>10, <2>2, <2>3, SharedDecided
  <2> QED BY <1>1, <1>4, <1>10, <1>11, <2>1, <2>4, AdvancedKeeps DEF X, Y
<1>12. CASE kernel = "intersect_runs_cardinality"
  <2>1. out' = <<>>
    BY <1>1, <1>2, <1>12 DEF Emit
  <2>2. Apart(out') /\ Len(out') = 0
    BY <2>1, EmptyApart
  <2>3. Len(out') <= (i - 1) + (j - 1)
    BY <1>2, <1>10, <2>2, SMTT(30)
  <2> QED BY <1>1, <1>4, <1>10, <1>12, <2>1, <2>2, <2>3, AdvancedKeeps
<1> QED BY <1>2, <1>11, <1>12 DEF Intersections
-----------------------------------------------------------------------------
(***************************************************************************)
(* The differences.                                                        *)
(***************************************************************************)
\* The runs of a list begin at least two values apart.
Spread(rs) == \A i \in 1 .. Len(rs) : rs[i].begin >= 2 * (i - 1)

\* What is left of a run up to a cut is written if there is anything of it.
LEMMA PieceAdded ==
  ASSUME NEW o, Apart(o), Spread(o), NEW new, NEW b \in Nat, NEW e \in Int,
         o # <<>> => Last(o).end + 1 < b,
         \/ b <= e /\ \E p \in Run : p.begin = b /\ p.end = e /\ new = Append(o, p)
         \/ ~(b <= e) /\ new = o
  PROVE  /\ Apart(new) /\ Spread(new) /\ Len(o) \in Nat /\ Len(new) \in Nat /\ Len(new) <= Len(o) + 1
         /\ RunValues(new) = RunValues(o) \cup (b .. e)
         /\ new # <<>> => Last(new).end \in Nat /\ (Last(new).end + 1 < b \/ (b <= e /\ Last(new).end = e))
<1>1. Len(o) \in Nat
  BY SeqRunType DEF Apart
<1>2. o # <<>> => /\ Last(o).end \in Nat /\ Last(o).begin \in Nat /\ Last(o).begin <= Last(o).end
                  /\ Last(o) = o[Len(o)] /\ Len(o) \in 1 .. Len(o)
  <2>1. o # <<>> => Len(o) \in 1 .. Len(o)
    BY <1>1, SeqRunType DEF Apart
  <2> QED BY <2>1, FrontApart, RunType DEF Last
<1>3. CASE ~(b <= e) /\ new = o
  <2>1. b .. e = {}
    BY <1>3
  <2> QED BY <1>1, <1>2, <1>3, <2>1
<1>4. CASE b <= e /\ \E p \in Run : p.begin = b /\ p.end = e /\ new = Append(o, p)
  <2>1. PICK p \in Run : p.begin = b /\ p.end = e /\ new = Append(o, p)
    BY <1>4
  <2>2. /\ Apart(new) /\ Len(new) = Len(o) + 1
        /\ new # <<>> /\ Last(new) = p
        /\ \A v : v \in RunValues(new) <=> v \in RunValues(o) \/ v \in p.begin .. p.end
    BY <1>4, <2>1, AppendApart
  <2>3. \A i \in 1 .. Len(o) : new[i] = o[i]
    BY <2>1, AppendProperties DEF Apart
  <2>4. Spread(new)
    <3>1. ASSUME NEW i \in 1 .. Len(new) PROVE new[i].begin >= 2 * (i - 1)
      <4>1. CASE i \in 1 .. Len(o)
        BY <2>3, <4>1 DEF Spread
      <4>2. CASE i \notin 1 .. Len(o)
        <5>1. i = Len(o) + 1 /\ i = Len(new)
          BY <1>1, <2>2, <4>2
        <5>2. new[i] = p
          BY <2>2, <5>1 DEF Last
        <5>3. CASE o = <<>>
          <6>1. i = 1
            BY <5>1, <5>3, EmptyApart
          <6> QED BY <2>1, <5>2, <6>1
        <5>4. CASE o # <<>>
          <6>1. o[Len(o)].begin >= 2 * (Len(o) - 1)
            BY <1>2, <5>4 DEF Spread
          <6>2. b > Last(o).begin + 1
            BY <1>2, <5>4
          <6>3. b >= 2 * Len(o)
            BY <1>1, <1>2, <5>4, <6>1, <6>2
          <6> QED BY <1>1, <2>1, <5>1, <5>2, <6>3
        <5> QED BY <5>3, <5>4
      <4> QED BY <4>1, <4>2
    <3> QED BY <3>1 DEF Spread
  <2>5. RunValues(new) = RunValues(o) \cup (b .. e)
    BY <2>1, <2>2
  <2> QED BY <1>1, <1>4, <2>1, <2>2, <2>4, <2>5
<1> QED BY <1>3, <1>4

LEMMA PieceAdds ==
  \A b \in Nat, e \in Int :
    /\ Apart(out) /\ Spread(out) /\ (out # <<>> => Last(out).end + 1 < b)
    /\ \/ b <= e /\ \E p \in Run : p.begin = b /\ p.end = e /\ out' = Append(out, p)
       \/ ~(b <= e) /\ out' = out
    => /\ Apart(out') /\ Spread(out') /\ Len(out') \in Nat /\ Len(out') <= Len(out) + 1
       /\ RunValues(out') = RunValues(out) \cup (b .. e)
       /\ out' # <<>> => Last(out').end \in Nat /\ (Last(out').end + 1 < b \/ (b <= e /\ Last(out').end = e))
<1> TAKE b \in Nat, e \in Int
<1> HAVE /\ Apart(out) /\ Spread(out) /\ (out # <<>> => Last(out).end + 1 < b)
         /\ \/ b <= e /\ \E p \in Run : p.begin = b /\ p.end = e /\ out' = Append(out, p)
            \/ ~(b <= e) /\ out' = out
<1> QED BY PieceAdded

\* The runs in front of the scan end in front of b: what rs holds from b on is
\* in the runs from the scan on.
LEMMA BeyondScan ==
  ASSUME NEW rs, Ordered(rs), NEW n \in 1 .. Len(rs) + 1, NEW b \in Nat,
         \A i \in 1 .. n - 1 : rs[i].end < b,
         NEW v \in Int, v >= b, v \in RunValues(rs)
  PROVE  n <= Len(rs) /\ v >= rs[n].begin
<1>1. Len(rs) \in Nat /\ \A i \in 1 .. Len(rs) : rs[i].end \in Nat
  BY OrderedType
<1>2. v \notin Prefix(rs, n)
  <2> SUFFICES ASSUME v \in Prefix(rs, n) PROVE FALSE
    OBVIOUS
  <2>1. Among(v, rs, 1, n - 1)
    BY PrefixMember
  <2>2. PICK i \in 1 .. n - 1 : v <= rs[i].end
    BY <2>1 DEF Among
  <2>3. i \in 1 .. Len(rs)
    BY <1>1
  <2> QED BY <1>1, <2>2, <2>3
<1>3. v \in Rest(rs, n)
  BY <1>2, PrefixMember
<1>4. n <= Len(rs)
  <2> SUFFICES ASSUME ~(n <= Len(rs)) PROVE FALSE
    OBVIOUS
  <2>1. n = Len(rs) + 1
    BY <1>1
  <2> QED BY <1>3, <2>1, PrefixEnds
<1>5. n \in 1 .. Len(rs)
  BY <1>1, <1>4
<1> QED BY <1>3, <1>4, <1>5, PrefixNext

\* Where a difference stands.
LEMMA DifferenceStands ==
  ASSUME IInv, at \in {"outer", "inner"}
  PROVE  /\ kernel \in Differences /\ kernel \in Kernels
         /\ Apart(lhs) /\ Ordered(lhs) /\ Ordered(rhs) /\ Apart(out) /\ Spread(out)
         /\ Len(lhs) \in Nat /\ Len(rhs) \in Nat /\ Len(out) \in Nat
         /\ li \in 1 .. Len(lhs) + 1 /\ ri \in 1 .. Len(rhs) + 1 /\ scan \in 1 .. Len(rhs) + 1
         /\ ri <= scan /\ Len(out) <= (li - 1) + (scan - 1)
         /\ LeftOver => li \in 1 .. Len(lhs)
         /\ RunValues(out) = Decided
<1>1. kernel \in Differences /\ kernel \in Kernels
  BY WhereKernelsAre
<1>2. Apart(lhs) /\ Ordered(lhs) /\ Ordered(rhs) /\ Apart(out)
  BY <1>1 DEF IInv, Operands, Differences, LeftIsValues
<1>3. Len(lhs) \in Nat /\ Len(rhs) \in Nat /\ Len(out) \in Nat
  BY <1>2, OrderedType, ApartOrdered
<1>4. li \in 1 .. Len(lhs) + 1 /\ ri \in 1 .. Len(rhs) + 1 /\ scan \in 1 .. Len(rhs) + 1
  BY DEF IInv, Places
<1>5. LeftOver => li \in 1 .. Len(lhs)
  BY <1>3, <1>4 DEF LeftOver
<1>6. Spread(out) /\ ri <= scan /\ Len(out) <= (li - 1) + (scan - 1)
  BY <1>1 DEF IInv, Cutting, Spread
<1>7. RunValues(out) = Decided
  BY <1>1 DEF IInv, OutHoldsTheDecided, Differences
<1> QED BY <1>1, <1>2, <1>3, <1>4, <1>5, <1>6, <1>7

\* What is left to show of a difference's step.
LEMMA CutKeeps ==
  ASSUME IInv, at \in {"outer", "inner"}, UNCHANGED <<kernel, lhs, rhs>>,
         Apart(out'), Spread(out'), Places', at' \in {"outer", "inner"},
         ri' <= scan', Len(out') <= (li' - 1) + (scan' - 1),
         RunValues(out') = (Prefix(lhs, li')
                              \cup (IF at' = "inner" THEN lhs[li'].begin .. left'.begin - 1 ELSE {}))
                           \ RunValues(rhs),
         at' = "outer" /\ li' <= Len(lhs) =>
           /\ \A i \in 1 .. scan' - 1 : rhs[i].end < lhs[li'].begin
           /\ out' # <<>> => Last(out').end + 1 < lhs[li'].begin,
         at' = "inner" =>
           /\ li' <= Len(lhs) /\ left' \in Run
           /\ left'.end = lhs[li'].end /\ lhs[li'].begin <= left'.begin /\ left'.begin <= left'.end + 1
           /\ \A i \in 1 .. scan' - 1 : rhs[i].end < left'.begin
           /\ scan' <= Len(rhs) => rhs[scan'].end >= left'.begin
           /\ out' # <<>> => Last(out').end + 1 < left'.begin
  PROVE  IInv'
<1>1. kernel \in Differences /\ kernel \in Kernels
  BY DifferenceStands
<1>2. Operands'
  BY DEF IInv, Operands
<1>3. OutHoldsTheDecided'
  BY <1>1, DecidedNext DEF OutHoldsTheDecided
<1>4. Cutting'
  BY DEF Cutting, LeftOver, Spread
<1>5. Merging' /\ Intersecting'
  BY <1>1, KernelKinds DEF Merging, Intersecting
<1> QED BY <1>2, <1>3, <1>4, <1>5 DEF IInv

LEMMA NextLeftKeeps ==
  ASSUME IInv, NextLeft
  PROVE  IInv'
<1> DEFINE l == lhs[li]
           n == Reaching(rhs, ri, l.begin)
<1>1. /\ at = "outer" /\ LeftOver /\ left' = l /\ ri' = n /\ scan' = n /\ at' = "inner"
      /\ UNCHANGED <<kernel, lhs, rhs, li, out>>
  BY DEF NextLeft
<1>2. /\ kernel \in Differences /\ kernel \in Kernels
      /\ Ordered(lhs) /\ Ordered(rhs) /\ Apart(out) /\ Spread(out)
      /\ Len(lhs) \in Nat /\ Len(rhs) \in Nat /\ Len(out) \in Nat
      /\ li \in 1 .. Len(lhs) + 1 /\ ri \in 1 .. Len(rhs) + 1 /\ scan \in 1 .. Len(rhs) + 1
      /\ ri <= scan /\ Len(out) <= (li - 1) + (scan - 1)
      /\ li \in 1 .. Len(lhs)
      /\ RunValues(out) = Decided
  BY <1>1, DifferenceStands
<1>3. /\ l \in Run /\ l.begin \in Nat /\ l.end \in Nat /\ l.begin <= l.end
      /\ \A i \in 1 .. Len(rhs) : rhs[i].end \in Nat
  BY <1>2, OrderedType
<1>4. /\ n \in ri .. Len(rhs) + 1
      /\ \A i \in ri .. Len(rhs) : i < n => rhs[i].end < l.begin
      /\ n <= Len(rhs) => rhs[n].end >= l.begin
  <2>1. rhs \in Seq(Run) /\ l.begin \in Int
    BY <1>2, <1>3, OrderedType
  <2> QED BY <1>2, <2>1, ReachingFirst
<1>5. /\ \A i \in 1 .. scan - 1 : rhs[i].end < l.begin
      /\ out # <<>> => Last(out).end + 1 < l.begin
  BY <1>1, <1>2 DEF IInv, Cutting
<1> HIDE DEF l, n
<1>6. n >= scan /\ n \in 1 .. Len(rhs) + 1
  <2>1. n \in 1 .. Len(rhs) + 1
    BY <1>2, <1>4
  <2>2. ASSUME n < scan PROVE FALSE
    <3>1. n \in 1 .. scan - 1 /\ n \in 1 .. Len(rhs) /\ n <= Len(rhs)
      BY <1>2, <2>1, <2>2
    <3>2. rhs[n].end < l.begin /\ rhs[n].end >= l.begin /\ rhs[n].end \in Nat
      BY <1>3, <1>4, <1>5, <3>1
    <3> QED BY <1>3, <3>2
  <2> QED BY <1>2, <2>1, <2>2
<1>7. \A i \in 1 .. n - 1 : rhs[i].end < l.begin
  <2> TAKE i \in 1 .. n - 1
  <2>1. i \in 1 .. scan - 1 \/ (i \in ri .. Len(rhs) /\ i < n)
    BY <1>2, <1>6
  <2> QED BY <1>4, <1>5, <2>1
<1>8. Len(out) <= (li - 1) + (n - 1)
  BY <1>2, <1>6
<1>9. RunValues(out) = (Prefix(lhs, li) \cup (l.begin .. l.begin - 1)) \ RunValues(rhs)
  <2>1. Decided = (Prefix(lhs, li) \cup {}) \ RunValues(rhs)
    BY <1>1, <1>2, DecidedNow
  <2>2. l.begin .. l.begin - 1 = {}
    BY <1>3
  <2> QED BY <1>2, <2>1, <2>2
<1>10. Places'
  BY <1>1, <1>2, <1>6 DEF Places
<1>11. l.begin <= l.end + 1 /\ l.begin <= l.begin /\ n <= n
  BY <1>2, <1>3, <1>6, SMTT(30)
<1> QED BY <1>1, <1>2, <1>3, <1>4, <1>5, <1>7, <1>8, <1>9, <1>10, <1>11, CutKeeps DEF l, LeftOver
\* Where a difference stands that cuts a run.
LEMMA CutStands ==
  ASSUME IInv, at = "inner"
  PROVE  /\ kernel \in Differences /\ kernel \in Kernels
         /\ Ordered(lhs) /\ Ordered(rhs) /\ Apart(out) /\ Spread(out)
         /\ Len(lhs) \in Nat /\ Len(rhs) \in Nat /\ Len(out) \in Nat
         /\ li \in 1 .. Len(lhs) /\ ri \in 1 .. Len(rhs) + 1 /\ scan \in 1 .. Len(rhs) + 1
         /\ ri <= scan /\ Len(out) <= (li - 1) + (scan - 1)
         /\ RunValues(out) = (Prefix(lhs, li) \cup (lhs[li].begin .. left.begin - 1)) \ RunValues(rhs)
         /\ left \in Run /\ left.begin \in Nat /\ left.end \in Nat /\ left.begin \in Low
         /\ lhs[li].begin \in Nat /\ lhs[li].end = left.end
         /\ lhs[li].begin <= left.begin /\ left.begin <= left.end + 1
         /\ \A i \in 1 .. scan - 1 : rhs[i].end < left.begin
         /\ scan <= Len(rhs) => rhs[scan].end >= left.begin
         /\ out # <<>> => Last(out).end + 1 < left.begin
         /\ li + 1 <= Len(lhs) => lhs[li + 1].begin \in Nat /\ left.end + 1 < lhs[li + 1].begin
         /\ li + 1 \in 1 .. Len(lhs) + 1 /\ li + 1 - 1 = li
<1>1. /\ kernel \in Differences /\ kernel \in Kernels
      /\ Apart(lhs) /\ Ordered(lhs) /\ Ordered(rhs) /\ Apart(out) /\ Spread(out)
      /\ Len(lhs) \in Nat /\ Len(rhs) \in Nat /\ Len(out) \in Nat
      /\ ri \in 1 .. Len(rhs) + 1 /\ scan \in 1 .. Len(rhs) + 1
      /\ ri <= scan /\ Len(out) <= (li - 1) + (scan - 1)
      /\ LeftOver => li \in 1 .. Len(lhs)
      /\ RunValues(out) = Decided
  BY DifferenceStands
<1>2. /\ LeftOver /\ left \in Run
      /\ left.end = lhs[li].end /\ lhs[li].begin <= left.begin /\ left.begin <= left.end + 1
      /\ \A i \in 1 .. scan - 1 : rhs[i].end < left.begin
      /\ scan <= Len(rhs) => rhs[scan].end >= left.begin
      /\ out # <<>> => Last(out).end + 1 < left.begin
  BY <1>1 DEF IInv, Cutting
<1>3. li \in 1 .. Len(lhs)
  BY <1>1, <1>2
<1>4. left.begin \in Nat /\ left.end \in Nat /\ left.begin \in Low
  BY <1>2, RunType
<1>5. li + 1 <= Len(lhs) => lhs[li + 1].begin \in Nat /\ lhs[li].end + 1 < lhs[li + 1].begin
  <2>1. li + 1 <= Len(lhs) => li + 1 \in 1 .. Len(lhs) /\ li < li + 1
    BY <1>1, <1>3
  <2> QED BY <1>1, <1>3, <2>1, SeqRunType DEF Apart
<1>6. lhs[li].begin \in Nat
  BY <1>1, <1>3, OrderedType
<1>7. RunValues(out) = (Prefix(lhs, li) \cup (lhs[li].begin .. left.begin - 1)) \ RunValues(rhs)
  BY <1>1, DecidedNow
<1>8. li + 1 \in 1 .. Len(lhs) + 1 /\ li + 1 - 1 = li
  BY <1>1, <1>3
<1> QED BY <1>1, <1>2, <1>3, <1>4, <1>5, <1>6, <1>7, <1>8

\* Leaving a run: all of it is decided.
LEMMA LeaveKeeps ==
  ASSUME IInv, at = "inner", UNCHANGED <<kernel, lhs, rhs, scan>>, LeaveLeft,
         Apart(out'), Spread(out'), Len(out') \in Nat, Len(out') <= Len(out) + 1,
         RunValues(out') = RunValues(out) \cup ((left.begin .. left.end) \ RunValues(rhs)),
         out' # <<>> => Last(out').end \in Nat /\ (Last(out').end + 1 < left.begin \/ Last(out').end <= left.end)
  PROVE  IInv'
<1>1. /\ li' = li + 1 /\ at' = "outer" /\ scan' = scan /\ UNCHANGED <<kernel, lhs, rhs>>
      /\ ri' = scan \/ ri' = ri
  BY DEF LeaveLeft
<1>2. /\ Ordered(lhs) /\ Ordered(rhs)
      /\ Len(lhs) \in Nat /\ Len(rhs) \in Nat /\ Len(out) \in Nat
      /\ li \in 1 .. Len(lhs) /\ ri \in 1 .. Len(rhs) + 1 /\ scan \in 1 .. Len(rhs) + 1
      /\ ri <= scan /\ Len(out) <= (li - 1) + (scan - 1)
      /\ RunValues(out) = (Prefix(lhs, li) \cup (lhs[li].begin .. left.begin - 1)) \ RunValues(rhs)
      /\ left.begin \in Nat /\ left.end \in Nat
      /\ lhs[li].begin \in Nat /\ lhs[li].end = left.end
      /\ lhs[li].begin <= left.begin /\ left.begin <= left.end + 1
      /\ \A i \in 1 .. scan - 1 : rhs[i].end < left.begin
      /\ li + 1 <= Len(lhs) => lhs[li + 1].begin \in Nat /\ left.end + 1 < lhs[li + 1].begin
      /\ li + 1 \in 1 .. Len(lhs) + 1 /\ li + 1 - 1 = li
  BY CutStands
<1>3. Places'
  BY <1>1, <1>2 DEF Places
<1>4. ri' <= scan' /\ Len(out') <= (li' - 1) + (scan' - 1)
  BY <1>1, <1>2, SMTT(30)
<1>5. RunValues(out') = (Prefix(lhs, li') \cup {}) \ RunValues(rhs)
  <2>1. Prefix(lhs, li') = Prefix(lhs, li) \cup (lhs[li].begin .. lhs[li].end)
    BY <1>1, <1>2, PrefixNext
  <2>2. lhs[li].begin .. lhs[li].end = (lhs[li].begin .. left.begin - 1) \cup (left.begin .. left.end)
    <3>1. /\ lhs[li].begin \in Nat /\ left.begin \in Nat /\ left.end \in Nat /\ lhs[li].end = left.end
          /\ lhs[li].begin <= left.begin /\ left.begin <= left.end + 1
      BY <1>2
    <3> QED BY <3>1
  <2> QED BY <1>2, <2>1, <2>2
<1>6. ASSUME li' <= Len(lhs)
      PROVE  /\ \A i \in 1 .. scan' - 1 : rhs[i].end < lhs[li'].begin
             /\ out' # <<>> => Last(out').end + 1 < lhs[li'].begin
  <2>1. lhs[li'].begin \in Nat /\ left.end + 1 < lhs[li'].begin /\ left.begin <= left.end + 1
        /\ left.begin \in Nat /\ left.end \in Nat
    BY <1>1, <1>2, <1>6
  <2>2. \A i \in 1 .. scan - 1 : rhs[i].end \in Nat /\ rhs[i].end < left.begin
    <3>1. \A i \in 1 .. scan - 1 : i \in 1 .. Len(rhs)
      BY <1>2
    <3> QED BY <1>2, <3>1, OrderedType
  <2>3. \A i \in 1 .. scan' - 1 : rhs[i].end < lhs[li'].begin
    BY <1>1, <2>1, <2>2
  <2>4. out' # <<>> => Last(out').end + 1 < lhs[li'].begin
    <3>1. out' # <<>> => Last(out').end \in Nat /\ (Last(out').end + 1 < left.begin \/ Last(out').end <= left.end)
      OBVIOUS
    <3> QED BY <2>1, <3>1
  <2> QED BY <2>3, <2>4
<1> QED BY <1>1, <1>3, <1>4, <1>5, <1>6, CutKeeps

LEMMA KeepRestKeeps ==
  ASSUME IInv, KeepRest
  PROVE  IInv'
<1>1. /\ at = "inner" /\ ~Meets /\ LeaveLeft /\ UNCHANGED <<kernel, lhs, rhs, scan>>
      /\ out' = IF left.begin <= left.end THEN Append(out, left) ELSE out
  BY DEF KeepRest
<1>2. /\ Ordered(rhs) /\ Apart(out) /\ Spread(out)
      /\ scan \in 1 .. Len(rhs) + 1
      /\ left \in Run /\ left.begin \in Nat /\ left.end \in Nat
      /\ \A i \in 1 .. scan - 1 : rhs[i].end < left.begin
      /\ out # <<>> => Last(out).end + 1 < left.begin
  BY <1>1, CutStands
<1>3. /\ Apart(out') /\ Spread(out') /\ Len(out') \in Nat /\ Len(out') <= Len(out) + 1
      /\ RunValues(out') = RunValues(out) \cup (left.begin .. left.end)
      /\ out' # <<>> => /\ Last(out').end \in Nat
                        /\ Last(out').end + 1 < left.begin \/ (left.begin <= left.end /\ Last(out').end = left.end)
  <2>1. \/ left.begin <= left.end /\ \E p \in Run : p.begin = left.begin /\ p.end = left.end /\ out' = Append(out, p)
        \/ ~(left.begin <= left.end) /\ out' = out
    BY <1>1, <1>2
  <2>2. left.end \in Int /\ left.begin \in Nat /\ Apart(out) /\ Spread(out) /\ (out # <<>> => Last(out).end + 1 < left.begin)
    BY <1>2
  <2> QED BY <2>1, <2>2, PieceAdds
<1>4. (left.begin .. left.end) \ RunValues(rhs) = left.begin .. left.end
  <2> SUFFICES ASSUME NEW v \in left.begin .. left.end, v \in RunValues(rhs) PROVE FALSE
    OBVIOUS
  <2>1. v \in Int /\ v >= left.begin /\ v <= left.end
    BY <1>2
  <2>2. scan <= Len(rhs) /\ v >= rhs[scan].begin
    BY <1>2, <2>1, BeyondScan
  <2>3. scan \in 1 .. Len(rhs) /\ rhs[scan].begin \in Nat
    <3>1. Len(rhs) \in Nat
      BY <1>2, OrderedType
    <3>2. scan \in 1 .. Len(rhs)
      BY <1>2, <2>2, <3>1
    <3> QED BY <1>2, <3>2, OrderedType
  <2>4. ~(rhs[scan].begin <= left.end)
    BY <1>1, <2>2 DEF Meets
  <2> QED BY <1>2, <2>1, <2>2, <2>3, <2>4
<1>5. RunValues(out') = RunValues(out) \cup ((left.begin .. left.end) \ RunValues(rhs))
  BY <1>3, <1>4
<1>6. out' # <<>> => Last(out').end \in Nat /\ (Last(out').end + 1 < left.begin \/ Last(out').end <= left.end)
  BY <1>2, <1>3
<1> QED BY <1>1, <1>3, <1>5, <1>6, LeaveKeeps

LEMMA CutKeepsIInv ==
  ASSUME IInv, Cut
  PROVE  IInv'
<1> DEFINE r == rhs[scan]
           e == r.begin - 1
<1>1. /\ at = "inner" /\ Meets /\ UNCHANGED <<kernel, lhs, rhs>>
      /\ out' = IF left.begin < r.begin THEN Append(out, RunOf(left.begin, AsLow(e))) ELSE out
      /\ IF Exhausts(r)
         THEN LeaveLeft /\ UNCHANGED <<left, scan>>
         ELSE /\ left' = [left EXCEPT !.begin = AsLow(r.end + 1)]
              /\ scan' = scan + 1
              /\ UNCHANGED <<li, ri, at>>
  BY DEF Cut
<1>2. /\ kernel \in Differences /\ Ordered(lhs) /\ Ordered(rhs) /\ Apart(out) /\ Spread(out)
      /\ Len(lhs) \in Nat /\ Len(rhs) \in Nat /\ Len(out) \in Nat
      /\ li \in 1 .. Len(lhs) /\ ri \in 1 .. Len(rhs) + 1 /\ scan \in 1 .. Len(rhs) + 1
      /\ ri <= scan /\ Len(out) <= (li - 1) + (scan - 1)
      /\ RunValues(out) = (Prefix(lhs, li) \cup (lhs[li].begin .. left.begin - 1)) \ RunValues(rhs)
      /\ left \in Run /\ left.begin \in Nat /\ left.end \in Nat /\ left.begin \in Low
      /\ lhs[li].begin \in Nat /\ lhs[li].end = left.end
      /\ lhs[li].begin <= left.begin
      /\ \A i \in 1 .. scan - 1 : rhs[i].end < left.begin
      /\ scan <= Len(rhs) => rhs[scan].end >= left.begin
      /\ out # <<>> => Last(out).end + 1 < left.begin
      /\ li + 1 \in 1 .. Len(lhs) + 1
  BY <1>1, CutStands
<1>3. /\ scan \in 1 .. Len(rhs) /\ r \in Run /\ r.begin \in Nat /\ r.end \in Nat /\ r.begin <= r.end
      /\ r.begin <= left.end /\ r.end >= left.begin /\ r.end <= LastLow /\ r.begin <= LastLow /\ left.end <= LastLow
      /\ LastLow \in Nat
  <2>1. scan <= Len(rhs) /\ r.begin <= left.end
    BY <1>1 DEF Meets
  <2>2. scan \in 1 .. Len(rhs)
    BY <1>2, <2>1
  <2>3. r \in Run /\ r.begin <= r.end
    BY <1>2, <2>2, OrderedType
  <2> QED BY <1>2, <2>1, <2>2, <2>3, RunType, LastLowAssumption
<1> HIDE DEF r
<1>8. /\ left.begin \in Nat /\ left.end \in Nat /\ lhs[li].begin \in Nat /\ lhs[li].begin <= left.begin
  BY <1>2
<1>9. /\ r.begin \in Nat /\ r.end \in Nat /\ r.begin <= r.end /\ r.begin <= left.end /\ r.end >= left.begin
      /\ r.end <= LastLow /\ r.begin <= LastLow /\ left.end <= LastLow /\ LastLow \in Nat
  BY <1>3
<1>10. /\ Len(lhs) \in Nat /\ Len(rhs) \in Nat /\ Len(out) \in Nat /\ scan \in 1 .. Len(rhs)
       /\ li \in 1 .. Len(lhs) /\ ri \in 1 .. Len(rhs) + 1 /\ ri <= scan /\ Len(out) <= (li - 1) + (scan - 1)
  BY <1>2, <1>3
<1>4. /\ Apart(out') /\ Spread(out') /\ Len(out') \in Nat /\ Len(out') <= Len(out) + 1
      /\ RunValues(out') = RunValues(out) \cup (left.begin .. e)
      /\ out' # <<>> => /\ Last(out').end \in Nat
                        /\ Last(out').end + 1 < left.begin \/ (left.begin <= e /\ Last(out').end = e)
  <2>1. CASE left.begin < r.begin
    <3>1. e \in Low /\ left.begin <= e
      BY <1>8, <1>9, <2>1 DEF Low
    <3>2. AsLow(e) = e
      BY <3>1, LowIsLow
    <3>3. RunOf(left.begin, e) \in Run /\ RunOf(left.begin, e).begin = left.begin /\ RunOf(left.begin, e).end = e
      BY <1>2, <3>1, RunOfType
    <3>4. out' = Append(out, RunOf(left.begin, e))
      BY <1>1, <2>1, <3>2
    <3>5. e \in Int
      BY <1>3
    <3> HIDE DEF e
    <3>6. /\ Apart(out) /\ Spread(out)
          /\ out # <<>> => Last(out).end + 1 < left.begin
          /\ left.begin <= e /\ \E p \in Run : p.begin = left.begin /\ p.end = e /\ out' = Append(out, p)
      BY <1>2, <3>1, <3>3, <3>4
    <3> QED BY <1>8, <3>5, <3>6, PieceAdds
  <2>2. CASE ~(left.begin < r.begin)
    <3>1. ~(left.begin <= e) /\ e \in Int
      BY <1>8, <1>9, <2>2
    <3>2. out' = out
      BY <1>1, <2>2
    <3> HIDE DEF e
    <3> QED BY <1>2, <3>1, <3>2, PieceAdds
  <2> QED BY <2>1, <2>2
\* Of what is left in front of the end of the run that cuts, only that much is kept.
<1>5. ASSUME NEW top \in Int, e <= top, top <= r.end
      PROVE  (left.begin .. top) \ RunValues(rhs) = left.begin .. e
  <2>1. ASSUME NEW v \in left.begin .. top, v \notin RunValues(rhs) PROVE v \in left.begin .. e
    <3>1. v \notin r.begin .. r.end
      <4>1. scan \in DOMAIN rhs
        BY <1>2, <1>3, OrderedType, SeqRunType
      <4> QED BY <2>1, <4>1 DEF RunValues, r
    <3> QED BY <1>2, <1>3, <1>5, <3>1, SMTT(30)
  <2>2. ASSUME NEW v \in left.begin .. e PROVE v \in left.begin .. top /\ v \notin RunValues(rhs)
    <3>1. v \in Int /\ v >= left.begin /\ v < r.begin
      BY <1>2, <1>3
    <3>2. v \in left.begin .. top
      BY <1>2, <1>3, <1>5, <3>1
    <3>3. v \in RunValues(rhs) => v >= r.begin
      BY <1>2, <3>1, BeyondScan DEF r
    <3> QED BY <1>3, <3>1, <3>2, <3>3
  <2> QED BY <2>1, <2>2
<1>6. CASE Exhausts(r)
  <2>1. r.end >= left.end
    BY <1>2, <1>3, <1>6 DEF Exhausts
  <2>2. (left.begin .. left.end) \ RunValues(rhs) = left.begin .. e
    <3>1. left.end \in Int /\ e <= left.end /\ left.end <= r.end
      BY <1>2, <1>3, <2>1
    <3> QED BY <1>5, <3>1
  <2>3. RunValues(out') = RunValues(out) \cup ((left.begin .. left.end) \ RunValues(rhs))
    BY <1>4, <2>2
  <2>4. out' # <<>> => Last(out').end \in Nat /\ (Last(out').end + 1 < left.begin \/ Last(out').end <= left.end)
    BY <1>2, <1>3, <1>4, SMTT(30)
  <2>5. LeaveLeft /\ UNCHANGED <<kernel, lhs, rhs, scan>>
    BY <1>1, <1>6
  <2> QED BY <1>1, <1>4, <2>3, <2>4, <2>5, LeaveKeeps
<1>7. CASE ~Exhausts(r)
  <2> DEFINE b == r.end + 1
  <2>1. /\ left' = [left EXCEPT !.begin = AsLow(b)] /\ scan' = scan + 1
        /\ UNCHANGED <<li, ri, at>>
    BY <1>1, <1>7
  <2>2. r.end < LastLow /\ b \in Low /\ b \in Nat /\ b <= left.end + 1
    <3>1. r.end # LastLow
      BY <1>7 DEF Exhausts
    <3>2. CASE kernel = "difference_run_run"
      <4>1. ~(r.end >= left.end)
        BY <1>7, <3>2 DEF Exhausts
      <4> QED BY <1>8, <1>9, <3>1, <4>1 DEF Low
    <3>3. CASE kernel = "difference_run_values"
      <4>1. r.begin = r.end
        BY <1>3, <3>3 DEF IInv, Operands, RightIsValues, r
      <4> QED BY <1>8, <1>9, <3>1, <4>1 DEF Low
    <3> QED BY <1>2, <3>2, <3>3 DEF Differences
  <2>3. left' \in Run /\ left'.begin = b /\ left'.end = left.end
    <3>1. AsLow(b) = b
      BY <2>2, LowIsLow
    <3> HIDE DEF b
    <3> QED BY <1>2, <2>1, <2>2, <3>1 DEF Run
  <2>4. RunValues(out') = (Prefix(lhs, li) \cup (lhs[li].begin .. b - 1)) \ RunValues(rhs)
    <3>1. (left.begin .. r.end) \ RunValues(rhs) = left.begin .. e
      <4>1. r.end \in Int /\ e <= r.end /\ r.end <= r.end
        BY <1>3
      <4> QED BY <1>5, <4>1
    <3>2. lhs[li].begin .. b - 1 = (lhs[li].begin .. left.begin - 1) \cup (left.begin .. r.end)
      BY <1>8, <1>9
    <3> QED BY <1>2, <1>4, <3>1, <3>2
  <2>5. \A i \in 1 .. scan' - 1 : rhs[i].end < b
    <3> TAKE i \in 1 .. scan' - 1
    <3>1. i \in 1 .. scan - 1 \/ i = scan
      BY <1>2, <2>1, SMTT(30)
    <3>2. CASE i = scan
      BY <1>3, <3>2 DEF r
    <3>3. CASE i \in 1 .. scan - 1
      <4>1. i \in 1 .. Len(rhs)
        BY <1>2, <3>3
      <4>2. rhs[i].end \in Nat /\ rhs[i].end < left.begin
        BY <1>2, <3>3, <4>1, OrderedType
      <4> QED BY <1>8, <1>9, <4>2
    <3> QED BY <3>1, <3>2, <3>3
  <2>6. scan' <= Len(rhs) => rhs[scan'].end >= b
    <3> SUFFICES ASSUME scan' <= Len(rhs) PROVE rhs[scan'].end >= b
      OBVIOUS
    <3>1. scan' \in 1 .. Len(rhs) /\ scan < scan'
      BY <1>10, <2>1
    <3>2. /\ rhs[scan].end < rhs[scan'].begin /\ rhs[scan'].begin <= rhs[scan'].end
          /\ rhs[scan'].begin \in Nat /\ rhs[scan'].end \in Nat
      BY <1>2, <1>3, <3>1, OrderedType
    <3> QED BY <1>3, <3>2 DEF r
  <2>7. out' # <<>> => Last(out').end + 1 < b
    <3>1. out' # <<>> => /\ Last(out').end \in Nat
                         /\ Last(out').end + 1 < left.begin \/ (left.begin <= e /\ Last(out').end = e)
      BY <1>4
    <3> QED BY <1>8, <1>9, <3>1, SMTT(30)
  <2>8. Places'
    <3>1. li \in 1 .. Len(lhs) + 1 /\ scan + 1 \in 1 .. Len(rhs) + 1
      BY <1>10
    <3> QED BY <1>1, <1>10, <2>1, <3>1 DEF Places
  <2>9. ri' <= scan' /\ Len(out') <= (li' - 1) + (scan' - 1)
    <3>1. Len(out') \in Nat /\ Len(out') <= Len(out) + 1
      BY <1>4
    <3> QED BY <1>10, <2>1, <3>1, SMTT(30)
  <2>10. /\ li' <= Len(lhs) /\ left'.end = lhs[li'].end /\ lhs[li'].begin <= b /\ b <= left'.end + 1
         /\ at' = "inner" /\ li' = li
    <3>1. li' = li /\ at' = "inner" /\ lhs[li].end = left.end /\ li <= Len(lhs)
      BY <1>1, <1>2, <2>1
    <3> QED BY <1>8, <1>9, <2>2, <2>3, <3>1
  <2> HIDE DEF b, e
  <2> QED BY <1>1, <1>4, <2>3, <2>4, <2>5, <2>6, <2>7, <2>8, <2>9, <2>10, CutKeeps
<1> QED BY <1>6, <1>7
-----------------------------------------------------------------------------
(***************************************************************************)
(* Every step.                                                             *)
(***************************************************************************)
\* A pass ends when a side is read, or both.
Ended ==
  at = "done" =>
    /\ kernel \in Unions \cup Xors => ~LeftOver /\ ~RightOver
    /\ kernel \in Intersections => ~(LeftOver /\ RightOver)
    /\ kernel \in Differences => ~LeftOver

LEMMA StutterKeeps ==
  ASSUME IInv, Ended, UNCHANGED kvars
  PROVE  IInv' /\ Ended'
<1>1. UNCHANGED <<kernel, lhs, rhs, li, ri, left, right, scan, out, covered, at>>
  BY DEF kvars
<1>2. kernel \in Kernels
  BY DEF IInv, Operands
<1>3. Operands' /\ Places' /\ Apart(out')
  BY <1>1 DEF IInv, Operands, Places
<1>4. OutHoldsTheDecided'
  <2>1. Decided' = Decided
    BY <1>1, <1>2, DecidedNow, DecidedNext, KernelKinds
  <2> QED BY <1>1, <2>1 DEF IInv, OutHoldsTheDecided
<1>5. Merging' /\ Intersecting'
  BY <1>1 DEF IInv, Merging, Intersecting, LeftOver, RightOver
<1>6. Cutting'
  BY <1>1 DEF IInv, Cutting, LeftOver
<1>7. Ended'
  BY <1>1 DEF Ended, LeftOver, RightOver
<1> QED BY <1>3, <1>4, <1>5, <1>6, <1>7 DEF IInv

LEMMA NextKeeps ==
  ASSUME IInv, Ended, [KNext]_kvars
  PROVE  IInv' /\ Ended'
<1>1. CASE TakeLeft
  <2>1. IInv'
    BY <1>1, TakeLeftKeeps
  <2>2. at' # "done"
    BY <1>1 DEF TakeLeft
  <2> QED BY <2>1, <2>2 DEF Ended
<1>2. CASE TakeRight
  <2>1. IInv'
    BY <1>2, TakeRightKeeps
  <2>2. at' # "done"
    BY <1>2 DEF TakeRight
  <2> QED BY <2>1, <2>2 DEF Ended
<1>3. CASE Merged
  <2>1. /\ UNCHANGED <<kernel, lhs, rhs, li, ri, left, right, scan, out>> /\ at' = "done"
        /\ \/ at = "merge" /\ ~LeftOver /\ ~RightOver
           \/ at = "outer" /\ ~LeftOver
    BY <1>3 DEF Merged, Finish
  <2>2. at # "inner"
    BY <2>1
  <2>3. IInv'
    BY <2>1, <2>2, FinishKeeps
  <2>4. kernel \notin Intersections /\ (at = "outer" => kernel \notin Unions \cup Xors)
    BY <2>1, WhereKernelsAre, KernelKinds
  <2>5. Ended'
    BY <2>1, <2>4 DEF Ended, LeftOver, RightOver
  <2> QED BY <2>3, <2>5
<1>4. CASE SkipLeft
  <2>1. IInv'
    BY <1>4, SkipLeftKeeps
  <2>2. at' # "done"
    BY <1>4 DEF SkipLeft, Comparing
  <2> QED BY <2>1, <2>2 DEF Ended
<1>5. CASE SkipRight
  <2>1. IInv'
    BY <1>5, SkipRightKeeps
  <2>2. at' # "done"
    BY <1>5 DEF SkipRight, Comparing
  <2> QED BY <2>1, <2>2 DEF Ended
<1>6. CASE EmitShared
  <2>1. IInv'
    BY <1>6, EmitSharedKeeps
  <2>2. at' # "done"
    BY <1>6 DEF EmitShared, Comparing
  <2> QED BY <2>1, <2>2 DEF Ended
<1>7. CASE Intersected
  <2>1. /\ UNCHANGED <<kernel, lhs, rhs, li, ri, left, right, scan, out>> /\ at' = "done"
        /\ at = "intersect" /\ ~(LeftOver /\ RightOver)
    BY <1>7 DEF Intersected, Finish
  <2>2. at # "inner"
    BY <2>1
  <2>3. IInv'
    BY <2>1, <2>2, FinishKeeps
  <2>4. kernel \notin Unions \cup Xors \cup Differences
    BY <2>1, WhereKernelsAre, KernelKinds
  <2>5. Ended'
    BY <2>1, <2>4 DEF Ended, LeftOver, RightOver
  <2> QED BY <2>3, <2>5
<1>8. CASE NextLeft
  <2>1. IInv'
    BY <1>8, NextLeftKeeps
  <2>2. at' # "done"
    BY <1>8 DEF NextLeft
  <2> QED BY <2>1, <2>2 DEF Ended
<1>9. CASE Cut
  <2>1. IInv'
    BY <1>9, CutKeepsIInv
  <2>2. at' # "done"
    BY <1>9 DEF Cut, LeaveLeft
  <2> QED BY <2>1, <2>2 DEF Ended
<1>10. CASE KeepRest
  <2>1. IInv'
    BY <1>10, KeepRestKeeps
  <2>2. at' # "done"
    BY <1>10 DEF KeepRest, LeaveLeft
  <2> QED BY <2>1, <2>2 DEF Ended
<1>11. CASE UNCHANGED kvars
  BY <1>11, StutterKeeps
<1> QED BY <1>1, <1>2, <1>3, <1>4, <1>5, <1>6, <1>7, <1>8, <1>9, <1>10, <1>11 DEF KNext

\* Every kernel of run_ops.hpp keeps the invariant from its first iteration on.
THEOREM Invariant == KSpec => [](IInv /\ Ended)
<1>1. KInit => IInv /\ Ended
  <2> SUFFICES ASSUME KInit PROVE IInv /\ Ended
    OBVIOUS
  <2>1. at # "done"
    BY KernelKinds DEF KInit, Start, Kernels, Unions, Xors, Intersections, Differences
  <2> QED BY <2>1, InitIInv DEF Ended
<1>2. IInv /\ Ended /\ [KNext]_kvars => (IInv /\ Ended)'
  BY NextKeeps
<1> QED BY <1>1, <1>2, PTL DEF KSpec

-----------------------------------------------------------------------------
(***************************************************************************)
(* What follows.                                                           *)
(***************************************************************************)
\* At most half of the domain's values can begin a run of their own.
LEMMA HalfTheDomain ==
  ASSUME NEW rs, Apart(rs), Spread(rs)
  PROVE  Len(rs) <= (LastLow + 1) \div 2
<1>1. Len(rs) \in Nat /\ LastLow \in Nat /\ LastLow % 2 = 1
  BY LastLowAssumption, SeqRunType DEF Apart
<1>2. CASE Len(rs) = 0
  BY <1>1, <1>2
<1>3. CASE Len(rs) # 0
  <2>1. Len(rs) \in 1 .. Len(rs)
    BY <1>1, <1>3
  <2>2. rs[Len(rs)].begin >= 2 * (Len(rs) - 1)
    BY <2>1 DEF Spread
  <2>3. rs[Len(rs)].begin <= LastLow /\ rs[Len(rs)].begin \in Nat
    BY <2>1, SeqRunType, RunType DEF Apart
  <2>4. 2 * (Len(rs) - 1) <= LastLow
    BY <1>1, <2>2, <2>3
  <2> QED BY <1>1, <2>4
<1> QED BY <1>2, <1>3

LEMMA RoomFollows ==
  ASSUME IInv
  PROVE  RoomSuffices
<1>1. /\ Ordered(lhs) /\ Ordered(rhs) /\ Apart(out) /\ kernel \in Kernels
      /\ li \in 1 .. Len(lhs) + 1 /\ ri \in 1 .. Len(rhs) + 1 /\ scan \in 1 .. Len(rhs) + 1
  BY DEF IInv, Operands, Places
<1>2. Len(lhs) \in Nat /\ Len(rhs) \in Nat /\ Len(out) \in Nat
  BY <1>1, OrderedType, ApartOrdered
<1>3. Len(out) <= Len(lhs) + Len(rhs)
  <2>1. Len(out) <= (li - 1) + (ri - 1) \/ Len(out) <= (li - 1) + (scan - 1)
    BY <1>1, KernelKinds DEF IInv, Merging, Intersecting, Cutting
  <2> QED BY <1>1, <1>2, <2>1
<1>4. CASE kernel = "difference_run_values"
  <2>1. Spread(out)
    BY <1>4 DEF IInv, Cutting, Differences, Spread
  <2>2. Len(out) <= (LastLow + 1) \div 2
    BY <1>1, <2>1, HalfTheDomain
  <2>3. (LastLow + 1) \div 2 \in Int /\ Len(lhs) + Len(rhs) \in Int
    BY <1>2, LastLowAssumption
  <2>4. Room = Min({Len(lhs) + Len(rhs), (LastLow + 1) \div 2})
    BY <1>4 DEF Room
  <2>5. Room = Len(lhs) + Len(rhs) \/ Room = (LastLow + 1) \div 2
    BY <2>3, <2>4, MaxMin
  <2> QED BY <1>3, <2>2, <2>5 DEF RoomSuffices
<1>5. CASE kernel # "difference_run_values"
  BY <1>3, <1>5 DEF RoomSuffices, Room
<1> QED BY <1>4, <1>5

LEMMA AnswerFollows ==
  ASSUME IInv, Ended
  PROVE  DoneIsTheAnswer
<1> SUFFICES ASSUME at = "done", kernel # "intersect_runs_cardinality"
             PROVE  RunValues(out) = Sets!Combined(Operation, RunValues(lhs), RunValues(rhs))
  BY DEF DoneIsTheAnswer
<1>1. /\ Ordered(lhs) /\ Ordered(rhs) /\ kernel \in Kernels
      /\ li \in 1 .. Len(lhs) + 1 /\ ri \in 1 .. Len(rhs) + 1
      /\ RunValues(out) = Decided
  BY DEF IInv, Operands, Places, OutHoldsTheDecided
<1>2. Len(lhs) \in Nat /\ Len(rhs) \in Nat
  BY <1>1, OrderedType
<1>3. /\ ~LeftOver => li = Len(lhs) + 1
      /\ ~RightOver => ri = Len(rhs) + 1
  BY <1>1, <1>2 DEF LeftOver, RightOver
<1>4. /\ ~LeftOver => Prefix(lhs, li) = RunValues(lhs) /\ Rest(lhs, li) = {}
      /\ ~RightOver => Prefix(rhs, ri) = RunValues(rhs) /\ Rest(rhs, ri) = {}
  BY <1>1, <1>3, PrefixEnds
<1>5. CASE kernel \in Unions
  <2>1. Operation = "union"
    BY <1>5 DEF Operation, Unions, Xors, Differences
  <2>2. RunValues(out) = RunValues(lhs) \cup RunValues(rhs)
    BY <1>1, <1>4, <1>5, DecidedNow DEF Ended
  <2> QED BY <2>1, <2>2 DEF Sets!Combined
<1>6. CASE kernel \in Xors
  <2>1. Operation = "xor"
    BY <1>6 DEF Operation, Unions, Xors, Differences
  <2>2. RunValues(out) = SymDiff(RunValues(lhs), RunValues(rhs))
    BY <1>1, <1>4, <1>6, DecidedNow DEF Ended
  <2> QED BY <2>1, <2>2 DEF Sets!Combined, Sets!SymDiff, SymDiff
<1>7. CASE kernel = "intersect_runs"
  <2>1. Operation = "intersection"
    BY <1>7 DEF Operation, Unions, Xors, Differences
  <2>2. kernel \in Intersections
    BY <1>7 DEF Intersections
  <2>3. RunValues(out) = RunValues(lhs) \cap RunValues(rhs)
    BY <1>1, <1>4, <2>2, DecidedNow DEF Ended
  <2> QED BY <2>1, <2>3 DEF Sets!Combined
<1>8. CASE kernel \in Differences
  <2>1. Operation = "difference"
    BY <1>8 DEF Operation, Unions, Xors, Differences
  <2>2. RunValues(out) = RunValues(lhs) \ RunValues(rhs)
    BY <1>1, <1>4, <1>8, DecidedNow DEF Ended
  <2> QED BY <2>1, <2>2 DEF Sets!Combined
<1> QED BY <1>1, <1>5, <1>6, <1>7, <1>8 DEF Kernels, Intersections

(***************************************************************************)
(* The eight kernels of run_ops.hpp, on operands of any size over any      *)
(* domain: what they have written is at every iteration what is decided,   *)
(* in maximal runs that fit the block asked for, append_run_exclusive is   *)
(* called as it requires, the intersections compare current runs, and what *)
(* is there at the end is the set operation's result.                      *)
(***************************************************************************)
THEOREM KernelsStaySound == KSpec => []KernelsAreSound
<1>1. ASSUME IInv, Ended PROVE KernelsAreSound
  <2>1. OutHoldsTheDecided
    BY <1>1 DEF IInv
  <2>2. OutIsMaximal
    BY <1>1, ApartMaximal DEF IInv, OutIsMaximal
  <2>3. RoomSuffices
    BY <1>1, RoomFollows
  <2>4. ExclusiveOrInOrder
    BY <1>1 DEF IInv, Merging, ExclusiveOrInOrder
  <2>5. LoadedRunsAreCurrent
    BY <1>1, ComparedRuns DEF LoadedRunsAreCurrent
  <2>6. DoneIsTheAnswer
    BY <1>1, AnswerFollows
  <2> QED BY <2>1, <2>2, <2>3, <2>4, <2>5, <2>6 DEF KernelsAreSound
<1>2. IInv /\ Ended => KernelsAreSound
  BY <1>1
<1> QED BY <1>2, Invariant, PTL
===============================================================================
