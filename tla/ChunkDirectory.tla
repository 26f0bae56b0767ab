---------------------------- MODULE ChunkDirectory ----------------------------
(***************************************************************************)
(* The leaf directory of chunk_tree.hpp: a flat table of leaves indexed by *)
(* the high bits of the key, in place of the inner levels.  A bucket names *)
(* the first leaf whose last key is not below the bucket's start; one that *)
(* names none (0) stands for the last leaf.                                *)
(***************************************************************************)
EXTENDS ChunkLevels

BucketOf(t, k) == (IF k < t.dir.base THEN 0 ELSE k - t.dir.base) \div 2^t.dir.shift

BucketStart(t, b) == t.dir.base + b * 2^t.dir.shift

BucketClamped(t, k) == Max({t.dir.lo, Min({BucketOf(t, k), t.dir.buckets - 1})})

\* Where a search starts to walk the chain.
SearchStart(t, k) ==
  LET p == t.dir.table[BucketClamped(t, k)]
  IN  IF p # 0 THEN p ELSE Tail_(t)

\* The leaves from there on that reach k.
Reaching(t, k) ==
  {p \in SearchStart(t, k)..Tail_(t) : KeysAt(t, p) # <<>> /\ LastKey(t, p) >= k}

LocateIndexed(t, k) == IF Reaching(t, k) = {} THEN MaxLeaf(t) ELSE Min(Reaching(t, k))

\* How many leaves end in a bucket, from the leaf it names to the one the next
\* bucket names.
PileAt(t, b) ==
  IF b >= t.dir.buckets \/ t.dir.table[b] = 0 THEN 0
  ELSE LET above == IF b + 1 < t.dir.buckets THEN t.dir.table[b + 1] ELSE 0
           last  == IF above >= t.dir.table[b] THEN above - 1 ELSE MaxLeaf(t)
       IN  Min({last - t.dir.table[b] + 1, PileLimit + 1})

\* Whether either half of a split leaf could be one leaf too many.
SplitOverflows(t, p) ==
  LET first == BucketClamped(t, KeysAt(t, p)[1])
      last  == BucketClamped(t, LastKey(t, p))
  IN  \/ PileAt(t, last) >= PileLimit
      \/ first # last /\ PileAt(t, first) >= PileLimit

-----------------------------------------------------------------------------
(* Adopting the directory and giving it up.                                *)

\* The table adopt_directory() would build over the chain, and whether the keys
\* are spread evenly enough for it.
Candidate(t) ==
  LET base  == KeysAt(t, 1)[1]
      span  == LastKey(t, MaxLeaf(t)) - base + 1
      width == Max({(span * LeafCapacity) \div (2 * t.size), 1})
      shift == CHOOSE s \in 0..span : 2^s <= width /\ width < 2^(s + 1)
      used  == ((span - 1) \div 2^shift) + 1
      full  == 1..MaxLeaf(t)
      bucket == [p \in full |-> (LastKey(t, p) - base) \div 2^shift]
  IN  [fits |-> /\ used <= t.size \div 2 + AdoptSlack
                /\ \A b \in 0..used - 1 : Cardinality({p \in full : bucket[p] = b}) <= PileLimit,
       dir  |-> [base |-> base, shift |-> shift, lo |-> 0,
                 buckets |-> used + used \div 8 + TableSlack,
                 table |-> [b \in 0..used + used \div 8 + TableSlack - 1 |->
                              IF b < used THEN Min({p \in full : bucket[p] >= b}) ELSE 0]]]

\* The table is adopted if the keys fit it; refused, the next is tried at twice
\* the size.
Adopting(t, candidate, refused) ==
  IF candidate.fits THEN [t EXCEPT !.dir = candidate.dir, !.root = 1, !.height = 1]
  ELSE refused

NotAdopted(t) == [t EXCEPT !.nextEval = 2 * t.size]

\* adopt_if_due(): over one leaf there is nothing to index.
AdoptIfDue(t) ==
  IF t.height = 0 \/ t.size < t.nextEval THEN t
  ELSE Adopting(t, Candidate(t), NotAdopted(t))

\* index_chain(), and the end of a rewrite that leaves several leaves.
IndexChain(t) ==
  IF t.size < t.nextEval THEN BuildLevels(t)
  ELSE Adopting(t, Candidate(t), BuildLevels(NotAdopted(t)))

AbandonDirectory(t) ==
  [BuildLevels(t) EXCEPT !.nextEval = 2 * Max({t.size, DirectoryMinEntries})]

-----------------------------------------------------------------------------
(* Writing the table.                                                      *)

\* The run of buckets down from `top` that name one of `from` names `to`.
Downward(dir, bottom, top, from, to) ==
  [dir EXCEPT !.table = [b \in DOMAIN @ |->
     IF b \in bottom..top /\ \A c \in b..top : dir.table[c] \in from THEN to ELSE @[b]]]

ReserveBucket(t, b) ==
  IF b < t.dir.buckets THEN t
  ELSE IF b + 1 > t.size \div 2 + GrowthSlack THEN AbandonDirectory(t)
  ELSE LET grown == Max({b + 1, t.dir.buckets + t.dir.buckets \div 2})
       IN  [t EXCEPT !.dir.buckets = grown,
                     !.dir.table = [c \in 0..grown - 1 |-> IF c \in DOMAIN @ THEN @[c] ELSE 0]]

\* The buckets a leaf answers that are not named yet.
NameLeaf(t, p) ==
  [t EXCEPT !.dir = Downward(@, t.dir.lo, BucketClamped(t, LastKey(t, p)), {0}, p)]

\* k is the smallest key now and lies in leaf p, the first.
NoteNewMinimum(t, p, k) ==
  LET b == Min({BucketOf(t, k), t.dir.lo})
  IN  [t EXCEPT !.dir.lo = b,
                !.dir.table = [c \in DOMAIN @ |-> IF c \in b..t.dir.lo - 1 THEN p ELSE @[c]]]

\* A directory that can name the full last leaf, or none.
ReachingLast(t, last) ==
  IF /\ last < t.dir.buckets /\ t.dir.table[last] # Tail_(t)
     /\ PileAt(t, last) >= PileLimit
  THEN AbandonDirectory(t)
  ELSE ReserveBucket(t, last)

LastReached(t) == IF Indexed(t) THEN ReachingLast(t, BucketOf(t, LastKey(t, Tail_(t)))) ELSE t

\* prepare_new_last_leaf(): the full last leaf is about to be named.
PrepareNewLastLeaf(t) == LastReached(IF Indexed(t) THEN t ELSE AdoptIfDue(t))

PrepareSplit(t, p) ==
  IF SplitOverflows(t, p) THEN AbandonDirectory(t)
  ELSE ReserveBucket(t, BucketOf(t, KeysAt(t, p)[Len(KeysAt(t, p)) \div 2 + 1]))

\* A slip: the buckets between the two ends keep naming the left half.
SplitUnnoticed(t, left) == NameLeaf(t, left)

\* The leaf behind `left` has taken the upper part of what `left` held.
SplitIndexed(t, left) ==
  LET u   == NameLeaf(t, left)
      top == Min({BucketOf(t, LastKey(t, left + 1)), t.dir.buckets - 1})
  IN  [u EXCEPT !.dir.table = [b \in DOMAIN @ |->
         IF b \in BucketClamped(t, LastKey(t, left)) + 1..top THEN left + 1 ELSE @[b]]]

\* Leaf p, whose last key was k, goes: what named it names `to`.
Retarget(t, p, k, to) ==
  [t EXCEPT !.dir = Downward(@, t.dir.lo, BucketClamped(t, k), {p, 0}, to)]

\* A slip: buckets above the leaf's new last key go on naming it.
LastDecreasedUnnoticed(t, p, was) == t

LastDecreased(t, p, was) ==
  [t EXCEPT !.dir = Downward(@, BucketClamped(t, LastKey(t, p)) + 1, BucketClamped(t, was),
                             {p, 0}, NextNonempty(t, p))]

\* The smallest key is the first of leaf p now.
NewFirstBucket(t, p) == [t EXCEPT !.dir.lo = Max({@, BucketOf(t, KeysAt(t, p)[1])})]
=============================================================================
