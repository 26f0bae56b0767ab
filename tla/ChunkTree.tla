------------------------------ MODULE ChunkTree ------------------------------
(***************************************************************************)
(* The operations of chunk_tree.hpp.  A call of the tree's owner is one    *)
(* step; one that fails to get memory is a step of its own, after what it  *)
(* had done by then.                                                       *)
(***************************************************************************)
EXTENDS ChunkDirectory

CONSTANTS
  OtherTables,            \* the keys of the tables insert_absent_from() reads
  KeptSets,               \* the keys a walk that rewrites the table may keep
  ErasesLastBeforeOpened  \* may the last entry be erased while the leaf that an
                          \* abandoned open_back() left is behind it?

VARIABLE tree

-----------------------------------------------------------------------------
(* Reading.                                                                *)

Begin(t) == IF t.size = 0 THEN End ELSE Cursor(1, 1)
LastEntry(t) == Cursor(MaxLeaf(t), Len(KeysAt(t, MaxLeaf(t))))

\* cursor::operator++.
Following(t, at) == CursorOrFollowing(t, at[1], at[2] + 1)

\* prev().
Preceding(t, at) ==
  IF at = End THEN LastEntry(t)
  ELSE IF at[2] # 1 THEN Cursor(at[1], at[2] - 1)
  ELSE Cursor(at[1] - 1, Len(KeysAt(t, at[1] - 1)))

KeyOf(t, at) == KeysAt(t, at[1])[at[2]]

\* seek_in_leaf(): past the last entry of a leaf lies the first of the next.
SeekInLeaf(t, p, k) == CursorOrFollowing(t, p, CountBelow(KeysAt(t, p), k) + 1)

LowerBound(t, k) ==
  IF t.chain = <<>> THEN End
  ELSE IF ~Indexed(t) THEN SeekInLeaf(t, Descend(t, k), k)
  ELSE IF Reaching(t, k) = {} THEN End
  ELSE LET p == Min(Reaching(t, k)) IN Cursor(p, CountBelow(KeysAt(t, p), k) + 1)

Find(t, k) ==
  LET at == LowerBound(t, k)
  IN  IF at # End /\ KeyOf(t, at) = k THEN at ELSE End

\* lower_bound() of a caller that stands at `from` and moves forward.
LowerBoundFrom(t, k, from) ==
  IF from = End THEN End
  ELSE IF LastKey(t, from[1]) >= k
  THEN Cursor(from[1], CountBelow(KeysAt(t, from[1]), k) + 1)
  ELSE LowerBound(t, k)

\* The keys in the order of a walk from begin().
RECURSIVE WalkFrom(_, _)
WalkFrom(t, at) == IF at = End THEN <<>> ELSE <<KeyOf(t, at)>> \o WalkFrom(t, Following(t, at))

Walk(t) == WalkFrom(t, Begin(t))

-----------------------------------------------------------------------------
(* Inserting.  An operation yields the tree and where the caller is left.  *)

Done(t, at) == [tree |-> t, at |-> at]

WithKeys(t, p, keys) == [t EXCEPT !.chain[p].keys = keys]

\* leaf_put() into a leaf with room.
Put(t, p, i, k) ==
  LET u == [WithKeys(t, p, InsertAt(KeysAt(t, p), i, k)) EXCEPT !.size = @ + 1]
  IN  Done(IF Indexed(t) /\ p = 1 /\ i = 1 THEN NoteNewMinimum(u, 1, k) ELSE u, Cursor(p, i))

GrowRootLeaf(t) == [t EXCEPT !.chain[1].cap = RootCapacityFor(@ + 1)]

\* A new last leaf behind the full one; the index gets it under `sep`, the
\* directory the leaf before it.
NewLastLeaf(t, keys, sep) ==
  LET p == Tail_(t)
      u == Linked(t, p, Leaf(LeafCapacity, keys))
  IN  IF Indexed(t) THEN NameLeaf(u, p) ELSE WithLeafIndexed(u, PathRight(t), sep, p + 1)

\* Whether the entry behind the last needs a new leaf.
NeedsNewLastLeaf(t) ==
  t.chain # <<>> /\ IsFull(t.chain[Tail_(t)]) /\ t.chain[Tail_(t)].cap = LeafCapacity

\* Room behind the last entry: open_back(), and how append_staged() begins.  The
\* leaf that follows the full last one is indexed above every key held.
Opened(t, sep) ==
  IF t.chain = <<>> THEN [t EXCEPT !.chain = <<Leaf(SmallLeaf, <<>>)>>, !.root = 1]
  ELSE IF ~IsFull(t.chain[Tail_(t)]) THEN t
  ELSE IF ~NeedsNewLastLeaf(t) THEN GrowRootLeaf(t)
  ELSE NewLastLeaf(PrepareNewLastLeaf(t), <<>>, sep)

\* leaf_append(), commit_back().
Committed(t, k) ==
  [WithKeys(t, Tail_(t), Append(KeysAt(t, Tail_(t)), k)) EXCEPT !.size = @ + 1]

AtLast(t) == Done(t, LastEntry(t))

Appended(t, k) == AtLast(Committed(Opened(t, k), k))

LeafFor(t, k) == IF Indexed(t) THEN LocateIndexed(t, k) ELSE Descend(t, k)

\* What a split is preceded by: a directory is adopted, widened or given up.
ReadyToSplit(t, p) == IF Indexed(t) THEN PrepareSplit(t, p) ELSE AdoptIfDue(t)

\* How many keys a full leaf keeps when it splits for one at index i: past the
\* last entry all, below the first none, else half.
KeptAtSplit(t, p, i) ==
  LET n == Len(KeysAt(t, p))
  IN  IF i = n + 1 /\ p = Tail_(t) THEN n ELSE IF i = 1 /\ p = 1 THEN 0 ELSE n \div 2

\* The keys of a split, in a leaf and a new one behind it.
Halved(t, p, left, right) ==
  [WithKeys(Linked(t, p, Leaf(LeafCapacity, right)), p, left) EXCEPT !.size = @ + 1]

SplitInto(t, p, left, right, k) ==
  IF Indexed(t) THEN SplitIndexed(Halved(t, p, left, right), p)
  ELSE WithLeafIndexed(Halved(t, p, left, right), Path(t, k), right[1], p + 1)

Noted(t, at, k) ==
  Done(IF Indexed(t) /\ at = Cursor(1, 1) THEN NoteNewMinimum(t, 1, k) ELSE t, at)

SplitAt(t, p, i, k, keys, kept) ==
  IF i <= kept + 1 /\ kept < Len(keys)
  THEN Noted(SplitInto(t, p, InsertAt(SubSeq(keys, 1, kept), i, k),
                       SubSeq(keys, kept + 1, Len(keys)), k),
             Cursor(p, i), k)
  ELSE Noted(SplitInto(t, p, SubSeq(keys, 1, kept),
                       InsertAt(SubSeq(keys, kept + 1, Len(keys)), i - kept, k), k),
             Cursor(p + 1, i - kept), k)

\* Leaf p is full and splits for a key at index i.
Split(t, p, i, k) == SplitAt(t, p, i, k, KeysAt(t, p), KeptAtSplit(t, p, i))

\* insert_staged(), before `at`, the lower bound of k; it starts over when the
\* index has changed, which may find k another leaf.
RECURSIVE Inserted(_, _, _), InsertedInto(_, _, _, _), SplitOrRestarted(_, _, _, _, _)
SplitOrRestarted(t, ready, p, at, k) ==
  IF Indexed(ready) # Indexed(t) THEN Inserted(ready, at, k)
  ELSE Split(ready, p, CountBelow(KeysAt(t, p), k) + 1, k)

InsertedInto(t, p, at, k) ==
  IF ~IsFull(t.chain[p]) THEN Put(t, p, CountBelow(KeysAt(t, p), k) + 1, k)
  ELSE IF t.chain[p].cap < LeafCapacity
  THEN Put(GrowRootLeaf(t), p, CountBelow(KeysAt(t, p), k) + 1, k)
  ELSE SplitOrRestarted(t, ReadyToSplit(t, p), p, at, k)

Inserted(t, at, k) ==
  IF at = End THEN Appended(t, k)
  ELSE IF (at[2] # 1 \/ at[1] = 1) /\ ~IsFull(t.chain[at[1]]) THEN Put(t, at[1], at[2], k)
  ELSE InsertedInto(t, LeafFor(t, k), at, k)


\* What an insertion that cannot have its new leaf leaves behind.
RECURSIVE InsertionFailed(_, _, _), FailedAfter(_, _, _, _)
FailedAfter(t, ready, at, k) ==
  IF Indexed(ready) # Indexed(t) THEN InsertionFailed(ready, at, k) ELSE ready

InsertionFailed(t, at, k) ==
  IF at = End THEN IF NeedsNewLastLeaf(t) THEN PrepareNewLastLeaf(t) ELSE t
  ELSE LET p == LeafFor(t, k)
       IN  IF ~IsFull(t.chain[p]) \/ t.chain[p].cap < LeafCapacity THEN t
           ELSE FailedAfter(t, ReadyToSplit(t, p), at, k)

\* insert_absent_from(): every key is sought from where the one before was put.
RECURSIVE InsertAbsent(_, _, _), InsertAbsentAt(_, _, _), AfterFirst(_, _)
AfterFirst(done, keys) == InsertAbsent(done.tree, done.at, Tail(keys))

InsertAbsentAt(t, found, keys) ==
  AfterFirst(IF found # End /\ KeyOf(t, found) = Head(keys) THEN Done(t, found)
             ELSE Inserted(t, found, Head(keys)), keys)

InsertAbsent(t, at, keys) ==
  IF keys = <<>> THEN t ELSE InsertAbsentAt(t, LowerBoundFrom(t, Head(keys), at), keys)

-----------------------------------------------------------------------------
(* Erasing.                                                                *)

\* absorb() a leaf into the one before it, which takes its place.
Absorbed(t, p) ==
  WithKeys(WithKeys(t, p, KeysAt(t, p) \o KeysAt(t, p + 1)), p + 1, <<>>)

FitsOneLeaf(t, p) == Len(KeysAt(t, p)) + Len(KeysAt(t, p + 1)) <= MergeLimit

WithoutEntry(t, p, i) ==
  [WithKeys(t, p, RemoveAt(KeysAt(t, p), i)) EXCEPT !.size = @ - 1]

AtOrFollowing(t, p, i) == Done(t, CursorOrFollowing(t, p, i))

\* Leaf p + 1, the child that `path` leads to, is absorbed into leaf p.
AbsorbedInLevels(t, p, path) == Unlinked(RemoveChild(Absorbed(t, p), path), p + 1)

\* An underfull leaf joins its sibling behind, or if it is the node's last child
\* the one before.
JoinedInLevels(t, p, i, path, siblings) ==
  LET child == path[1]
  IN  IF child < Len(siblings) /\ FitsOneLeaf(t, p)
      THEN AtOrFollowing(AbsorbedInLevels(t, p, [path EXCEPT ![1] = child + 1]), p, i)
      ELSE IF child = Len(siblings) /\ child > 1 /\ FitsOneLeaf(t, p - 1)
      THEN AtOrFollowing(AbsorbedInLevels(t, p - 1, path), p - 1, Len(KeysAt(t, p - 1)) + i)
      ELSE AtOrFollowing(t, p, i)

\* erase() with inner levels, and what it leaves of the leaf.
RestInLevels(t, p, i, path) ==
  CASE t.size = 0 /\ t.height = 0 -> Done([t EXCEPT !.chain = <<>>, !.root = 0], End)
    [] KeysAt(t, p) = <<>> /\ t.height > 0 ->
         Done(Unlinked(RemoveChild(t, path), p),
              IF FollowingCursor(t, p) = End THEN End ELSE Cursor(p, 1))
    [] Len(KeysAt(t, p)) = MergeBelow - 1 /\ t.height > 0 ->
         JoinedInLevels(t, p, i, path, NodeOn(t.root, t.height, path, 1).kids)
    [] OTHER -> AtOrFollowing(t, p, i)

ErasedInLevels(t, at, k) ==
  RestInLevels(WithoutEntry(t, at[1], at[2]), at[1], at[2], Path(t, k))

\* An erase that would move a leaf's end into a full bucket gives it up.
WithoutPile(t, at) ==
  LET keys == KeysAt(t, at[1])
      n    == Len(keys)
      now  == BucketClamped(t, keys[n - 1])
  IN  IF /\ Indexed(t) /\ at[2] = n /\ n > 1
         /\ now # BucketClamped(t, keys[n]) /\ PileAt(t, now) >= PileLimit
      THEN AbandonDirectory(t) ELSE t

\* prepare_erase(): the table is narrowed or given up.
PrepareErase(t, at) ==
  WithoutPile(IF t.dir.buckets <= t.size + 2 * TableSlack THEN t
              ELSE IF t.size <= DirectoryMinEntries \div 2 THEN AbandonDirectory(t)
              ELSE Adopting(t, Candidate(t), AbandonDirectory(t)),
              at)

\* erase_indexed(): a leaf that empties goes, ...
LeafEmptied(t, p, was, next) ==
  LET v == Retarget(t, p, was, next)
      w == IF p = 1 /\ next # 0 THEN [NewFirstBucket(v, next) EXCEPT !.root = next] ELSE v
  IN  IF t.size = 0 THEN Done(Nothing, End)
      ELSE Done(Unlinked(w, p), IF next = 0 THEN End ELSE Cursor(p, 1))

\* ... the table follows a leaf's last key, and its start the smallest, ...
EndsNoted(t, p, i, was) ==
  LET v == IF i = Len(KeysAt(t, p)) + 1 THEN LastDecreased(t, p, was) ELSE t
  IN  IF i = 1 /\ p = 1 THEN NewFirstBucket(v, p) ELSE v

\* ... and leaf p + 1 is absorbed into leaf p.
AbsorbedIndexed(t, p) ==
  Unlinked(Retarget(Absorbed(t, p), p + 1, LastKey(t, p + 1), p), p + 1)

\* An underfull leaf joins the one behind it, else the one before.
JoinedIndexed(t, p, i) ==
  IF Len(KeysAt(t, p)) # MergeBelow - 1 THEN AtOrFollowing(t, p, i)
  ELSE IF NextNonempty(t, p) # 0 /\ FitsOneLeaf(t, p)
  THEN AtOrFollowing(AbsorbedIndexed(t, p), p, i)
  ELSE IF p > 1 /\ FitsOneLeaf(t, p - 1)
  THEN AtOrFollowing(AbsorbedIndexed(t, p - 1), p - 1, Len(KeysAt(t, p - 1)) + i)
  ELSE AtOrFollowing(t, p, i)

ErasedIndexedAt(t, p, i, was) ==
  IF KeysAt(t, p) = <<>> THEN LeafEmptied(t, p, was, NextNonempty(t, p))
  ELSE JoinedIndexed(EndsNoted(t, p, i, was), p, i)

ErasedIndexed(t, at) ==
  ErasedIndexedAt(WithoutEntry(t, at[1], at[2]), at[1], at[2], LastKey(t, at[1]))

ErasedFrom(t, at, k) == IF Indexed(t) THEN ErasedIndexed(t, at) ELSE ErasedInLevels(t, at, k)

Erased(t, at) == ErasedFrom(IF Indexed(t) THEN PrepareErase(t, at) ELSE t, at, KeyOf(t, at))

-----------------------------------------------------------------------------
(* The whole table.                                                        *)

\* The empty last leaf of an abandoned open_back().
OpenedLeafLeft(t) == Tail_(t) > 1 /\ KeysAt(t, Tail_(t)) = <<>>

Shrunk(t) ==
  IF t.size = 0 THEN Nothing
  ELSE LET u == IF ~OpenedLeafLeft(t) THEN t
                ELSE Unlinked(IF Indexed(t) THEN t ELSE RemoveChild(t, PathRight(t)), Tail_(t))
       IN  IF u.height # 0 THEN u
           ELSE [u EXCEPT !.chain[1].cap = Min({@, RootCapacityFor(u.size)})]

\* The keys laid out in leaves filled one after the other.
Packed(keys, cap) ==
  [p \in 1..(Len(keys) + cap - 1) \div cap |->
     Leaf(cap, SubSeq(keys, (p - 1) * cap + 1, Min({p * cap, Len(keys)})))]

Copied(t) ==
  IF t.size = 0 THEN Nothing
  ELSE IF t.size <= LeafCapacity
  THEN [Nothing EXCEPT !.chain = Packed(Walk(t), RootCapacityFor(t.size)),
                       !.root = 1, !.size = t.size]
  ELSE IndexChain([Nothing EXCEPT !.chain = Packed(Walk(t), LeafCapacity), !.size = t.size])

\* finish_rewrite(): the entries kept fill the leaves from the first on, and a
\* directory that cannot have its memory leaves inner levels.
Rewritten(t, kept, alloc) ==
  LET keys == SelectSeq(Walk(t), LAMBDA k : k \in kept)
      u == [t EXCEPT !.chain = Packed(keys, t.chain[1].cap), !.size = Len(keys)]
  IN  IF t.chain = <<>> THEN t
      ELSE IF keys = <<>>
      THEN [u EXCEPT !.root = 0, !.height = 0, !.dir = NoDirectory]
      ELSE IF Tail_(u) = 1 THEN BuildLevels(u)
      ELSE IF alloc \/ u.size < u.nextEval THEN IndexChain(u)
      ELSE BuildLevels(NotAdopted(u))

-----------------------------------------------------------------------------
Init == tree = Nothing

Insert(k) ==
  /\ Find(tree, k) = End
  /\ tree' = Inserted(tree, LowerBound(tree, k), k).tree

FailToInsert(k) ==
  /\ Find(tree, k) = End
  /\ tree' = InsertionFailed(tree, LowerBound(tree, k), k)

Erase(k) ==
  /\ Find(tree, k) # End
  /\ OpenedLeafLeft(tree) /\ ~ErasesLastBeforeOpened => k # KeyOf(tree, LastEntry(tree))
  /\ tree' = Erased(tree, Find(tree, k)).tree

\* An entry opened behind the last and not committed; committed, it is what an
\* insertion there does.
OpenBack ==
  tree' = Opened(tree, IF tree.size = 0 THEN 0 ELSE KeyOf(tree, LastEntry(tree)) + 1)

InsertAbsentFrom(other) ==
  tree' = InsertAbsent(tree, Begin(tree), SetToSortSeq(other, <))

ShrinkToFit == tree' = Shrunk(tree)

\* The owner goes on with a copy.
CopyFrom == tree' = Copied(tree)

Rewrite(kept, alloc) == tree' = Rewritten(tree, kept, alloc)

Release == tree' = Nothing

Next ==
  \/ \E k \in Key : Insert(k) \/ FailToInsert(k) \/ Erase(k)
  \/ OpenBack \/ ShrinkToFit \/ CopyFrom \/ Release
  \/ \E other \in OtherTables : InsertAbsentFrom(other)
  \/ \E kept \in KeptSets, alloc \in BOOLEAN : Rewrite(kept, alloc)

Spec == Init /\ [][Next]_tree

-----------------------------------------------------------------------------
(***************************************************************************)
(* What must hold of the wide-key chunk table.                             *)
(***************************************************************************)
\* The keys in the order of the leaves, whatever the index says.
ChainKeys(t) == FlattenSeq([p \in DOMAIN t.chain |-> t.chain[p].keys])

Held(t) == UNION {ToSet(t.chain[p].keys) : p \in DOMAIN t.chain}

Ascending(s) == \A i, j \in DOMAIN s : i < j => s[i] < s[j]

RECURSIVE LeavesUnder(_, _)
LeavesUnder(node, level) ==
  IF level = 0 THEN <<node>>
  ELSE FlattenSeq([i \in DOMAIN node.kids |-> LeavesUnder(node.kids[i], level - 1)])

\* check_subtree(): separators and keys lie within the bounds the nodes above
\* set, and no node has more separators than it has room for.
RECURSIVE SubtreeSound(_, _, _, _, _)
SubtreeSound(t, node, level, floor, ceiling) ==
  IF level = 0
  THEN \A k \in ToSet(KeysAt(t, node)) : floor <= k /\ k < ceiling
  ELSE /\ Len(node.seps) <= InnerKeys /\ Len(node.kids) = Len(node.seps) + 1
       /\ Ascending(node.seps)
       /\ \A s \in ToSet(node.seps) : floor <= s /\ s < ceiling
       /\ \A i \in DOMAIN node.kids :
            SubtreeSound(t, node.kids[i], level - 1,
                         IF i = 1 THEN floor ELSE node.seps[i - 1],
                         IF i = Len(node.kids) THEN ceiling ELSE node.seps[i])

\* validate_indexed(): every kept bucket names the first leaf that reaches it,
\* unless only the last leaf does, and no bucket is overfull.
DirectorySound(t) ==
  LET full == 1..MaxLeaf(t)
      reaches(p, b) == b = t.dir.lo \/ LastKey(t, p) >= BucketStart(t, b)
  IN  /\ t.root = 1 /\ t.height = 1
      /\ t.dir.lo = BucketOf(t, KeysAt(t, 1)[1]) /\ t.dir.lo < t.dir.buckets
      /\ \A p \in full :
           /\ Cardinality({q \in full : BucketOf(t, LastKey(t, q)) = BucketOf(t, LastKey(t, p))})
                <= PileLimit
           /\ p # MaxLeaf(t) => BucketOf(t, LastKey(t, p)) < t.dir.buckets
      /\ \A b \in t.dir.lo..t.dir.buckets - 1 :
           LET reach == {p \in full : reaches(p, b)}
           IN  \/ t.dir.table[b] = 0 /\ reach \subseteq {MaxLeaf(t)}
               \/ reach # {} /\ t.dir.table[b] = Min(reach)

(* The index and the chain of leaves agree, as validate() checks it: the     *)
(* leaves under the inner levels are the chain in its order, separators      *)
(* divide the keys, every kept bucket of the directory names the first leaf  *)
(* that reaches it; leaves are ascending, filled at most to their capacity,  *)
(* and only the last may be empty.  Splits, merges, a leaf that empties and  *)
(* the change from one index to the other each rewrite several of these.     *)
(* One split does not keep it: that of the full first leaf for a new         *)
(* smallest key in a bucket below those kept (EveryBucketNamesALeaf).        *)
TreeIsSound ==
  /\ Ascending(ChainKeys(tree)) /\ Len(ChainKeys(tree)) = tree.size
  /\ \A p \in DOMAIN tree.chain :
       /\ Len(KeysAt(tree, p)) <= tree.chain[p].cap
       /\ KeysAt(tree, p) = <<>> => p = Tail_(tree)
       /\ tree.chain[p].cap # LeafCapacity => tree.height = 0 /\ Tail_(tree) = 1
  /\ IF tree.chain = <<>> THEN tree.root = 0 /\ tree.height = 0 /\ ~Indexed(tree)
     ELSE IF Indexed(tree) THEN DirectorySound(tree)
     ELSE /\ LeavesUnder(tree.root, tree.height) = [p \in DOMAIN tree.chain |-> p]
          /\ SubtreeSound(tree, tree.root, tree.height, -1, AboveAll)

\* The first entry not below k, from a walk of the whole table.
FirstNotBelow(t, k) ==
  LET walk == Walk(t)
      above == {i \in DOMAIN walk : walk[i] >= k}
  IN  IF above = {} THEN -1 ELSE walk[Min(above)]

AnswerAt(t, at) == IF at = End THEN -1 ELSE KeyOf(t, at)

Probes == Key \cup {Max(Key) + 1}

(* A search finds what a walk does: lower_bound() of every key, from the     *)
(* root or the directory and from every entry before it, leads to the first  *)
(* entry not below it, whatever split, merge or abandoned open_back() left   *)
(* the leaves and the index as they are, but for the split of the first leaf *)
(* below the buckets kept; and walking back meets the same entries as        *)
(* walking forward.                                                          *)
SearchesAgreeWithTheWalk ==
  LET walk == Walk(tree) IN
  /\ walk = ChainKeys(tree)
  /\ \A k \in Probes :
       /\ AnswerAt(tree, LowerBound(tree, k)) = FirstNotBelow(tree, k)
       /\ \A from \in ToSet(walk) : from <= k =>
            AnswerAt(tree, LowerBoundFrom(tree, k, Find(tree, from))) = FirstNotBelow(tree, k)
  /\ \A i \in 2..Len(walk) :
       KeyOf(tree, Preceding(tree, Find(tree, walk[i]))) = walk[i - 1]

(* Every key a walk of the table meets is found: find() is "the entry        *)
(* holding `key`".                                                           *)
EveryKeyIsFound == \A k \in ToSet(ChainKeys(tree)) : Find(tree, k) # End

(* No kept bucket of the directory names a leaf that was freed: "each bucket *)
(* names the first leaf that reaches it", from which a search in that bucket *)
(* starts to read (search_start).                                            *)
EveryBucketNamesALeaf ==
  Indexed(tree) =>
    \A b \in tree.dir.lo .. tree.dir.buckets - 1 : tree.dir.table[b] # Dangling

InsertedThere(k, done) == AnswerAt(done.tree, done.at) = k
ErasedThere(k, done)   == AnswerAt(done.tree, done.at) = FirstNotBelow(tree, k + 1)

(* An insertion and an erase leave the caller where they say: at the new     *)
(* entry, and at the entry that followed the erased one, also when leaves    *)
(* split, moved or merged under the cursor.                                  *)
CursorsStayWithTheirEntries ==
  \A k \in Key :
    IF Find(tree, k) = End
    THEN InsertedThere(k, Inserted(tree, LowerBound(tree, k), k))
    ELSE ErasedThere(k, Erased(tree, Find(tree, k)))

(* The tree implements the set of keys its owner means it to be; a call that *)
(* fails for want of memory leaves that set as it was.                       *)
Map == INSTANCE SortedMap WITH held <- Held(tree)
ImplementsMap == Map!Spec
=============================================================================
