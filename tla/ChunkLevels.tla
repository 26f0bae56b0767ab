----------------------------- MODULE ChunkLevels -----------------------------
(***************************************************************************)
(* The blocks of chunk_tree.hpp: leaves, linked in key order, and the      *)
(* inner levels of the B+ tree over them.                                  *)
(*                                                                         *)
(* An entry is named by its key, which its handle moves with.  A leaf is   *)
(* named by its place in the chain: linking a leaf in, or unlinking one,   *)
(* renames the leaves behind it wherever they are named, and a name left   *)
(* over for a leaf that is gone becomes Dangling.                          *)
(***************************************************************************)
EXTENDS Integers, SequencesExt, FiniteSetsExt

CONSTANTS
  Key,                    \* chunk keys
  SmallLeaf, MediumLeaf,  \* 4 and 8: what a root leaf grows through
  LeafCapacity,           \* leaf_capacity
  InnerKeys,              \* inner_keys: the separators of a full inner node
  MergeBelow,             \* merge_below: a leaf with one entry less is underfull
  MergeLimit,             \* merge_limit: what a leaf made of two may hold
  DirectoryMinEntries,    \* chunk_directory_min_entries
  PileLimit,              \* dir_pile_limit
  AdoptSlack, GrowthSlack, TableSlack  \* the directory's spare buckets

ASSUME LevelsAssumption ==
  /\ 0 < SmallLeaf /\ SmallLeaf <= MediumLeaf /\ MediumLeaf <= LeafCapacity
  /\ InnerKeys > 1 /\ MergeBelow > 1 /\ MergeLimit <= LeafCapacity /\ PileLimit > 0

Dangling == -1

\* A position in key order: the place of a leaf and the index in it.
Cursor(p, i) == <<p, i>>
End == <<0, 0>>

NoDirectory == [base |-> 0, shift |-> 0, lo |-> 0, buckets |-> 0, table |-> <<>>]

Nothing == [chain |-> <<>>, root |-> 0, height |-> 0, size |-> 0,
            dir |-> NoDirectory, nextEval |-> DirectoryMinEntries]

Indexed(t) == t.dir.buckets # 0

Leaf(cap, keys) == [cap |-> cap, keys |-> keys]
\* A leaf that is gone is read as if it held nothing.
KeysAt(t, p)    == IF p \in DOMAIN t.chain THEN t.chain[p].keys ELSE <<>>
LastKey(t, p)   == KeysAt(t, p)[Len(KeysAt(t, p))]
Tail_(t)        == Len(t.chain)
IsFull(leaf)    == Len(leaf.keys) = leaf.cap

RootCapacityFor(n) ==
  CASE n <= SmallLeaf  -> SmallLeaf
    [] n <= MediumLeaf -> MediumLeaf
    [] OTHER           -> LeafCapacity

\* The leaf behind p that holds something; the empty last leaf does not.
NextNonempty(t, p) ==
  IF p < Tail_(t) /\ KeysAt(t, p + 1) # <<>> THEN p + 1 ELSE 0

\* The largest key's leaf.
MaxLeaf(t) == IF KeysAt(t, Tail_(t)) = <<>> THEN Tail_(t) - 1 ELSE Tail_(t)

FollowingCursor(t, p) ==
  IF NextNonempty(t, p) = 0 THEN End ELSE Cursor(p + 1, 1)

\* The entry at index i of a leaf, or the first of the leaf behind.
CursorOrFollowing(t, p, i) ==
  IF i <= Len(KeysAt(t, p)) THEN Cursor(p, i) ELSE FollowingCursor(t, p)

CountBelow(keys, k) == Cardinality({i \in DOMAIN keys : keys[i] < k})

-----------------------------------------------------------------------------
(* Naming leaves.                                                          *)

RECURSIVE Renamed(_, _, _)
Renamed(node, level, Name) ==
  IF level = 0 THEN Name[node]
  ELSE [node EXCEPT !.kids = [i \in DOMAIN @ |-> Renamed(@[i], level - 1, Name)]]

RenamedTree(t, Name) ==
  [t EXCEPT !.root = Renamed(@, IF Indexed(t) THEN 0 ELSE t.height, Name),
            !.dir.table = [b \in DOMAIN @ |-> Name[@[b]]]]

\* link_after(): a leaf behind p.
Linked(t, p, leaf) ==
  [RenamedTree(t, [q \in Dangling..Tail_(t) |-> IF q > p THEN q + 1 ELSE q])
     EXCEPT !.chain = InsertAt(@, p + 1, leaf)]

\* unlink() and free_leaf_block().
Unlinked(t, p) ==
  [RenamedTree(t, [q \in Dangling..Tail_(t) |->
                     IF q = p THEN Dangling ELSE IF q > p THEN q - 1 ELSE q])
     EXCEPT !.chain = RemoveAt(@, p)]

-----------------------------------------------------------------------------
(* The inner levels: a node has separators and one child more.             *)

Node(seps, kids) == [seps |-> seps, kids |-> kids]

\* The child taken at each level on the way down to a key, the lowest first.
RECURSIVE PathDown(_, _, _)
PathDown(node, level, probe) ==
  IF level = 0 THEN <<>>
  ELSE LET child == CountBelow(node.seps, probe + 1) + 1
       IN  Append(PathDown(node.kids[child], level - 1, probe), child)

\* descend(), and descend_rightmost() for a probe above every separator.
Path(t, probe) == PathDown(t.root, t.height, probe)
AboveAll       == Max(Key) + 2
PathRight(t)   == Path(t, AboveAll)

RECURSIVE NodeOn(_, _, _, _)
NodeOn(node, level, path, to) ==
  IF level = to THEN node ELSE NodeOn(node.kids[path[level]], level - 1, path, to)

Descend(t, probe) == NodeOn(t.root, t.height, Path(t, probe), 0)

\* What insert_in_parent() makes of a node that gets `kid` behind `child`: the
\* node alone, or the node, the separator that moves up and its new sibling.
WithChild(node, child, sep, kid) ==
  LET seps == InsertAt(node.seps, child, sep)
      kids == InsertAt(node.kids, child + 1, kid)
      kept == (InnerKeys + 1) \div 2
  IN  IF Len(node.seps) < InnerKeys THEN <<Node(seps, kids)>>
      ELSE IF child = InnerKeys + 1 THEN <<node, sep, Node(<<>>, <<kid>>)>>
      ELSE <<Node(SubSeq(seps, 1, kept), SubSeq(kids, 1, kept + 1)),
             seps[kept + 1],
             Node(SubSeq(seps, kept + 2, Len(seps)), SubSeq(kids, kept + 2, Len(kids)))>>

RECURSIVE Registered(_, _, _, _, _)
Registered(node, level, path, sep, leaf) ==
  IF level = 0 THEN <<node, sep, leaf>>
  ELSE LET child == path[level]
           below == Registered(node.kids[child], level - 1, path, sep, leaf)
           here  == [node EXCEPT !.kids[child] = below[1]]
       IN  IF Len(below) = 1 THEN <<here>>
           ELSE WithChild(here, child, below[2], below[3])

\* insert_in_parent(): a root that splits gets a root above it.
WithLeafIndexed(t, path, sep, leaf) ==
  LET top == Registered(t.root, t.height, path, sep, leaf)
  IN  IF Len(top) = 1 THEN [t EXCEPT !.root = top[1]]
      ELSE [t EXCEPT !.root = Node(<<top[2]>>, <<top[1], top[3]>>), !.height = @ + 1]

\* A slip: the separator taken out is the one behind the child, not before it.
SeparatorBehind(child) == child

\* The separator that goes with a child.
SeparatorOf(child) == IF child = 1 THEN 1 ELSE child - 1

\* remove_child() from a level up: nothing when the node's only child went.
RECURSIVE WithoutChild(_, _, _)
WithoutChild(node, level, path) ==
  LET child == path[level]
      below == IF level = 1 THEN <<>> ELSE WithoutChild(node.kids[child], level - 1, path)
  IN  IF below # <<>> THEN <<[node EXCEPT !.kids[child] = below[1]]>>
      ELSE IF node.seps = <<>> THEN <<>>
      ELSE <<Node(RemoveAt(node.seps, SeparatorOf(child)), RemoveAt(node.kids, child))>>

\* remove_child(): a root that loses a child and keeps one is no root.
RemoveChild(t, path) ==
  LET top == WithoutChild(t.root, t.height, path)
  IN  IF top = <<>> THEN [t EXCEPT !.root = 0, !.height = 0]
      ELSE IF top[1].seps = <<>> /\ t.root.seps # <<>>
      THEN [t EXCEPT !.root = top[1].kids[1], !.height = @ - 1]
      ELSE [t EXCEPT !.root = top[1]]

\* One level of build_levels(): the nodes, evenly filled, over the items of the
\* level below.
LevelOver(items) ==
  LET groups == (Len(items) + InnerKeys) \div (InnerKeys + 1)
      share  == Len(items) \div groups
      extra  == Len(items) % groups
      from(g) == (g - 1) * share + Min({g - 1, extra})
      part(g) == SubSeq(items, from(g) + 1, from(g + 1))
  IN  [g \in 1..groups |->
         [node |-> Node([i \in 1..Len(part(g)) - 1 |-> part(g)[i + 1].lowest],
                        [i \in 1..Len(part(g)) |-> part(g)[i].node]),
          lowest |-> part(g)[1].lowest]]

RECURSIVE Levels(_, _)
Levels(items, height) ==
  IF Len(items) = 1 THEN [root |-> items[1].node, height |-> height]
  ELSE Levels(LevelOver(items), height + 1)

\* build_levels(): the empty last leaf is indexed above everything held.
BuildLevels(t) ==
  LET lowest(p) == IF KeysAt(t, p) = <<>> THEN (IF p = 1 THEN 0 ELSE LastKey(t, p - 1) + 1)
                   ELSE KeysAt(t, p)[1]
      built == Levels([p \in 1..Tail_(t) |-> [node |-> p, lowest |-> lowest(p)]], 0)
  IN  [t EXCEPT !.root = built.root, !.height = built.height, !.dir = NoDirectory]
=============================================================================
