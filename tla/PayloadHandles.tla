--------------------------- MODULE PayloadHandles ---------------------------
(***************************************************************************)
(* The storage of single containers (container_handle.hpp): a handle is a  *)
(* header (kind, counts, endpoints, owner, flags) and a payload that lies  *)
(* in the handle itself, in a block of the heap, or in memory of somebody  *)
(* else that is only read (a frozen image, or the block of another handle  *)
(* that promised to leave it alone).  A block is shared by counting where  *)
(* the policy counts (CowPolicy::refcounted) and copied otherwise.         *)
(*                                                                         *)
(* What a payload holds is the set of its values; the loops that compute   *)
(* those sets are the subject of RunBatch, RunKernels and ArrayPasses. An*)
(* operation is written as the code runs it, step by step over a world:    *)
(* the handles, the heap, and how many allocations still succeed.  The     *)
(* step that is refused one throws, and what came before it stays done.    *)
(***************************************************************************)
EXTENDS Integers, FiniteSets, FiniteSetsExt

CONSTANTS
  Handles,       \* the handles of the program
  Blocks,        \* the addresses of the heap
  Images,        \* the addresses of the payloads of a mapped image
  ImageKind,     \* the kind of container each of them is
  ImageValues,   \* and the values it holds
  LastValue,     \* the last value of the domain: low_domain_size - 1
  WordCount,     \* Layout::word_count
  InlineValues,  \* inline_capacity of an array
  InlineRuns,    \* inline_capacity of runs
  Batches,       \* the groups of values the program hands in at once
  Prefix         \* rc_prefix_bytes of a counted block, in elements

Values == 0..LastValue
Inline == 0       \* the place of a payload that lies in its handle
Nothing == << >>  \* the endpoints while they are stale, or of no values

ASSUME PlacesAssumption ==
  /\ IsFiniteSet(Handles) /\ IsFiniteSet(Blocks)
  /\ Blocks \subseteq Nat \ {0} /\ Images \subseteq Nat \ {0} /\ Images \cap Blocks = {}
  /\ ImageKind \in [Images -> {"array", "run", "bitset"}]
  /\ ImageValues \in [Images -> (SUBSET (0..LastValue)) \ {{}}]
\* The heap is not what refuses an allocation: a call keeps one block more than
\* the handles hold.
ASSUME RoomAssumption == Cardinality(Handles) < Cardinality(Blocks)
ASSUME SizesAssumption ==
  /\ LastValue \in Nat /\ WordCount \in Nat \ {0}
  /\ InlineValues \in Nat \ {0} /\ InlineRuns \in Nat \ {0}
  /\ Prefix \in Nat /\ Batches \subseteq (SUBSET (0..LastValue)) \ {{}}

VARIABLES
  counted,  \* CowPolicy::refcounted: the policy of the build
  handle,   \* the handles
  block,    \* the heap
  mapping,  \* what the image holds: nobody may write it
  held      \* the values the calls should have left in each handle

vars == <<counted, handle, block, mapping, held>>

RunsOf(S) == {v \in S : v - 1 \notin S}
CountOf(kind, S) ==
  CASE kind = "array" -> Cardinality(S)
    [] kind = "run" -> Cardinality(RunsOf(S))
    [] kind = "bitset" -> WordCount
InlineCapacity(kind) ==
  CASE kind = "array" -> InlineValues [] kind = "run" -> InlineRuns [] kind = "bitset" -> 0

\* An empty inline array; here are the values that lie in the handle itself,
\* ends the endpoints, or nothing while they are stale or there are none.
Empty == [kind |-> "array", count |-> 0, card |-> 0, exact |-> TRUE, ends |-> Nothing,
          owner |-> "unique", at |-> Inline, capacity |-> InlineValues, here |-> {}]
Free == [live |-> FALSE, rc |-> 0, bytes |-> 0, values |-> {}]
Ends(S) == <<Min(S), Max(S)>>

\* The world an operation runs in.
World(refusedAfter) ==
  [h |-> handle, b |-> block, m |-> mapping, left |-> refusedAfter, thrown |-> FALSE]
Spilled(w, h) == w.h[h].at # Inline
Held(w, h) ==
  CASE w.h[h].at = Inline -> w.h[h].here
    [] w.h[h].at \in Blocks -> w.b[w.h[h].at].values
    [] w.h[h].at \in Images -> w.m[w.h[h].at]

Set(w, h, field, value) == [w EXCEPT !.h[h][field] = value]
SetEnds(w, h, ends) == Set(w, h, "ends", ends)
SetCount(w, h, n) == Set(w, h, "count", n)
SetCardinality(w, h, n) == [w EXCEPT !.h[h].card = n, !.h[h].exact = TRUE]
Adjust(w, h, delta) == [w EXCEPT !.h[h].card = @ + delta]
\* Writes the values where the payload is, whoever else may read them there.
Put(w, h, S) ==
  CASE w.h[h].at = Inline -> Set(w, h, "here", S)
    [] w.h[h].at \in Blocks -> [w EXCEPT !.b[w.h[h].at].values = S]
    [] w.h[h].at \in Images -> [w EXCEPT !.m[w.h[h].at] = S]

(***************************************************************************)
(* The heap.                                                               *)
(***************************************************************************)
FreeBlocks(w) == {b \in Blocks : ~w.b[b].live}
Fresh(w) == Min(FreeBlocks(w))
\* A block is born with a count of one, and remembers the size it was given.
Allocated(w, bytes) ==
  IF w.left = 0 THEN [w EXCEPT !.thrown = TRUE]
  ELSE [w EXCEPT !.left = @ - 1,
                 !.b[Fresh(w)] = [live |-> TRUE, rc |-> 1, bytes |-> bytes, values |-> {}]]
\* A block is freed with the size its holder computes from its capacity.
Freed(w, b) == [w EXCEPT !.b[b] = Free]
SpillTo(w, h, b, capacity) ==
  [w EXCEPT !.h[h] = [@ EXCEPT !.at = b, !.capacity = capacity, !.here = {},
                               !.owner = IF counted THEN "shared" ELSE "unique"]]
LetGo(w, b) == IF w.b[b].rc = 1 THEN Freed(w, b) ELSE [w EXCEPT !.b[b].rc = @ - 1]
Release(w, h) ==
  IF ~Spilled(w, h) \/ w.h[h].owner = "borrowed" THEN w
  ELSE IF counted /\ w.h[h].owner = "shared" THEN LetGo(w, w.h[h].at)
  ELSE Freed(w, w.h[h].at)

(***************************************************************************)
(* The write barrier: what makes a payload private before it is written.   *)
(***************************************************************************)
Unshared(w, h) ==
  /\ w.h[h].owner # "borrowed"
  /\ counted /\ Spilled(w, h) => w.b[w.h[h].at].rc = 1
\* A slip: the copy gets a block of the size its values need.
CloneSharedTight(w, h) ==
  LET got == Allocated(w, w.h[h].count)
      copied == [got EXCEPT !.b[Fresh(w)].values = Held(w, h)]
  IN IF got.thrown THEN got
     ELSE [LetGo(copied, w.h[h].at) EXCEPT !.h[h].at = Fresh(w)]
\* The payload of a copy keeps its capacity.
CloneShared(w, h) ==
  LET got == Allocated(w, w.h[h].capacity)
      copied == [got EXCEPT !.b[Fresh(w)].values = Held(w, h)]
  IN IF got.thrown THEN got
     ELSE [LetGo(copied, w.h[h].at) EXCEPT !.h[h].at = Fresh(w)]
\* Small borrowed payloads come to lie in the handle, the others in a block
\* of exactly their size.  Without counts a refused allocation ends the
\* program here, so none is refused that is followed by a step.
CloneBorrowed(w, h) ==
  LET S == Held(w, h)
      n == w.h[h].count
      got == Allocated(IF counted THEN w ELSE [w EXCEPT !.left = @ + 1], n)
  IN IF n <= InlineCapacity(w.h[h].kind)
     THEN [w EXCEPT !.h[h] = [@ EXCEPT !.at = Inline, !.owner = "unique", !.here = S,
                                       !.capacity = InlineCapacity(w.h[h].kind)]]
     ELSE IF got.thrown THEN got
     ELSE Put(SpillTo(got, h, Fresh(w), n), h, S)
\* A slip: a shared payload is taken for the handle's own.
MakeUniqueIfBorrowed(w, h) ==
  IF w.h[h].owner = "borrowed" THEN CloneBorrowed(w, h) ELSE w
\* A slip: without counts there is nothing to make private.
MakeUniqueIfCounted(w, h) ==
  IF Unshared(w, h) \/ ~counted THEN w
  ELSE IF w.h[h].owner = "borrowed" THEN CloneBorrowed(w, h)
  ELSE CloneShared(w, h)
MakeUnique(w, h) ==
  IF w.h[h].owner = "borrowed" THEN CloneBorrowed(w, h)
  ELSE IF Unshared(w, h) THEN w
  ELSE CloneShared(w, h)

Grown(w, h, required) ==
  LET capacity == Max({required, 2 * w.h[h].capacity})
      got == Allocated(w, capacity)
  IN IF got.thrown THEN got
     ELSE Put(SpillTo(Release(got, h), h, Fresh(w), capacity), h, Held(w, h))
Ensure(w, h, required) ==
  IF w.thrown \/ required <= w.h[h].capacity THEN w ELSE Grown(w, h, required)
\* The payload gives its slack back, when that at least halves the block.
Shrunk(w, h) ==
  LET n == w.h[h].count
      prefix == IF counted THEN Prefix ELSE 0
      got == Allocated(w, n)
  IN IF \/ ~Spilled(w, h) \/ n = 0 \/ ~Unshared(w, h) \/ n >= w.h[h].capacity
        \/ 2 * (prefix + n) > prefix + w.h[h].capacity
        \/ got.thrown
     THEN w
     ELSE Put(SpillTo(Freed(got, w.h[h].at), h, Fresh(w), n), h, Held(w, h))

(***************************************************************************)
(* The payload vectors and the header that goes with them.                 *)
(***************************************************************************)
\* Writes the values with the count they take.
Assign(w, h, S) == SetCount(Put(w, h, S), h, CountOf(w.h[h].kind, S))
\* array_ref and run_ref: both sync the header from the payload.
SyncHeader(w, h) ==
  LET S == Held(w, h)
      counts == SetCardinality(w, h, Cardinality(S))
  IN IF S = {} THEN counts ELSE SetEnds(counts, h, Ends(S))
Written(w, h, S) == IF w.thrown THEN w ELSE SyncHeader(Assign(w, h, S), h)

ArrayAdd(w, h, v) ==
  LET S == Held(w, h)
      n == w.h[h].count
      put == Assign(Ensure(w, h, n + 1), h, S \cup {v})
  IN IF v \in S THEN w
     ELSE IF Ensure(w, h, n + 1).thrown THEN Ensure(w, h, n + 1)
     ELSE IF S # {} /\ \A u \in S : u < v    \* appended: the lower end stays
     THEN SetEnds(SetCardinality(put, h, n + 1), h, <<w.h[h].ends[1], v>>)
     ELSE SyncHeader(put, h)
\* Room is made for every value handed in, those already there included.
ArrayAddAll(w, h, T) ==
  IF T = {} THEN w
  ELSE Written(Ensure(w, h, w.h[h].count + Cardinality(T)), h, Held(w, h) \cup T)
ArrayRemoveAll(w, h, T) ==
  IF T \cap Held(w, h) = {} THEN w ELSE Written(w, h, Held(w, h) \ T)

\* Runs are rebuilt beside the payload and assigned.
RunAssign(w, h, S) == Written(Ensure(w, h, Cardinality(RunsOf(S))), h, S)
RunAdd(w, h, v) == RunAssign(w, h, Held(w, h) \cup {v})
RunRemoveAll(w, h, T) == IF w.h[h].count = 0 THEN w ELSE RunAssign(w, h, Held(w, h) \ T)
Group(T, first) == {u \in T : u >= first /\ first..u \subseteq T}
\* The group of values goes into runs without the barrier: a payload that is
\* not the handle's own is only read, and the result gets a block of its own.
RunAddAll(w, h, T) ==
  LET S == Held(w, h)
      n == w.h[h].count
      opened == Cardinality({g \in RunsOf(T) : ~(Group(T, g) \subseteq S)})
      fits == n + opened <= w.h[h].capacity
      capacity == IF fits THEN w.h[h].capacity ELSE Max({n + opened, 2 * w.h[h].capacity})
      got == Allocated(w, capacity)
      home == IF fits /\ Unshared(w, h) THEN w
              ELSE IF got.thrown THEN got
              ELSE SpillTo(Release(got, h), h, Fresh(w), capacity)
      added == Cardinality(T \ S)
  IN IF opened = 0 THEN w
     ELSE IF home.thrown THEN home
     ELSE SetEnds(Adjust(Assign(home, h, S \cup T), h, added), h, Ends(S \cup T))

\* Only bitsets keep stale counts and endpoints; settling counts the words.
Settled(w, h) ==
  IF w.h[h].exact THEN w ELSE SetCardinality(w, h, Cardinality(Held(w, h)))
BitsetAdd(w, h, v) ==
  IF v \in Held(w, h) THEN w
  ELSE SetEnds(Adjust(Put(w, h, Held(w, h) \cup {v}), h, 1), h, Nothing)
BitsetAddAll(w, h, T) ==
  LET S == Held(w, h)
      put == Adjust(Put(w, h, S \cup T), h, Cardinality(T \ S))
      ends == w.h[h].ends
  IN IF T \subseteq S THEN w
     ELSE IF w.h[h].exact /\ w.h[h].card = 0 THEN SetEnds(put, h, Ends(T))
     ELSE IF ends = Nothing THEN put
     ELSE SetEnds(put, h, <<Min({ends[1], Min(T)}), Max({ends[2], Max(T)})>>)
BitsetRemoved(w, h, T) ==
  LET gone == T \cap Held(w, h)
      ends == w.h[h].ends
      less == Adjust(Put(w, h, Held(w, h) \ T), h, -Cardinality(gone))
  IN IF gone = {} THEN w
     ELSE IF ends # Nothing /\ (Min(T) <= ends[1] \/ Max(T) >= ends[2])
     THEN SetEnds(less, h, Nothing) ELSE less
BitsetRemove(w, h, v) == IF v \in Held(w, h) THEN BitsetRemoved(Settled(w, h), h, {v}) ELSE w
\* A slip: the stale count is lowered as if it were exact.
BitsetRemoveAllUnsettled(w, h, T) == BitsetRemoved(w, h, T)
BitsetRemoveAll(w, h, T) == BitsetRemoved(Settled(w, h), h, T)

(***************************************************************************)
(* The operations.                                                         *)
(***************************************************************************)
\* container_add, container_remove and their group forms by the kind held.
ContainerAdd(w, h, v) ==
  IF w.thrown THEN w
  ELSE CASE w.h[h].kind = "array" -> ArrayAdd(w, h, v)
         [] w.h[h].kind = "run" -> RunAdd(w, h, v)
         [] w.h[h].kind = "bitset" -> BitsetAdd(w, h, v)
ContainerRemove(w, h, v) ==
  IF w.thrown THEN w
  ELSE CASE w.h[h].kind = "array" -> ArrayRemoveAll(w, h, {v})
         [] w.h[h].kind = "run" -> RunRemoveAll(w, h, {v})
         [] w.h[h].kind = "bitset" -> BitsetRemove(w, h, v)
ContainerAddAll(w, h, T) ==
  IF w.h[h].kind = "run" THEN RunAddAll(w, h, T)
  ELSE IF MakeUnique(w, h).thrown THEN MakeUnique(w, h)
  ELSE IF w.h[h].kind = "array" THEN ArrayAddAll(MakeUnique(w, h), h, T)
  ELSE BitsetAddAll(MakeUnique(w, h), h, T)

\* The kernels of a lazy fold leave the count of a bitset to its repair.
LazyUnion(w, h, T) ==
  [SetEnds(Put(w, h, Held(w, h) \cup T), h, Nothing) EXCEPT !.h[h].exact = FALSE]
LazyXor(w, h, T) ==
  [SetEnds(Put(w, h, SymDiff(Held(w, h), T)), h, Nothing) EXCEPT
     !.h[h].exact = FALSE, !.h[h].card = 0]
\* Reading an endpoint computes both where they are stale; the words of a
\* bitset in the middle of a fold may all be zero.
EnsureEnds(w, h) ==
  IF w.h[h].ends # Nothing \/ (w.h[h].exact /\ w.h[h].card = 0) THEN w
  ELSE SetEnds(w, h, IF Held(w, h) = {} THEN <<0, 0>> ELSE Ends(Held(w, h)))

\* The payload the handle has is filled anew, when it may be overwritten.
OffersReusable(w, h, kind) ==
  /\ Spilled(w, h) /\ w.h[h].kind = kind
  /\ \/ w.h[h].owner = "unique"
     \/ w.h[h].owner = "shared" /\ counted /\ w.b[w.h[h].at].rc = 1
ReusedArray(w, h, S) ==
  LET reset == [w EXCEPT !.h[h].count = 0, !.h[h].card = 0, !.h[h].exact = TRUE]
  IN Written(Ensure(Put(reset, h, {}), h, Cardinality(S)), h, S)
ReusedBitset(w, h, S) ==
  SetEnds(SetCardinality(Put(w, h, S), h, Cardinality(S)), h, Nothing)

\* The factories: an array or runs grow from the empty handle, a bitset is a
\* block of words from the start.
Reset(w, h) == [w EXCEPT !.h[h] = Empty]
MadeArray(w, h, S) == Written(Ensure(Reset(w, h), h, Cardinality(S)), h, S)
MadeRun(w, h, S) ==
  LET run == [Reset(w, h) EXCEPT !.h[h].kind = "run", !.h[h].capacity = InlineRuns]
  IN Written(Ensure(run, h, Cardinality(RunsOf(S))), h, S)
MadeBitset(w, h, S) ==
  LET words == [Reset(w, h) EXCEPT !.h[h].kind = "bitset", !.h[h].count = WordCount]
      got == Allocated(words, WordCount)
  IN IF got.thrown THEN got
     ELSE SetCardinality(Put(SpillTo(got, h, Fresh(w), WordCount), h, S), h, Cardinality(S))
Made(w, h, kind, S) ==
  CASE kind = "array" -> MadeArray(w, h, S)
    [] kind = "run" -> MadeRun(w, h, S)
    [] kind = "bitset" -> MadeBitset(w, h, S)
\* A handle on a payload of the image: the endpoints of a bitset are left for
\* the first read.
Borrowed(w, h, image) ==
  LET S == w.m[image]
      n == CountOf(ImageKind[image], S)
  IN [w EXCEPT !.h[h] =
       [kind |-> ImageKind[image], count |-> n, card |-> Cardinality(S), exact |-> TRUE,
        ends |-> IF ImageKind[image] = "bitset" THEN Nothing ELSE Ends(S),
        owner |-> "borrowed", at |-> image, capacity |-> n, here |-> {}]]
\* A handle on the block of another, which it aliases without being counted.
Aliased(w, g, h) ==
  [w EXCEPT !.h[g] = IF Spilled(w, h)
                     THEN [w.h[h] EXCEPT !.owner = "borrowed", !.capacity = w.h[h].count]
                     ELSE w.h[h]]
\* A copy: a borrowed payload stays borrowed, a counted one is shared, any
\* other is copied into a block of the same capacity.
Cloned(w, g, h) ==
  LET same == [w EXCEPT !.h[g] = w.h[h]]
      got == Allocated(w, w.h[h].capacity)
  IN IF ~Spilled(w, h) \/ w.h[h].owner = "borrowed" THEN same
     ELSE IF counted THEN [same EXCEPT !.b[w.h[h].at].rc = @ + 1]
     ELSE IF got.thrown THEN got
     ELSE [got EXCEPT !.h[g] = [w.h[h] EXCEPT !.at = Fresh(w), !.owner = "unique"],
                      !.b[Fresh(w)].values = Held(w, h)]
\* A handle takes over the payload of another, which is left empty.
Moved(w, g, h) == LET r == Release(w, g) IN [r EXCEPT !.h[g] = r.h[h], !.h[h] = Empty]

(***************************************************************************)
(* What the program may do.                                                *)
(***************************************************************************)
Init ==
  /\ counted \in BOOLEAN
  /\ handle = [h \in Handles |-> Empty]
  /\ block = [b \in Blocks |-> Free]
  /\ mapping = ImageValues
  /\ held = [h \in Handles |-> {}]

\* How many allocations of a call on h succeed: the barrier asks for one, and
\* the growth after it for another.
Refusals(h) == IF Unshared(World(0), h) THEN {0, 2} ELSE 0..2
Finish(w) ==
  /\ handle' = w.h /\ block' = w.b /\ mapping' = w.m
  /\ UNCHANGED counted
\* The call leaves S in h, or what h held before when an allocation failed.
Leaves(w, h, S) ==
  /\ Finish(w)
  /\ held' = IF w.thrown THEN held ELSE [held EXCEPT ![h] = S]

\* A payload that others alias may not be changed or freed: its owner has
\* promised to keep it (make_borrowed_alias).
MayChange(h) == \A g \in Handles :
  handle[g].owner = "borrowed" /\ handle[g].at \in Blocks /\ handle[g].at = handle[h].at
     => handle[h].owner = "borrowed" \/ ~Unshared(World(0), h)
\* Outside a fold every count is exact.
Exact(h) == handle[h].exact

Make(h, kind, S, n) ==
  /\ handle[h] = Empty
  /\ ~Made(World(n), h, kind, S).thrown    \* nothing is left of one that throws
  /\ Leaves(Made(World(n), h, kind, S), h, S)
Borrow(h, image) ==
  /\ handle[h] = Empty
  /\ Leaves(Borrowed(World(0), h, image), h, mapping[image])
Alias(g, h) ==
  /\ handle[g] = Empty /\ g # h /\ Exact(h)
  /\ Leaves(Aliased(World(0), g, h), g, held[h])
Copy(g, h, n) ==
  /\ handle[g] = Empty /\ g # h
  /\ Leaves(Cloned(World(n), g, h), g, held[h])
Move(g, h) ==
  /\ g # h /\ MayChange(g)
  /\ Finish(Moved(World(0), g, h))
  /\ held' = [held EXCEPT ![g] = held[h], ![h] = {}]
Drop(h) ==
  /\ handle[h] # Empty /\ MayChange(h)
  /\ Leaves(Reset(Release(World(0), h), h), h, {})
Add(h, v, n) ==
  /\ MayChange(h)
  /\ Leaves(ContainerAdd(MakeUnique(World(n), h), h, v), h, held[h] \cup {v})
Remove(h, v, n) ==
  /\ MayChange(h)
  /\ Leaves(ContainerRemove(MakeUnique(World(n), h), h, v), h, held[h] \ {v})
AddAll(h, T, n) ==
  /\ MayChange(h)
  /\ Leaves(ContainerAddAll(World(n), h, T), h, held[h] \cup T)
RemoveAll(h, T, n) ==
  LET w == MakeUnique(World(n), h) IN
  /\ MayChange(h) /\ handle[h].kind # "run"
  /\ Leaves(CASE w.thrown -> w
              [] ~w.thrown /\ w.h[h].kind = "array" -> ArrayRemoveAll(w, h, T)
              [] ~w.thrown /\ w.h[h].kind = "bitset" -> BitsetRemoveAll(w, h, T),
            h, held[h] \ T)
Fold(h, T, n) ==
  LET w == MakeUnique(World(n), h) IN
  /\ MayChange(h) /\ handle[h].kind = "bitset"
  /\ \/ Leaves(IF w.thrown THEN w ELSE LazyUnion(w, h, T), h, held[h] \cup T)
     \/ Leaves(IF w.thrown THEN w ELSE LazyXor(w, h, T), h, SymDiff(held[h], T))
Repair(h) == ~Exact(h) /\ Leaves(Settled(World(0), h), h, held[h])
ReadEnds(h) == Leaves(EnsureEnds(World(0), h), h, held[h])
Shrink(h, n) ==
  /\ MayChange(h) /\ handle[h].kind # "bitset"
  /\ Leaves(Shrunk(World(n), h), h, held[h])
Reuse(h, S, n) ==
  /\ MayChange(h)
  /\ \/ /\ OffersReusable(World(n), h, "array")
        /\ LET w == ReusedArray(World(n), h, S) IN
             IF ~w.thrown THEN Leaves(w, h, S)
             ELSE Leaves(Reset(Release(World(n), h), h), h, {})
     \/ /\ OffersReusable(World(n), h, "bitset")
        /\ Leaves(ReusedBitset(World(n), h, S), h, S)

Next == \E h \in Handles :
  \/ Drop(h) \/ Repair(h) \/ ReadEnds(h)
  \/ \E image \in Images : Borrow(h, image)
  \/ \E g \in Handles : Alias(g, h) \/ Move(g, h)
  \/ \E n \in Refusals(h) :
        \/ Shrink(h, n)
        \/ \E g \in Handles : Copy(g, h, n)
        \/ \E v \in Values : Add(h, v, n) \/ Remove(h, v, n)
        \/ \E S \in Batches :
              \/ AddAll(h, S, n) \/ RemoveAll(h, S, n) \/ Fold(h, S, n) \/ Reuse(h, S, n)
              \/ \E kind \in {"array", "run", "bitset"} : Make(h, kind, S, n)

Spec == Init /\ [][Next]_vars

-----------------------------------------------------------------------------
(***************************************************************************)
(* What a container handle must never get wrong, whatever sequence of      *)
(* copies, writes, folds and refused allocations it went through.          *)
(***************************************************************************)
Contents(h) == Held(World(0), h)
Holders(b) == {h \in Handles : handle[h].at = b /\ handle[h].owner # "borrowed"}

\* Every handle holds the values its own calls left in it: a write through
\* one handle never shows in another that shares or aliases the payload, and
\* a call an allocation failed leaves the values as they were
\* (container_handle.hpp:249-259).
HandlesHoldTheirValues == \A h \in Handles : Contents(h) = held[h]

\* The header can be trusted without the payload: the count of elements, the
\* cardinality unless it is stale, and then it is not above the true one; the
\* endpoints, unless they are stale, leave no value outside, and those of an
\* array or of runs are values themselves (container_handle.hpp:216-245).  A
\* bitset whose endpoints were read after a fold emptied it keeps 0 as its
\* lower one, which rejects nothing it holds.
HeaderTellsPayload == \A h \in Handles :
  LET S == Contents(h)
      ends == handle[h].ends
  IN
  /\ handle[h].count = CountOf(handle[h].kind, S)
  /\ handle[h].card \in 0..Cardinality(S)
  /\ handle[h].exact => handle[h].card = Cardinality(S)
  /\ ends # Nothing => \A v \in S : ends[1] <= v /\ v <= ends[2]
  /\ handle[h].kind # "bitset" /\ S # {} => handle[h].exact /\ ends = Ends(S)

\* Every block is held by exactly the handles its count names, is freed with
\* the last, and is as large as its holders believe; the values fit it
\* (container_handle.hpp:632-640, 725, 752-815).
BlocksAreAccounted ==
  /\ \A b \in Blocks :
       /\ block[b].live <=> Holders(b) # {}
       /\ block[b].live => block[b].rc = (IF counted THEN Cardinality(Holders(b)) ELSE 1)
       /\ ~counted => Cardinality(Holders(b)) <= 1
       /\ \A h \in Holders(b) : handle[h].capacity = block[b].bytes
  /\ \A h \in Handles :
       /\ handle[h].count <= handle[h].capacity
       /\ handle[h].at = Inline => handle[h].owner = "unique"
       /\ counted /\ handle[h].owner = "unique" => handle[h].at = Inline
       /\ handle[h].at \in Blocks => block[handle[h].at].live

\* The image is never written: a borrowed payload is cloned before the first
\* write through any handle on it (container_handle.hpp:306-314, 817-840).
ImageIsOnlyRead == [][mapping' = mapping]_vars

(***************************************************************************)
(* What makes them inductive: only a bitset is ever counted late, only a   *)
(* borrowed handle is on a payload of the image, and the image is as it    *)
(* was mapped.                                                             *)
(***************************************************************************)
Endpoints == {Nothing} \cup (Int \X Int)
Header == [kind : {"array", "run", "bitset"}, count : Nat, card : Int, exact : BOOLEAN,
           ends : Endpoints, owner : {"unique", "shared", "borrowed"},
           at : {Inline} \cup Blocks \cup Images, capacity : Nat, here : SUBSET Values]
Cell == [live : BOOLEAN, rc : Int, bytes : Nat, values : SUBSET Values]

TypeOK ==
  /\ counted \in BOOLEAN
  /\ handle \in [Handles -> Header] /\ block \in [Blocks -> Cell]
  /\ mapping \in [Images -> SUBSET Values] /\ held \in [Handles -> SUBSET Values]

BorrowsImages == \A h \in Handles : handle[h].at \in Images => handle[h].owner = "borrowed"
LateBitsetsOnly == \A h \in Handles : handle[h].kind # "bitset" => handle[h].exact

ImageIsAsMapped == mapping = ImageValues

IInv == /\ TypeOK /\ BorrowsImages /\ LateBitsetsOnly /\ ImageIsAsMapped
        /\ HandlesHoldTheirValues /\ HeaderTellsPayload /\ BlocksAreAccounted
=============================================================================
