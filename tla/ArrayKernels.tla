---------------------------- MODULE ArrayKernels ----------------------------
(***************************************************************************)
(* The kernels of array_ops.hpp that combine two sorted arrays of distinct *)
(* low values, and the dispatch that picks one by the operation, the place *)
(* of the result, the sizes and the processor.  One step is one iteration  *)
(* of a kernel's loop.                                                     *)
(*                                                                         *)
(* The vector kernels read and store whole vectors, past the values that   *)
(* count; the in-place ones write into the memory they still read from.    *)
(* So the result is a memory of places, the left array lies in the same    *)
(* memory when the result does, and `stored` names the places the last     *)
(* step wrote, those outside the memory included.                          *)
(*                                                                         *)
(* Every kernel works on vectors of one width of its own (8, 16 or 32      *)
(* values), which is Lanes here.                                           *)
(***************************************************************************)
EXTENDS BitsetWords

CONSTANTS
  ArrayLow,     \* the low values the operands are drawn from
  Lanes,        \* the values in a vector
  Four,         \* the values a scalar merge handles at once, 4 in the code
  SkewedRatio   \* kSkewedIntersectRatioThreshold

ASSUME ArrayAssumption ==
  /\ {Lanes, Four, SkewedRatio} \subseteq Nat \ {0, 1}
  /\ ArrayLow \subseteq Low

Processors == {"plain", "neon", "sse42", "vp2", "v4"}

VARIABLES
  kernel,       \* the kernel dispatched to
  op,           \* the set operation
  inPlace,      \* whether the result replaces the left array
  a, b,         \* the operands as the call found them
  memory,       \* the places of the result
  shift,        \* where in `memory` the left array begins, when it is there
  left, right,  \* what the two cursors run over: "a", "b" or "held"
  i, j, k,      \* values read on each side, and values written
  held,         \* what the kernel holds in registers and on its stack
  last,         \* the vector emitted last
  steps,        \* branchless steps left before the next look for a block
  stored,       \* the places the last step stored to
  at            \* where the kernel is

avars == <<kernel, op, inPlace, a, b, memory, shift, left, right, i, j, k,
          held, last, steps, stored, at>>
call == <<kernel, op, inPlace, a, b, shift>>

AtLeast(n, x, y) == x >= n /\ y >= n

Skewed(x, y) == Min({x, y}) * SkewedRatio < Max({x, y})

Vectors(cpu) == cpu \in {"sse42", "vp2", "v4"}

\* combine_array_array_into: a result of its own, no exclusive or.
Into(o, cpu, x, y) ==
  CASE o = "or" -> "union_scalar"
    [] o = "and" ->
         (CASE Skewed(x, y) -> "intersect_skewed"
            [] ~Skewed(x, y) /\ cpu = "vp2" /\ AtLeast(Lanes, x, y) -> "intersect_vp2"
            [] ~Skewed(x, y) /\ cpu \in {"sse42", "v4"} /\ AtLeast(Lanes, x, y) -> "intersect_sse42"
            [] ~Skewed(x, y) /\ cpu = "neon" -> "intersect_neon"
            [] OTHER -> "intersect_scalar")
    [] o = "andnot" -> "difference_scalar"

\* intersect_array_array_inplace.
IntersectionInPlace(cpu, x, y) ==
  CASE Skewed(x, y) -> "intersect_skewed"
    [] ~Skewed(x, y) /\ Vectors(cpu) -> "intersect_inplace_sse42"
    [] ~Skewed(x, y) /\ cpu = "neon" -> "intersect_inplace_neon"
    [] OTHER -> "intersect_scalar"

\* union_array_array_to_vector; union_array_array_inplace chooses alike.
UnionToVector(cpu, x, y, otherwise) ==
  IF cpu = "v4" /\ AtLeast(Lanes, x, y) THEN "union_v4" ELSE otherwise

\* difference_array_array_to_vector.
DifferenceToVector(cpu, x, y) ==
  IF Vectors(cpu) /\ AtLeast(Lanes, x, y) THEN "difference_sse42" ELSE "difference_scalar"

\* xor_array_array_to_vector.
XorToVector(cpu, x, y) ==
  IF Vectors(cpu) /\ AtLeast(Lanes, x, y) THEN "xor_sse42" ELSE "xor_scalar"

KernelFor(o, placing, cpu, x, y) ==
  CASE o = "count" -> IF Vectors(cpu) /\ AtLeast(Lanes, x, y) THEN "count_sse42" ELSE "count_scalar"
    [] o = "xor"   -> XorToVector(cpu, x, y)
    [] o = "and"   -> IF placing = "in place" THEN IntersectionInPlace(cpu, x, y)
                      ELSE Into(o, cpu, x, y)
    [] o = "or"    -> (CASE placing = "into" -> Into(o, cpu, x, y)
                         [] placing = "to vector" -> UnionToVector(cpu, x, y, "union_scalar")
                         [] placing = "in place"  -> UnionToVector(cpu, x, y, "union_backwards"))
    [] o = "andnot" -> IF placing = "to vector" THEN DifferenceToVector(cpu, x, y)
                       ELSE Into(o, cpu, x, y)

\* The slots of the result buffer a kernel asks for.
Room(name, x, y) ==
  CASE name \in {"intersect_skewed", "intersect_scalar"} -> Min({x, y})
    [] name \in {"intersect_vp2", "intersect_sse42", "intersect_neon"} -> Min({x, y}) + Lanes
    [] name = "difference_sse42"  -> x + Lanes
    [] name = "difference_scalar" -> x
    [] name \in {"union_v4", "xor_sse42"} -> x + y + Lanes
    [] name \in {"union_scalar", "union_backwards", "xor_scalar"} -> x + y
    [] name \in {"count_sse42", "count_scalar"} -> 0

Blocks(n) == (n \div Lanes) * Lanes

Comparing == {"intersect_vp2", "intersect_sse42", "intersect_neon", "intersect_inplace_sse42",
              "intersect_inplace_neon", "count_sse42"}

\* Where a kernel begins.
Entry(name, x, y) ==
  CASE name = "intersect_skewed" -> "probe"
    [] name \in {"union_v4", "xor_sse42", "difference_sse42"} -> "first"
    [] name = "union_backwards" -> "backwards"
    [] name \in Comparing -> IF AtLeast(Lanes, x, y) THEN "blocks" ELSE "tail"
    [] name = "count_scalar" -> "tail"
    [] OTHER -> "merge"

\* The left array moved up to make room in front of it: the forward union in place.
Moved(o, name, y) == IF o = "or" /\ name = "union_v4" THEN y ELSE 0

Start(A, B, o, placing, cpu) ==
  LET x == Cardinality(A)
      y == Cardinality(B)
      name == KernelFor(o, placing, cpu, x, y)
      here == placing = "in place" /\ o \notin {"count", "xor"}
      up == IF here THEN Moved(o, name, y) ELSE 0
      size == IF ~here THEN Room(name, x, y) ELSE IF o = "or" THEN x + y ELSE x
  IN /\ kernel = name /\ op = o /\ inPlace = here
     /\ a = Sorted(A) /\ b = Sorted(B)
     /\ shift = up
     /\ memory = [p \in 1 .. size |->
                    IF here /\ p \in up + 1 .. up + x THEN Sorted(A)[p - up] ELSE 0]
     /\ left = IF name = "intersect_skewed" /\ x > y THEN "b" ELSE "a"
     /\ right = IF name = "intersect_skewed" /\ x > y THEN "a" ELSE "b"
     /\ i = IF name = "union_backwards" THEN x ELSE 0
     /\ j = IF name = "union_backwards" THEN y ELSE 0
     /\ k = IF name = "union_backwards" THEN x + y ELSE 0
     /\ held = <<>> /\ last = <<>> /\ steps = 0 /\ stored = {}
     /\ at = Entry(name, x, y)

AInit == \E A, B \in SUBSET ArrayLow, o \in {"and", "or", "andnot", "xor", "count"},
           placing \in {"in place", "to vector", "into"}, cpu \in Processors :
          Start(A, B, o, placing, cpu)

-----------------------------------------------------------------------------
\* Reading: the left array may lie in the memory being written.
Size(side) == CASE side = "a" -> Len(a) [] side = "b" -> Len(b) [] side = "held" -> Len(held)

Value(side, n) ==
  CASE side = "a"    -> IF inPlace THEN memory[shift + n] ELSE a[n]
    [] side = "b"    -> b[n]
    [] side = "held" -> held[n]

Values(side, from, to) == [n \in 1 .. to - from |-> Value(side, from + n)]
Vector(side, from)     == Values(side, from, from + Lanes)
Rest(side, from)       == Values(side, from, Size(side))

\* Writing `s` from place p + 1 on; a vector's unused lanes are zero.
Store(p, s) ==
  /\ memory' = [q \in DOMAIN memory |-> IF q \in p + 1 .. p + Len(s) THEN s[q - p] ELSE memory[q]]
  /\ stored' = p + 1 .. p + Len(s)

StoreNothing == stored' = {} /\ UNCHANGED memory

Whole(s) == [n \in 1 .. Lanes |-> IF n <= Len(s) THEN s[n] ELSE 0]

\* PCMPESTRM and PCMPISTRM, "equal any": the lanes of v that some lane of w
\* equals; the implicit-length form ends each vector before its first zero.
EqualAny(v, w) == SelectSeq(v, LAMBDA x : Contains(w, x))

BeforeZero(v) == IF Contains(v, 0) THEN SubSeq(v, 1, SelectInSeq(v, LAMBDA x : x = 0) - 1) ELSE v

\* A slip: the implicit-length form, whatever the blocks begin with.
MatchesImplicit(v, w) == EqualAny(BeforeZero(v), BeforeZero(w))

\* A sorted array holds a zero first or nowhere: while a block begins with
\* one, the explicit-length form is used.
Matches(v, w) ==
  IF v[1] = 0 \/ w[1] = 0 THEN EqualAny(v, w) ELSE EqualAny(BeforeZero(v), BeforeZero(w))

-----------------------------------------------------------------------------
(***************************************************************************)
(* The intersections by vectors: a block of each side is compared, and the *)
(* side whose block ends first moves on, or both.                          *)
(***************************************************************************)
Goto(next) == at' = next

\* The block compares: where the two cursors go.
PassBlocks(endA, endB) ==
  LET amax == Value("a", i + Lanes)
      bmax == Value("b", j + Lanes)
      aDone == amax <= bmax /\ i + Lanes = endA /\ kernel # "intersect_vp2"
  IN /\ i' = IF amax <= bmax THEN i + Lanes ELSE i
     /\ j' = IF bmax <= amax /\ ~aDone THEN j + Lanes ELSE j

BlocksLeft(endA, endB, after) == at' = IF i' < endA /\ j' < endB THEN "blocks" ELSE after

BlockA == Vector("a", i)
BlockB == Vector("b", j)

\* The block compare of a kernel, and where it goes on when a side has none left.
CompareBlocks(name, after) ==
  /\ at = "blocks" /\ kernel = name
  /\ PassBlocks(Blocks(Len(a)), Blocks(Len(b)))
  /\ BlocksLeft(Blocks(Len(a)), Blocks(Len(b)), after)
  /\ UNCHANGED <<call, left, right, last, steps>>

StoreMatches(hits) == Store(k, Whole(hits)) /\ k' = k + Len(hits) /\ UNCHANGED held

\* A slip: the matches are stored as they are found.
StageMatchesAtOnce(hits) == StoreMatches(hits)

\* In place the matches are staged, and stored once the left cursor has passed
\* the block.
StageMatches(hits) ==
  IF i' # i THEN Store(k, Whole(held \o hits)) /\ k' = k + Len(held \o hits) /\ held' = <<>>
  ELSE StoreNothing /\ UNCHANGED k /\ held' = held \o hits

IntersectSse42 == CompareBlocks("intersect_sse42", "tail") /\ StoreMatches(Matches(BlockA, BlockB))

\* Neither compares by strings, so a zero is a value like any other.
IntersectNeon == CompareBlocks("intersect_neon", "tail") /\ StoreMatches(EqualAny(BlockA, BlockB))
IntersectVp2  == CompareBlocks("intersect_vp2", "tail") /\ StoreMatches(EqualAny(BlockA, BlockB))

InPlaceSse42 ==
  CompareBlocks("intersect_inplace_sse42", "drain") /\ StageMatches(Matches(BlockA, BlockB))

InPlaceNeon ==
  CompareBlocks("intersect_inplace_neon", "drain") /\ StageMatches(EqualAny(BlockA, BlockB))

CountSse42 ==
  /\ CompareBlocks("count_sse42", "tail")
  /\ StoreNothing /\ k' = k + Len(Matches(BlockA, BlockB)) /\ UNCHANGED held

\* What is still staged, and the values of the block it came from.
Drain ==
  /\ at = "drain"
  /\ Store(k, held)
  /\ k' = k + Len(held)
  /\ i' = i + Len(held)
  /\ held' = <<>>
  /\ Goto("tail")
  /\ UNCHANGED <<call, left, right, j, last, steps>>

-----------------------------------------------------------------------------
(***************************************************************************)
(* difference_array_array_sse42.  The marks (`held`, the values of the     *)
(* current block found in b) add up while b moves under the block.         *)
(***************************************************************************)
\* The blocks begin after a zero, which is settled first: the comparison is
\* the implicit-length one throughout.
Past0(s) == IF s[1] = 0 THEN 1 ELSE 0
VectorsEnd(s) == Past0(s) + Blocks(Len(s) - Past0(s))

SettleZero ==
  /\ at = "first" /\ op = "andnot"
  /\ i' = Past0(a) /\ j' = Past0(b)
  /\ IF a[1] = 0 /\ b[1] # 0 THEN Store(k, <<0>>) /\ k' = k + 1
                              ELSE StoreNothing /\ UNCHANGED k
  /\ BlocksLeft(VectorsEnd(a), VectorsEnd(b), "tail")
  /\ UNCHANGED <<call, left, right, held, last, steps>>

Unmarked(v, marks) == SelectSeq(v, LAMBDA x : ~Contains(marks, x))

SubtractBlocks ==
  LET v == Vector("a", i)
      w == Vector("b", j)
      marks == held \o EqualAny(BeforeZero(v), BeforeZero(w))
  IN /\ at = "blocks" /\ op = "andnot"
     /\ PassBlocks(VectorsEnd(a), VectorsEnd(b))
     /\ BlocksLeft(VectorsEnd(a), VectorsEnd(b),
                   IF i' < VectorsEnd(a) THEN "partial" ELSE "tail")
     /\ IF i' # i
        THEN /\ Store(k, Whole(Unmarked(v, marks)))
             /\ k' = k + Len(Unmarked(v, marks))
             /\ held' = <<>>
        ELSE StoreNothing /\ UNCHANGED k /\ held' = marks
     /\ UNCHANGED <<call, left, right, last, steps>>

\* b's blocks ran out under a block of a: it is finished against b's rest.
SubtractPartial ==
  LET kept == Unmarked(Vector("a", i), held \o EqualAny(Vector("a", i), Rest("b", j)))
  IN /\ at = "partial"
     /\ Store(k, Whole(kept)) /\ k' = k + Len(kept)
     /\ i' = i + Lanes /\ held' = <<>> /\ Goto("tail")
     /\ UNCHANGED <<call, left, right, j, last, steps>>

-----------------------------------------------------------------------------
(***************************************************************************)
(* The scalar tails of the vector kernels: one comparison a step, a store  *)
(* only for a value that is kept.                                          *)
(***************************************************************************)
BothLeft == i < Size(left) /\ j < Size(right)

Advance(x, y) ==
  /\ i' = IF x <= y THEN i + 1 ELSE i
  /\ j' = IF y <= x THEN j + 1 ELSE j

TailStep ==
  LET x == Value("a", i + 1)
      y == Value("b", j + 1)
      hit == IF op = "andnot" THEN x < y ELSE x = y
  IN /\ at = "tail" /\ BothLeft
     /\ Advance(x, y)
     /\ IF hit /\ op # "count" THEN Store(k, <<x>>) ELSE StoreNothing
     /\ k' = IF hit THEN k + 1 ELSE k
     /\ UNCHANGED <<call, left, right, held, last, steps, at>>

-----------------------------------------------------------------------------
(***************************************************************************)
(* The scalar merges: intersect_, union_, difference_ and xor_sorted_scalar.*)
(***************************************************************************)
\* With a block left on each side, one of three is taken or passed at once.
BlockOnEachSide == steps = 0 /\ i + Four <= Size(left) /\ j + Four <= Size(right)

LeftBelow    == Value(left, i + Four) < Value(right, j + 1)
RightBelow   == Value(right, j + Four) < Value(left, i + 1)
EqualBlocks4 == Values(left, i, i + Four) = Values(right, j, j + Four)

Taken(s, kept) ==
  IF kept THEN Store(k, s) /\ k' = k + Len(s) ELSE StoreNothing /\ UNCHANGED k

MergeBlock ==
  /\ at = "merge" /\ BlockOnEachSide
  /\ CASE LeftBelow ->
            /\ Taken(Values(left, i, i + Four), op # "and")
            /\ i' = i + Four /\ UNCHANGED <<j, steps>>
       [] ~LeftBelow /\ RightBelow ->
            /\ Taken(Values(right, j, j + Four), op \in {"or", "xor"})
            /\ j' = j + Four /\ UNCHANGED <<i, steps>>
       [] ~LeftBelow /\ ~RightBelow /\ EqualBlocks4 ->
            /\ Taken(Values(left, i, i + Four), op \in {"and", "or"})
            /\ i' = i + Four /\ j' = j + Four /\ UNCHANGED steps
       [] OTHER -> StoreNothing /\ steps' = Four /\ UNCHANGED <<i, j, k>>
  /\ UNCHANGED <<call, left, right, held, last, at>>

\* Whether the least of the two values compared is in the result.
Kept(x, y) ==
  CASE op = "and" -> x = y [] op = "or" -> TRUE [] op = "andnot" -> x < y [] op = "xor" -> x # y

\* A branchless step stores always, and counts the value only if it is kept.
MergeOne ==
  LET x == Value(left, i + 1)
      y == Value(right, j + 1)
  IN /\ at = "merge" /\ BothLeft /\ (steps > 0 \/ ~BlockOnEachSide)
     /\ Store(k, <<IF op \in {"or", "xor"} THEN Min({x, y}) ELSE x>>)
     /\ k' = IF Kept(x, y) THEN k + 1 ELSE k
     /\ Advance(x, y)
     /\ steps' = IF steps > 0 THEN steps - 1 ELSE 0
     /\ UNCHANGED <<call, left, right, held, last, at>>

\* One side has ended: what is left of the other follows, where it is kept.
CopyRest ==
  LET rest == (IF op \in {"or", "xor", "andnot"} THEN Rest(left, i) ELSE <<>>)
                \o (IF op \in {"or", "xor"} THEN Rest(right, j) ELSE <<>>)
  IN /\ at \in {"merge", "tail"} /\ ~BothLeft
     /\ Store(k, rest)
     /\ k' = k + Len(rest)
     /\ i' = Size(left) /\ j' = Size(right)
     /\ Goto("done")
     /\ UNCHANGED <<call, left, right, held, last, steps>>

-----------------------------------------------------------------------------
(***************************************************************************)
(* intersect_array_array_skewed_into: the values of the small side (`i`)   *)
(* are searched in what is left of the large one (from `j` on), four at a  *)
(* time, then one at a time.                                               *)
(***************************************************************************)
Window == Size(right) - j

\* binary_search_4way, one of its chains: the base moves up by halves.
HalvingSearch(key) ==
  LET base[n \in 1 .. Window, from \in 0 .. Window] ==
        IF n = 1 THEN from
        ELSE LET half == n \div 2
             IN base[n - half, IF Value(right, j + from + half + 1) < key
                               THEN from + half ELSE from]
      found == base[Window, 0]
  IN IF Value(right, j + found + 1) < key THEN found + 1 ELSE found

\* The places of the next four, searched before anything is stored.
ProbeFour ==
  /\ at = "probe" /\ held = <<>> /\ i + Four <= Size(left) /\ j < Size(right)
  /\ held' = [n \in 1 .. Four |-> LET key == Value(left, i + n)
                                 IN [key |-> key, place |-> HalvingSearch(key)]]
  /\ StoreNothing
  /\ UNCHANGED <<call, left, right, i, j, k, last, steps, at>>

Hit(probe) == probe.place < Window /\ Value(right, j + probe.place + 1) = probe.key

\* One of the four answers; the last moves both sides on.
Answer ==
  LET probe == Head(held)
  IN /\ at = "probe" /\ held # <<>>
     /\ Taken(<<probe.key>>, Hit(probe))
     /\ held' = Tail(held)
     /\ IF Len(held) = 1
        THEN /\ j' = j + probe.place + (IF Hit(probe) THEN 1 ELSE 0)
             /\ i' = i + Four
        ELSE UNCHANGED <<i, j>>
     /\ UNCHANGED <<call, left, right, last, steps, at>>

ProbeOne ==
  LET key == Value(left, i + 1)
      it == Min({n \in j .. Size(right) - 1 : Value(right, n + 1) >= key} \cup {Size(right)})
      hit == it < Size(right) /\ Value(right, it + 1) = key
  IN /\ at = "probe" /\ held = <<>> /\ BothLeft /\ i + Four > Size(left)
     /\ Taken(<<key>>, hit)
     /\ i' = i + 1
     /\ j' = IF hit THEN it + 1 ELSE it
     /\ UNCHANGED <<call, left, right, held, last, steps, at>>

ProbeEnds ==
  /\ at = "probe" /\ held = <<>> /\ ~BothLeft
  /\ Goto("done") /\ StoreNothing
  /\ UNCHANGED <<call, left, right, i, j, k, held, last, steps>>

-----------------------------------------------------------------------------
(***************************************************************************)
(* union_sorted_uint16 (AVX-512) and xor_sorted_uint16_sse.  Two vectors   *)
(* are merged into a low and a high one; the low one is emitted without    *)
(* the values that occur twice (union: once; exclusive or: not at all),    *)
(* the high one is held back and merged with the next block.               *)
(***************************************************************************)
Merged(v, w) == SortSeq(v \o w, <=)
LowHalf(v)   == SubSeq(v, 1, Lanes)
HighHalf(v)  == SubSeq(v, Lanes + 1, 2 * Lanes)

\* emit_unique16: the lanes that differ from the one before; `before` is the
\* vector emitted last, and the first lane of the first vector is kept.
Unique(before, v) ==
  LET lane(n) == IF n > 0 THEN v[n] ELSE Last(before)
      kept == {n \in DOMAIN v : (n = 1 /\ before = <<>>) \/ v[n] # lane(n - 1)}
  IN [n \in 1 .. Cardinality(kept) |-> v[Sorted(kept)[n]]]

\* store_unique_xor_sse: the last lane of the vector before and all but the
\* last of this one, without those equal to a neighbour.  All ones stand
\* before the first vector.
Undoubled(before, v) ==
  LET s == (IF before = <<>> THEN [n \in 1 .. Lanes |-> LastLow] ELSE before) \o v
      kept == {n \in Lanes .. 2 * Lanes - 1 : s[n] # s[n - 1] /\ s[n] # s[n + 1]}
  IN [n \in 1 .. Cardinality(kept) |-> s[Sorted(kept)[n]]]

Emitted(before, v) == IF op = "or" THEN Unique(before, v) ELSE Undoubled(before, v)

\* Emit the low half of two vectors, hold the high one back.
EmitLow(v, w) ==
  LET low == LowHalf(Merged(v, w))
  IN /\ Store(k, Whole(Emitted(last, low)))
     /\ k' = k + Len(Emitted(last, low))
     /\ held' = HighHalf(Merged(v, w))
     /\ last' = low

MergesVectors == kernel \in {"union_v4", "xor_sse42"}

NextBlock == at' = IF i' < Blocks(Len(a)) /\ j' < Blocks(Len(b)) THEN "blocks" ELSE "settle"

FirstVectors ==
  /\ at = "first" /\ MergesVectors
  /\ EmitLow(Vector("a", 0), Vector("b", 0))
  /\ i' = Lanes /\ j' = Lanes
  /\ NextBlock
  /\ UNCHANGED <<call, left, right, steps>>

\* The side whose next block begins lower supplies it.
NextVectors ==
  LET fromA == Value("a", i + 1) <= Value("b", j + 1)
  IN /\ at = "blocks" /\ MergesVectors
     /\ EmitLow(IF fromA THEN Vector("a", i) ELSE Vector("b", j), held)
     /\ i' = IF fromA THEN i + Lanes ELSE i
     /\ j' = IF fromA THEN j ELSE j + Lanes
     /\ NextBlock
     /\ UNCHANGED <<call, left, right, steps>>

\* The side whose blocks ran out (a when both did), and the other.
Short == IF i = Blocks(Len(a)) THEN "a" ELSE "b"
Long  == IF Short = "a" THEN "b" ELSE "a"
Read(side) == IF side = "a" THEN i ELSE j

\* Of a rest only the first value can be the one emitted last.
Repeats(side) == IF Rest(side, Read(side)) # <<>> /\ Value(side, Read(side) + 1) = Last(last)
                 THEN 1 ELSE 0

\* What is held back and the rest of the short side, merged; the scalar merge
\* then takes it with the rest of the long side.
SettleUnion ==
  /\ at = "settle" /\ op = "or"
  /\ held' = Sorted(ToSet(Unique(last, held))
                        \cup ToSet(Rest(Short, Read(Short) + Repeats(Short))))
  /\ left' = "held" /\ right' = Long
  /\ i' = 0 /\ j' = Read(Long) + Repeats(Long)
  /\ Goto("merge") /\ StoreNothing
  /\ UNCHANGED <<call, k, last, steps>>

\* The undoubled rest of the vectors, the top lane if it stands alone, and the
\* rest of the short side, sorted; equal neighbours cancel.
PendingXor ==
  LET top == IF held[Lanes] # held[Lanes - 1] THEN <<held[Lanes]>> ELSE <<>>
      all == Undoubled(last, held) \o top \o Rest(Short, Read(Short))
  IN Sorted({v \in ToSet(all) : Cardinality({n \in DOMAIN all : all[n] = v}) % 2 = 1})

SettleXor ==
  /\ at = "settle" /\ op = "xor"
  /\ held' = PendingXor
  /\ left' = "held" /\ right' = Long
  /\ i' = 0 /\ j' = Read(Long)
  /\ Goto("merge") /\ StoreNothing
  /\ UNCHANGED <<call, k, last, steps>>

-----------------------------------------------------------------------------
(***************************************************************************)
(* union_array_array_inplace: from the largest value down, into the room   *)
(* behind the left array; `i`, `j` and `k` count what is still in front.   *)
(***************************************************************************)
Backwards ==
  /\ at = "backwards" /\ j > 0
  /\ LET takeA == i > 0 /\ Value("a", i) >= b[j]
         both  == takeA /\ Value("a", i) = b[j]
     IN /\ Store(k - 1, <<IF takeA THEN Value("a", i) ELSE b[j]>>)
        /\ i' = IF takeA THEN i - 1 ELSE i
        /\ j' = IF both \/ ~takeA THEN j - 1 ELSE j
  /\ k' = k - 1
  /\ UNCHANGED <<call, left, right, held, last, steps, at>>

\* What was written moves down to the values that stayed where they were.
CloseGap ==
  LET total == Len(a) + Len(b)
  IN /\ at = "backwards" /\ j = 0
     /\ Store(i, [n \in 1 .. total - k |-> memory[k + n]])
     /\ k' = i + total - k
     /\ i' = Len(a)
     /\ Goto("done")
     /\ UNCHANGED <<call, left, right, j, held, last, steps>>

ANext ==
  \/ IntersectSse42 \/ IntersectNeon \/ IntersectVp2 \/ CountSse42
  \/ InPlaceSse42 \/ InPlaceNeon \/ Drain
  \/ SettleZero \/ SubtractBlocks \/ SubtractPartial
  \/ TailStep \/ MergeBlock \/ MergeOne \/ CopyRest
  \/ ProbeFour \/ Answer \/ ProbeOne \/ ProbeEnds
  \/ FirstVectors \/ NextVectors \/ SettleUnion \/ SettleXor
  \/ Backwards \/ CloseGap
=============================================================================
