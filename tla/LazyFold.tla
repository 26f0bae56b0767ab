------------------------------ MODULE LazyFold ------------------------------
(***************************************************************************)
(* The lazy folds of a bitmap and everything that may run between a fold   *)
(* and its finisher (docs/lazy-folds.md, bitmap_definitions.hpp).  A fold  *)
(* unites or exclusive-ors operands into the bitmap without counting: a    *)
(* bitset it touched keeps a stale count, size_ is not known, and a chunk  *)
(* it emptied stays in the table.  A finisher counts, settles the forms of *)
(* the containers and, after an exclusive-or, drops the emptied chunks.    *)
(*                                                                         *)
(* One bitmap is followed.  A copy may hold its chunk table: shared says   *)
(* whether one does, which is all that a call on the bitmap can see of it. *)
(* The form of a result is decided by serialized sizes the model does not  *)
(* have: it is any form the code's rules allow a container of that many    *)
(* values.                                                                 *)
(***************************************************************************)
EXTENDS Integers, FiniteSets

CONSTANTS
  Chunks,        \* the chunk keys
  Lows,          \* the low keys: the domain of one container
  ArrayMax,      \* array_to_bitset_threshold, the most values of an array
  UnionArrayMax, \* lazy_union_array_bound
  XorArrayMax,   \* lazy_xor_array_bound
  Deferred,      \* size_deferred, which half of no size reaches
  Operands,      \* the finished bitmaps the program combines with
  Keys           \* the keys the program adds and removes one by one

VARIABLES
  sharing,  \* table_sharing: whether the build lets copies share tables
  chunks,   \* the table: from the keys of the chunks to their containers
  size,     \* size_
  shared,   \* chunks_.must_unshare(): a copy holds the table
  awaits,   \* the finisher the folds since the last one call for
  model     \* the keys the calls should have left

vars == <<sharing, chunks, size, shared, awaits, model>>

ASSUME ChunksAssumption == Chunks \subseteq Nat
ASSUME BoundsAssumption ==
  /\ IsFiniteSet(Chunks) /\ IsFiniteSet(Lows)
  /\ ArrayMax \in 1..(Cardinality(Lows) - 1)
  /\ UnionArrayMax \in 0..ArrayMax /\ XorArrayMax \in 0..ArrayMax
  /\ Deferred \in Nat
  /\ 4 * Cardinality(Chunks) * Cardinality(Lows) < Deferred

Containers == [kind : {"array", "bitset", "run"}, keys : SUBSET Lows,
               count : 0..Cardinality(Lows), stale : BOOLEAN]
Container(kind, keys) ==
  [kind |-> kind, keys |-> keys, count |-> Cardinality(keys), stale |-> FALSE]

ASSUME KeysAssumption == Keys \subseteq Chunks \X Lows
ASSUME OperandsAssumption ==
  \A other \in Operands :
     /\ DOMAIN other \subseteq Chunks
     /\ \A k \in DOMAIN other :
           /\ other[k] = Container(other[k].kind, other[k].keys)
           /\ other[k] \in Containers /\ other[k].keys # {}

KeysIn(table) == UNION {{k} \X table[k].keys : k \in DOMAIN table}
\* The counts of the containers added up, as so many pairs.
Counted(table) ==
  Cardinality({place \in (DOMAIN table) \X (1..Cardinality(Lows)) :
                 place[2] <= table[place[1]].count})
Nonempty(table) ==
  [k \in {k \in DOMAIN table : table[k].count # 0} |-> table[k]]
Symmetric(S, T) == (S \ T) \union (T \ S)

\* The tables with the keys K whose containers are some of those that Options
\* gives for their keys.
TablesOf(K, Options(_)) ==
  {table \in [K -> UNION {Options(k) : k \in K}] :
     \A k \in K : table[k] \in Options(k)}

-----------------------------------------------------------------------------
\* Forms.  A container of ArrayMax values may be either.
Form(keys) == Container(IF Cardinality(keys) <= ArrayMax THEN "array"
                                                         ELSE "bitset", keys)
Runs(keys) == IF keys = {} THEN {Form(keys)} ELSE {Container("run", keys)}
Forms(keys) ==
  {Form(keys)} \union Runs(keys) \union
    (IF Cardinality(keys) = ArrayMax THEN {Container("bitset", keys)} ELSE {})

\* A result that is not one of the forms above: a bitset the code leaves one.
FormsOrBitset(keys) == Forms(keys) \union {Container("bitset", keys)}

AsBitset(c) == Container("bitset", c.keys)
Settled(c)  == [c EXCEPT !.count = Cardinality(c.keys), !.stale = FALSE]

Full(c)     == c.count = Cardinality(Lows)
Kinds(l, r) == {l.kind, r.kind}

-----------------------------------------------------------------------------
\* The kernels of the folds: the containers that left may become.

\* Adds bits and keeps the count it had.
OrLazy(left, keys) == IF keys = {} THEN left
                      ELSE [left EXCEPT !.keys = @ \union keys, !.stale = TRUE]

\* A slip: the count is kept.
XorLazyKeepingCount(left, keys) ==
  [left EXCEPT !.keys = Symmetric(@, keys), !.stale = TRUE]

\* Clears bits: the count is unknown.
XorLazy(left, keys) == [left EXCEPT !.keys = Symmetric(@, keys),
                                    !.count = 0, !.stale = TRUE]

\* Counts as it goes; a bitset known to be full is left as it is.
OrCounted(left, right) ==
  IF Full(left) THEN left ELSE AsBitset([keys |-> left.keys \union right.keys])

Unions(left, right) ==
  LET keys == left.keys \union right.keys
  IN  IF "bitset" \in Kinds(left, right) THEN {Container("bitset", keys)}
                                         ELSE Forms(keys)

FoldOr(left, right) ==
  CASE Full(left) -> {left}
    [] ~Full(left) /\ "run" \in Kinds(left, right) ->
         Unions(Settled(left), right)
    [] ~Full(left) /\ Kinds(left, right) = {"array"}
         /\ left.count + right.count <= UnionArrayMax ->
         {Container("array", left.keys \union right.keys)}
    [] OTHER ->
         LET bits == IF left.kind = "bitset" THEN left ELSE AsBitset(left)
         IN  {IF right.kind = "bitset" THEN OrCounted(bits, right)
                                       ELSE OrLazy(bits, right.keys)}

\* The exclusive-or of two containers whose counts are exact.
XorPair(left, right) ==
  LET keys == Symmetric(left.keys, right.keys)
  IN  CASE left.count = 0 /\ left.kind # "bitset" -> {right}
        [] left.count = 0 /\ left.kind = "bitset" -> {right, Form(keys)}
        [] left.count # 0 /\ Kinds(left, right) \in {{"run"}, {"array", "run"}} ->
             Forms(keys)
        [] OTHER -> {Form(keys)}

FoldXor(left, right) ==
  CASE left.kind = "bitset" -> {XorLazy(left, right.keys)}
    [] left.kind = "array" /\ right.kind = "bitset" ->
         {XorLazy(right, left.keys)}
    [] Kinds(left, right) = {"array"}
         /\ left.count + right.count > XorArrayMax ->
         {XorLazy(AsBitset(left), right.keys)}
    [] OTHER -> XorPair(left, right)

-----------------------------------------------------------------------------
CountsDeferred == 2 * size >= Deferred

\* repair_cardinality on a table: the stale bitsets are counted.
Repaired(table) == [k \in DOMAIN table |->
                      IF table[k].stale THEN Settled(table[k]) ELSE table[k]]

\* What settle_counts() leaves at the entry of a call; the repair makes the
\* table the bitmap's own.
Entry == [chunks |-> IF CountsDeferred THEN Repaired(chunks) ELSE chunks,
          size   |-> IF CountsDeferred THEN Counted(Repaired(chunks)) ELSE size,
          shared |-> shared /\ ~CountsDeferred]

Becomes(table, n, s) == chunks' = table /\ size' = n /\ shared' = s
Untouched            == UNCHANGED <<chunks, size, shared>>
Leaves(s)            == Becomes(s.chunks, s.size, s.shared)

\* Entry changed to one of the tables, the size moved with the counts.
Replaces(tables) ==
  \E table \in tables :
     Becomes(table, Entry.size - Counted(Entry.chunks) + Counted(table), FALSE)

Keeps   == UNCHANGED <<sharing, awaits>>
Models(keys) == model' = keys

-----------------------------------------------------------------------------
\* The folds.

\* The table with the containers of other folded in: chunks it lacks are
\* copied, the ones both have are combined by Kernel.
FoldedWith(other, Kernel(_, _)) ==
  TablesOf(DOMAIN chunks \union DOMAIN other,
           LAMBDA k : CASE k \notin DOMAIN other  -> {chunks[k]}
                        [] k \notin DOMAIN chunks -> {other[k]}
                        [] OTHER -> Kernel(chunks[k], other[k]))

bulk_or_inplace(other) ==
  /\ IF shared /\ ~CountsDeferred /\ KeysIn(other) \subseteq KeysIn(chunks)
     THEN Untouched
     ELSE \E table \in FoldedWith(other, FoldOr) :
             Becomes(table, Deferred, FALSE)
  /\ awaits' = IF awaits = "xor" THEN "xor" ELSE "or"
  /\ Models(model \union KeysIn(other))
  /\ UNCHANGED sharing

bulk_xor_intermediate(other) ==
  /\ IF shared /\ DOMAIN other = {}
     THEN Untouched
     ELSE \E table \in FoldedWith(other, FoldXor) :
             Becomes(table, Deferred, FALSE)
  /\ awaits' = "xor"
  /\ Models(Symmetric(model, KeysIn(other)))
  /\ UNCHANGED sharing

-----------------------------------------------------------------------------
\* The finishers.

\* A table a copy holds, with nothing deferred, is left as it is; any other is
\* repaired, and its containers become some of those that Options gives.
FinishedBy(Options(_)) ==
  IF shared /\ ~CountsDeferred THEN {chunks}
  ELSE LET repaired == Repaired(chunks)
       IN  TablesOf(DOMAIN chunks, LAMBDA k : Options(repaired[k]))

\* bulk_or_repair_after_lazy and its kin on one container.
ReconsiderRuns(c) == IF c.kind = "run" THEN Forms(c.keys) ELSE {c}
RepairForm(c) == IF c.kind = "bitset" /\ c.count <= ArrayMax
                 THEN {Container("array", c.keys)} ELSE ReconsiderRuns(c)
KeepBitset(c) == IF c.kind = "bitset"
                 THEN {c} \union Runs(c.keys) ELSE Forms(c.keys)

Finish(table) ==
  /\ IF shared /\ ~CountsDeferred THEN Untouched
                                  ELSE Becomes(table, Counted(table), FALSE)
  /\ awaits' = "nothing"
  /\ UNCHANGED <<sharing, model>>

bulk_or_finish ==
  /\ awaits # "xor"
  /\ \E table \in FinishedBy(LAMBDA c : Forms(c.keys)) : Finish(table)

bulk_or_finish_keep_bitsets ==
  /\ awaits # "xor"
  /\ \E table \in FinishedBy(KeepBitset) : Finish(table)

bulk_or_repair_after_lazy ==
  /\ awaits # "xor"
  /\ \E table \in FinishedBy(RepairForm) : Finish(table)

\* A slip: the emptied chunks are not dropped.
XorRepairKeepingEmptied == \E table \in FinishedBy(RepairForm) : Finish(table)

bulk_xor_repair_after_lazy ==
  \E table \in FinishedBy(RepairForm) : Finish(Nonempty(table))

-----------------------------------------------------------------------------
\* Single keys.  These do not settle the counts.

\* container_add of a value that is absent, and promote_if_needed.
Added(c, v) ==
  LET keys == c.keys \union {v}
  IN  CASE c.kind = "bitset" -> [c EXCEPT !.keys = keys, !.count = @ + 1]
        [] c.kind = "run"    -> Container("run", keys)
        [] c.kind = "array"  ->
             Container(IF Cardinality(keys) >= ArrayMax THEN "bitset"
                                                        ELSE "array", keys)

\* container_remove of a value that is held: a stale count is settled first.
Removed(c, v) == [Settled(c) EXCEPT !.keys = @ \ {v}, !.count = @ - 1]

\* The table with container c at chunk k.
With(table, k, c) == [j \in DOMAIN table \union {k} |->
                        IF j = k THEN c ELSE table[j]]
Without(table, k) == [j \in DOMAIN table \ {k} |-> table[j]]

Add(k, v) ==
  /\ IF <<k, v>> \in KeysIn(chunks) THEN Untouched
     ELSE LET c == IF k \in DOMAIN chunks THEN chunks[k]
                                          ELSE Container("array", {})
          IN  Becomes(With(chunks, k, Added(c, v)), size + 1, FALSE)
  /\ Models(model \union {<<k, v>>})
  /\ Keeps

Remove(k, v) ==
  /\ IF <<k, v>> \notin KeysIn(chunks) THEN Untouched
     ELSE LET c == Removed(chunks[k], v)
          IN  Becomes(IF c.count = 0 THEN Without(chunks, k)
                                     ELSE With(chunks, k, c),
                      size - 1, FALSE)
  /\ Models(model \ {<<k, v>>})
  /\ Keeps

-----------------------------------------------------------------------------
\* Every other change of the bitmap settles the counts first.

\* Whether a key of the table or of other is in both, in one.
Both(other)      == DOMAIN Entry.chunks \intersect DOMAIN other
OnlyHere(other)  == DOMAIN Entry.chunks \ DOMAIN other
OnlyThere(other) == DOMAIN other \ DOMAIN Entry.chunks

\* The tables with keys K, where chunks of both become one that Kernel gives.
Combined(other, K, Kernel(_, _)) ==
  TablesOf(K, LAMBDA k :
    CASE k \in OnlyHere(other)  -> {Entry.chunks[k]}
      [] k \in OnlyThere(other) -> {other[k]}
      [] OTHER -> Kernel(Entry.chunks[k], other[k]))

\* The table without the chunks of both that hold nothing.
WithoutEmptied(table, other) ==
  [k \in {k \in DOMAIN table : table[k].count # 0 \/ k \in OnlyHere(other)} |->
     table[k]]

\* operator|= : a bitset that is full is left as it is.
Unite(other) ==
  /\ Replaces(Combined(other, DOMAIN Entry.chunks \union DOMAIN other, Unions))
  /\ Models(model \union KeysIn(other))
  /\ Keeps

\* operator^= : the table is rebuilt from the first chunk that the other lacks
\* or that cancels out, and the rebuilt part holds no empty chunk.
XorMerged(other) ==
  LET Rebuilt(table) ==
        LET breaks == OnlyThere(other)
                        \union {k \in Both(other) : table[k].count = 0}
            dropped == {k \in DOMAIN table :
                          /\ table[k].count = 0
                          /\ \E b \in breaks : b <= k}
        IN  [k \in DOMAIN table \ dropped |-> table[k]]
  IN  {Rebuilt(table) : table \in
         Combined(other, DOMAIN Entry.chunks \union DOMAIN other, XorPair)}

ExclusiveOr(other) ==
  /\ CASE DOMAIN other = {} -> Leaves(Entry)
       [] DOMAIN other # {} /\ DOMAIN Entry.chunks = {} ->
            \E s \in {FALSE, sharing} : Becomes(other, Counted(other), s)
       [] OTHER -> Replaces(XorMerged(other))
  /\ Models(Symmetric(model, KeysIn(other)))
  /\ Keeps

\* What an intersection, or a difference, makes of a container.  An array
\* operand of an intersection and the array a difference is taken from leave
\* an array.
Intersections(left, right) ==
  LET keys == left.keys \intersect right.keys
  IN  IF "array" \in Kinds(left, right) THEN {Container("array", keys)}
                                        ELSE FormsOrBitset(keys)
Differences(left, right) ==
  LET keys == left.keys \ right.keys
  IN  IF left.kind = "array" THEN Forms(keys) ELSE FormsOrBitset(keys)

\* operator&= : on a shared table the result is built aside, and taken when it
\* holds fewer keys.
Intersect(other) ==
  /\ \E t \in Combined(other, Both(other), Intersections) :
        LET result == Nonempty(t)
        IN  IF Entry.shared /\ Counted(result) = Entry.size
            THEN Leaves(Entry)
            ELSE Becomes(result, Counted(result), FALSE)
  /\ Models(model \intersect KeysIn(other))
  /\ Keeps

\* operator-= : a chunk the other lacks is kept, empty or not.
Subtract(other) ==
  /\ IF Entry.shared /\ KeysIn(Entry.chunks) \intersect KeysIn(other) = {}
     THEN Leaves(Entry)
     ELSE \E t \in Combined(other, DOMAIN Entry.chunks, Differences) :
            LET result == WithoutEmptied(t, other)
            IN  Becomes(result, Counted(result), FALSE)
  /\ Models(model \ KeysIn(other))
  /\ Keeps

\* add_many_sorted: the keys of batch, by chunks, to the chunks that are there
\* and to new ones.
AddedAll(c, keys) ==
  IF \/ c.kind = "run"
     \/ c.kind = "array" /\ Cardinality(c.keys \union keys) < ArrayMax
  THEN Container(c.kind, c.keys \union keys)
  ELSE AsBitset([keys |-> c.keys \union keys])

AddMany(batch) ==
  /\ IF Entry.shared /\ KeysIn(batch) \subseteq KeysIn(Entry.chunks)
     THEN Leaves(Entry)
     ELSE Replaces(TablesOf(DOMAIN Entry.chunks \union DOMAIN batch, LAMBDA k :
            CASE k \in OnlyHere(batch)  -> {Entry.chunks[k]}
              [] k \in OnlyThere(batch) -> Forms(batch[k].keys)
              [] OTHER -> {AddedAll(Entry.chunks[k], batch[k].keys)}))
  /\ Models(model \union KeysIn(batch))
  /\ Keeps

\* remove_many_sorted: a chunk that a removal leaves empty is erased, one that
\* is not takes its form anew, runs keep the one they settled in.
RemoveMany(batch) ==
  /\ IF Entry.shared /\ KeysIn(batch) \intersect KeysIn(Entry.chunks) = {}
     THEN Leaves(Entry)
     ELSE Replaces({WithoutEmptied(t, batch) :
                      t \in Combined(batch, DOMAIN Entry.chunks,
                              LAMBDA left, right :
                                Forms(left.keys \ right.keys))})
  /\ Models(model \ KeysIn(batch))
  /\ Keeps

\* optimize and optimize_keep_bitsets: on a shared table the pass is run on a
\* copy, which is taken when it changed the form of a container.
Optimize(Options(_)) ==
  /\ \E t \in TablesOf(DOMAIN chunks, LAMBDA k : Options(Entry.chunks[k])) :
        IF Entry.shared
             /\ \A k \in DOMAIN t : t[k].kind = Entry.chunks[k].kind
        THEN Leaves(Entry)
        ELSE Becomes(t, Entry.size, FALSE)
  /\ Keeps
  /\ UNCHANGED model

optimize              == Optimize(LAMBDA c : Forms(c.keys))
optimize_keep_bitsets == Optimize(KeepBitset)

clear == /\ Becomes(<<>>, 0, FALSE)
         /\ awaits' = "nothing"
         /\ Models({})
         /\ UNCHANGED sharing

-----------------------------------------------------------------------------
\* The copies of the bitmap: the first one shares the table, the last one lets
\* go of it or changes it, and so has a table of its own.
Copy == /\ sharing /\ ~shared /\ DOMAIN chunks # {}
        /\ shared' = TRUE
        /\ UNCHANGED <<sharing, chunks, size, awaits, model>>

CopiesLetGo == /\ shared
               /\ shared' = FALSE
               /\ UNCHANGED <<sharing, chunks, size, awaits, model>>

-----------------------------------------------------------------------------
Init == /\ sharing \in BOOLEAN
        /\ chunks = <<>> /\ size = 0 /\ shared = FALSE
        /\ awaits = "nothing" /\ model = {}

Fold    == \E other \in Operands : bulk_or_inplace(other)
                                   \/ bulk_xor_intermediate(other)
Finisher == \/ bulk_or_finish \/ bulk_or_finish_keep_bitsets
            \/ bulk_or_repair_after_lazy \/ bulk_xor_repair_after_lazy
KeyCall == \E key \in Keys : Add(key[1], key[2]) \/ Remove(key[1], key[2])
Combine == \E other \in Operands :
             \/ Unite(other) \/ ExclusiveOr(other)
             \/ Intersect(other) \/ Subtract(other)
             \/ AddMany(other) \/ RemoveMany(other)

Next == \/ Fold \/ Finisher \/ KeyCall \/ Combine
        \/ optimize \/ optimize_keep_bitsets \/ clear
        \/ Copy \/ CopiesLetGo

Spec == Init /\ [][Next]_vars

-----------------------------------------------------------------------------
(***************************************************************************)
(* What the contract of docs/lazy-folds.md comes to.                       *)
(***************************************************************************)
\* The containers are ones the code can hold.  The top of the range of size is
\* what a deferred size may have been moved to by single keys.
TypeOK ==
  /\ sharing \in BOOLEAN /\ shared \in BOOLEAN /\ (shared => sharing)
  /\ DOMAIN chunks \subseteq Chunks
  /\ \A k \in DOMAIN chunks : chunks[k] \in Containers
  /\ size \in 0..(2 * Deferred)
  /\ awaits \in {"nothing", "or", "xor"}
  /\ model \subseteq Chunks \X Lows

\* "A stale bitset count is never above the true one" (container_handle.hpp
\* 243): what lets a count of the whole domain stand for "full" in the middle
\* of a fold.  A count that is not stale is the number of keys, and only a
\* bitset is stale.
StoredNotAbove ==
  \A k \in DOMAIN chunks :
     LET c == chunks[k]
     IN  IF c.stale THEN c.kind = "bitset" /\ c.count <= Cardinality(c.keys)
                    ELSE c.count = Cardinality(c.keys)

\* counts_deferred() knows a bitmap in the middle of a fold by its size, moved
\* or not by the single keys added and removed since; a bitmap it does not
\* take for one has the size its keys come to and no stale count, so that what
\* reads counts after settle_counts() reads exact ones.
DeferredIsRecognised ==
  ~CountsDeferred => /\ size = Cardinality(KeysIn(chunks))
                     /\ \A k \in DOMAIN chunks : ~chunks[k].stale

\* "every in-place update is allowed and leaves a correct bitmap": whatever ran
\* since the folds began, the keys are those that the bit-per-key model of
\* tests/lazy_fold_state.cpp has.
KeysAreModel == KeysIn(chunks) = model

\* No chunk is empty when nothing waits for a finisher: an array of no values
\* and a bitset of no bits break the portable format and what reads the ends.
\* The code does not keep it where a copy holds the table (README, "Deviations").
FinishedHasNoEmptyChunk ==
  awaits = "nothing" => \A k \in DOMAIN chunks : chunks[k].keys # {}

\* A build where no copy holds the table keeps more: only an exclusive-or that
\* awaits its finisher leaves an empty chunk, whatever settled the counts
\* before the finisher ran, and so the finishers of unions need drop none.
OnlyXorLeavesEmptyChunks ==
  ~sharing /\ awaits # "xor" => \A k \in DOMAIN chunks : chunks[k].keys # {}

\* What every call relies on between a fold and its finisher: no stale count is
\* too high, a bitmap with stale counts is known as one, and no chunk is empty
\* but where an exclusive-or awaits its finisher (bitmap.hpp 1205-1245).
FoldIsSound == TypeOK /\ StoredNotAbove /\ DeferredIsRecognised /\ OnlyXorLeavesEmptyChunks

(***************************************************************************)
(* What makes them inductive: a size that is not exact is off by what a    *)
(* fold made it, whatever single keys have moved it by since, and so is    *)
(* still known as one.                                                     *)
(***************************************************************************)
Room == Cardinality(Chunks) * Cardinality(Lows)

SizeIsKnown ==
  \/ /\ size = Cardinality(KeysIn(chunks))
     /\ \A k \in DOMAIN chunks : ~chunks[k].stale
  \/ size - Cardinality(KeysIn(chunks)) \in (Deferred - Room)..Deferred

IInv == /\ TypeOK /\ StoredNotAbove /\ KeysAreModel /\ SizeIsKnown
        /\ OnlyXorLeavesEmptyChunks
=============================================================================
