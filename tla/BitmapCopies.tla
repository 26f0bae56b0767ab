---------------------------- MODULE BitmapCopies ----------------------------
(***************************************************************************)
(* bitmap and its copies, one call at a time: which table and payloads     *)
(* each call copies, shares, writes and lets go of (bitmap.hpp,            *)
(* chunk_store.hpp), with the bulk contexts that remember where the last   *)
(* call of a sequence was, and the allocations that fail part way.         *)
(*                                                                         *)
(* A context is kept only while it holds a slot and the generation it was  *)
(* filled at is still the store's: a call that advances the generation     *)
(* takes the context away, as the next bulk call would find it stale.      *)
(***************************************************************************)
EXTENDS ChunkHeap

CONSTANTS
  Bitmaps,
  NoContext,     \* no slot held, or a stale one
  MayFail,       \* whether an allocation may fail
  FewRatio,      \* how much larger a table is than one merged into it entry by entry
  Keys,          \* the keys the program adds and removes
  ResetsContext, \* whether callers give up a context when the call threw that was
                 \* made on it, or that was inserting chunks under it
  Scratches      \* the bitmaps unions are built in, and that keep their capacity

VARIABLES
  heap,     \* tables and payloads
  table,    \* chunk_store::live_, the table of each bitmap
  pool,     \* chunk_store::retired_, the table of its parked payloads
  size,     \* bitmap::size_
  context,  \* the bulk_context on each bitmap
  answer    \* what the last call returned

vars == <<heap, table, pool, size, context, answer>>

ASSUME KeyAssumption == Keys \subseteq Chunks \X Lows
\* Addresses enough for every store of every bitmap and one more, so that an
\* allocation fails where MayFail says and nowhere else.
ASSUME RoomAssumption ==
  /\ IsFiniteSet(Bitmaps)
  /\ Cardinality(Tables) > 2 * Cardinality(Bitmaps)
  /\ Cardinality(Payloads) >= (2 * Cardinality(Bitmaps) + 1) * Cardinality(Chunks)
\* A bulk_context that holds a slot: its chunk, the entry it is, and whether the
\* payload is known to be the bitmap's own.
Contexts == [chunk : Chunks, table : Tables, index : Nat, private : BOOLEAN]
ASSUME ContextAssumption == NoContext \notin Contexts

Init == /\ heap    \in {EmptyHeap(policy) : policy \in Policies}
        /\ table   = [b \in Bitmaps |-> Null]
        /\ pool    = [b \in Bitmaps |-> Null]
        /\ size    = [b \in Bitmaps |-> 0]
        /\ context = [b \in Bitmaps |-> NoContext]
        /\ answer  = "done"

-----------------------------------------------------------------------------
Held(b)     == EntriesOf(heap, table[b])
HoldsChunk(b, c) == c \in DOMAIN Held(b)
LowsOf(b, c) == IF HoldsChunk(b, c) THEN heap.keys[Held(b)[c]] ELSE {}
Contents(b) == {k \in Chunks \X Lows : k[2] \in LowsOf(b, k[1])}
SizeIn(H, t) ==
  Cardinality({k \in Chunks \X Lows :
     k[1] \in DOMAIN EntriesOf(H, t) /\ k[2] \in H.keys[EntriesOf(H, t)[k[1]]]})

Answers(a) == answer' = a
IfSo(p)    == IF p THEN "true" ELSE "false"

\* b has table t in the heap H, and n keys.
Becomes(b, H, t, n) == /\ heap'  = H
                       /\ table' = [table EXCEPT ![b] = t]
                       /\ size'  = [size EXCEPT ![b] = n]

\* The generation of a store advances: what its context holds is stale.
Advance(B) == context' = [b \in Bitmaps |-> IF b \in B THEN NoContext ELSE context[b]]

Slot(H, t, c, private) ==
  [chunk |-> c, table |-> t, index |-> Below(DOMAIN H.entries[t], c), private |-> private]

\* The chunk whose entry a context's slot is.
ChunkAt(x) == CHOOSE c \in DOMAIN heap.entries[x.table] :
                 Below(DOMAIN heap.entries[x.table], c) = x.index

\* make_unique( least ), when the table is shared.
OwnTable(t, least) == IF IsShared(heap, t) THEN Detached(heap, t, least)
                      ELSE [heap |-> heap, table |-> t]

\* Callers take no copy of a bitmap while a context on it is alive, nor read it
\* as the operand of a union, which copies its handles as well.
MayBeCopied(b) == context[b] = NoContext

-----------------------------------------------------------------------------
\* operator=: a copy is made, swapped in, and what b held is let go of with it.
Assign(b, c) ==
  /\ MayBeCopied(c)
  /\ LET copy == Copy(heap, table[c])
     IN  \/ /\ b # c
            /\ Becomes(b, Released(Released(copy.heap, table[b]), pool[b]), copy.table, size[c])
            /\ pool' = [pool EXCEPT ![b] = Null]
            /\ Advance({b})
            /\ Answers("done")
         \/ /\ b = c \/ (MayFail /\ Length(heap, table[c]) # 0)
            /\ UNCHANGED <<heap, table, pool, size, context>>
            /\ Answers(IF b = c THEN "done" ELSE "threw")

Swap(b, c) ==
  /\ b # c
  /\ table' = [table EXCEPT ![b] = table[c], ![c] = table[b]]
  /\ pool'  = [pool  EXCEPT ![b] = pool[c],  ![c] = pool[b]]
  /\ size'  = [size  EXCEPT ![b] = size[c],  ![c] = size[b]]
  /\ Advance({b, c})
  /\ Answers("done")
  /\ UNCHANGED heap

\* clear(): a shared table is let go of, one of its own emptied.
Clear(b) ==
  LET H == Emptied(heap, pool[b])
      t == table[b]
  IN  /\ IF IsShared(H, t) THEN Becomes(b, Released(H, t), Null, 0)
                           ELSE Becomes(b, Emptied(H, t), t, 0)
      /\ Advance({b})
      /\ Answers("done")
      /\ UNCHANGED pool

\* A slip: a shared table is parked as any other.
ParksShared(H, b) ==
  LET E == Emptied(H, pool[b])
  IN  IF Length(E, table[b]) = 0 THEN [heap |-> E, table |-> table[b], pool |-> pool[b]]
      ELSE [heap |-> E, table |-> pool[b], pool |-> table[b]]
\* clear_retiring_slots(): the table becomes the pool, unless it is shared.
Parked(H, b) ==
  LET E == Emptied(H, pool[b])
      t == table[b]
  IN  IF Length(E, t) = 0 THEN [heap |-> E, table |-> t, pool |-> pool[b]]
      ELSE IF IsShared(E, t)
           THEN [heap |-> Released(E, t), table |-> pool[b], pool |-> Null]
           ELSE [heap |-> E, table |-> pool[b], pool |-> t]

ClearKeepCapacity(b) ==
  LET parked == Parked(heap, b)
  IN  /\ Becomes(b, parked.heap, parked.table, 0)
      /\ pool' = [pool EXCEPT ![b] = parked.pool]
      /\ Advance({b})
      /\ Answers("done")

-----------------------------------------------------------------------------
\* A context that add_impl filled says the table is the bitmap's own.
KnownOwn(b, bulk) == bulk /\ context[b] # NoContext /\ context[b].private
AddDetaches(b, bulk) == ~KnownOwn(b, bulk) /\ IsShared(heap, table[b])
AddAt(b, bulk) == IF AddDetaches(b, bulk) THEN Detached(heap, table[b], Length(heap, table[b]) + 1)
                  ELSE [heap |-> heap, table |-> table[b]]

\* A slip: an insertion does not advance the generation.
InsertionUnseen(b, bulk, x, advanced) ==
  context' = [context EXCEPT ![b] = IF bulk THEN x ELSE @]
\* The context after a call: the slot x for a bulk call; otherwise none where
\* the generation advanced.
ContextSet(b, bulk, x, advanced) ==
  context' = [context EXCEPT ![b] = IF bulk THEN x ELSE IF advanced THEN NoContext ELSE @]

\* After a throw: the same, unless the caller gives the context up.
ContextLeft(b, bulk, x, advanced) ==
  IF bulk /\ ResetsContext THEN Advance({b}) ELSE ContextSet(b, bulk, x, advanced)

\* A slip: the table is made the bitmap's own before the key is looked up.
AddUnasked(b, c, k, bulk) ==
  LET at == AddAt(b, bulk)
  IN  /\ AddDetaches(b, bulk) /\ k \in LowsOf(b, c)
      /\ Becomes(b, at.heap, at.table, size[b])
      /\ Advance({b})
      /\ Answers("false")
      /\ UNCHANGED pool
\* A shared table that holds the key is left shared.
AddOfHeld(b, c, k, bulk) ==
  /\ AddDetaches(b, bulk) /\ k \in LowsOf(b, c)
  /\ Answers("false")
  /\ UNCHANGED <<heap, table, pool, size, context>>

\* The table could not be detached, or the new chunk not be inserted.
AddFails(b, c, k, bulk) ==
  LET at == AddAt(b, bulk)
  IN  /\ MayFail /\ ~(AddDetaches(b, bulk) /\ k \in LowsOf(b, c))
      /\ \/ /\ AddDetaches(b, bulk) \/ ~HoldsChunk(b, c)
            /\ UNCHANGED <<heap, table, size, context>>
         \/ /\ AddDetaches(b, bulk) /\ ~HoldsChunk(b, c)
            /\ Becomes(b, at.heap, at.table, size[b])
            /\ Advance({b})
      /\ Answers("threw")
      /\ UNCHANGED pool

\* A chunk with the key is appended or inserted.
AddChunk(b, c, k, bulk) ==
  LET at    == AddAt(b, bulk)
      born  == Born(at.heap, [d \in {c} |-> {k}])
      grown == WithRoom(born.heap, at.table, Length(heap, table[b]) + 1)
      H     == Put(grown.heap, grown.table, born.entries)
      moved == grown.table # table[b] \/ \E d \in DOMAIN Held(b) : d > c
  IN  /\ ~HoldsChunk(b, c)
      /\ Becomes(b, H, grown.table, size[b] + 1)
      /\ ContextSet(b, bulk, Slot(H, grown.table, c, TRUE), moved)
      /\ Answers("true")
      /\ UNCHANGED pool

\* The key is added to its container; promoting the container may then fail.
AddToChunk(b, c, k, bulk) ==
  LET at    == AddAt(b, bulk)
      own   == Own(at.heap, at.table, c)
      isNew == k \notin LowsOf(b, c)
  IN  /\ HoldsChunk(b, c) /\ (AddDetaches(b, bulk) => isNew)
      /\ Becomes(b, Written(own, at.table, c, LowsOf(b, c) \cup {k}), at.table,
                 size[b] + IF isNew THEN 1 ELSE 0)
      /\ \/ /\ ContextSet(b, bulk, Slot(own, at.table, c, TRUE), at.table # table[b])
            /\ Answers(IfSo(isNew))
         \/ /\ MayFail /\ isNew
            /\ ContextLeft(b, bulk, Slot(own, at.table, c, TRUE), at.table # table[b])
            /\ Answers("threw")
      /\ UNCHANGED pool

\* The container's payload could not be copied, or not be grown: the context
\* has been filled by then, and says the payload is private.
AddToChunkFails(b, c, k, bulk) ==
  LET at  == AddAt(b, bulk)
      own == Own(at.heap, at.table, c)
  IN  /\ MayFail /\ HoldsChunk(b, c)
      /\ AddDetaches(b, bulk) => k \notin LowsOf(b, c)
      /\ \/ ~Unshared(at.heap, at.table, c) /\ Becomes(b, at.heap, at.table, size[b])
         \/ k \notin LowsOf(b, c) /\ Becomes(b, own, at.table, size[b])
      /\ ContextLeft(b, bulk, Slot(own, at.table, c, TRUE), at.table # table[b])
      /\ Answers("threw")
      /\ UNCHANGED pool

AddImpl(b, c, k, bulk) ==
  \/ AddOfHeld(b, c, k, bulk) \/ AddFails(b, c, k, bulk) \/ AddChunk(b, c, k, bulk)
  \/ AddToChunk(b, c, k, bulk) \/ AddToChunkFails(b, c, k, bulk)

Add(b, c, k) == AddImpl(b, c, k, FALSE)

-----------------------------------------------------------------------------
\* A context filled by add_bulk is written through without the barrier of copy
\* on write; one that contains_bulk filled is not, where the table may be shared.
Hits(b, c) == context[b] # NoContext /\ context[b].chunk = c
WritesThrough(b, c) == Hits(b, c) /\ (TableSharing(heap) => context[b].private)

\* add_bulk on its context.
AddThrough(b, c, k) ==
  LET x     == context[b]
      d     == ChunkAt(x)
      held  == heap.keys[heap.entries[x.table][d]]
      own   == IF x.private THEN heap ELSE Own(heap, x.table, d)
      isNew == k \notin held
  IN  /\ WritesThrough(b, c)
      /\ \/ /\ Becomes(b, Written(own, x.table, d, held \cup {k}), table[b],
                       size[b] + IF isNew THEN 1 ELSE 0)
            /\ context' = [context EXCEPT ![b].private = @ \/ isNew]
            /\ Answers(IfSo(isNew)) \/ (MayFail /\ isNew /\ Answers("threw"))
         \/ /\ MayFail
            /\ \/ ~x.private /\ ~Unshared(heap, x.table, d) /\ UNCHANGED heap
               \/ isNew /\ heap' = own
            /\ UNCHANGED <<table, size, context>>
            /\ Answers("threw")
      /\ UNCHANGED pool

AddBulk(b, c, k) ==
  \/ AddThrough(b, c, k)
  \/ ~WritesThrough(b, c) /\ AddImpl(b, c, k, TRUE)

ContainsBulk(b, c, k) ==
  /\ context' = [context EXCEPT ![b] =
        IF Hits(b, c) THEN @
        ELSE IF HoldsChunk(b, c) THEN Slot(heap, table[b], c, FALSE) ELSE NoContext]
  /\ Answers(IfSo(IF Hits(b, c)
                  THEN k \in heap.keys[heap.entries[context[b].table][ChunkAt(context[b])]]
                  ELSE k \in LowsOf(b, c)))
  /\ UNCHANGED <<heap, table, pool, size>>

\* The program is done with the context of b.
EndContext(b) == /\ context[b] # NoContext
                 /\ Advance({b})
                 /\ Answers("done")
                 /\ UNCHANGED <<heap, table, pool, size>>

-----------------------------------------------------------------------------
\* remove: a shared table without the key stays shared; the last key of a
\* container takes the chunk with it.
RemoveAbsent(b, c, k) ==
  /\ IF IsShared(heap, table[b]) THEN k \notin LowsOf(b, c) ELSE ~HoldsChunk(b, c)
  /\ Answers("false")
  /\ UNCHANGED <<heap, table, pool, size, context>>

RemoveFromChunk(b, c, k) ==
  LET at   == OwnTable(table[b], 0)
      own  == Own(at.heap, at.table, c)
      left == LowsOf(b, c) \ {k}
      H    == IF left = {}
              THEN [Dropped(own, Restrict(own.entries[at.table], {c}))
                      EXCEPT !.entries[at.table] = Restrict(@, DOMAIN @ \ {c})]
              ELSE Written(own, at.table, c, left)
  IN  /\ HoldsChunk(b, c) /\ (IsShared(heap, table[b]) => k \in LowsOf(b, c))
      /\ Becomes(b, H, at.table, size[b] - IF k \in LowsOf(b, c) THEN 1 ELSE 0)
      /\ IF at.table # table[b] \/ left = {} THEN Advance({b}) ELSE UNCHANGED context
      /\ Answers(IfSo(k \in LowsOf(b, c)))
      /\ UNCHANGED pool

\* The table or the payload could not be copied, or the container not be cut.
RemoveFails(b, c, k) ==
  LET at  == OwnTable(table[b], 0)
      own == Own(at.heap, at.table, c)
      detaches == at.table # table[b]
  IN  /\ MayFail /\ HoldsChunk(b, c) /\ (detaches => k \in LowsOf(b, c))
      /\ \/ detaches /\ UNCHANGED <<heap, table, size, context>>
         \/ /\ \/ ~Unshared(at.heap, at.table, c) /\ Becomes(b, at.heap, at.table, size[b])
               \/ k \in LowsOf(b, c) /\ Becomes(b, own, at.table, size[b])
            /\ IF detaches THEN Advance({b}) ELSE UNCHANGED context
      /\ Answers("threw")
      /\ UNCHANGED pool

Remove(b, c, k) == RemoveAbsent(b, c, k) \/ RemoveFromChunk(b, c, k) \/ RemoveFails(b, c, k)

-----------------------------------------------------------------------------
\* operator|=, b # c, on a table of its own: the keys of c go into the chunks b
\* holds; the chunks it lacks are copies of the handles of c.
Common(b, c) == DOMAIN Held(b) \cap DOMAIN Held(c)
Absent(b, c) == DOMAIN Held(c) \ DOMAIN Held(b)
LowSets(S)   == {T \in SUBSET S : \A x \in T, y \in S : y < x => y \in T}
HighSets(S)  == {S \ T : T \in LowSets(S)}

\* A few chunks are inserted into the table (insert_absent_from), more are
\* merged with it in a new block.
IsFew(b, c) == FewRatio * Length(heap, table[c]) < Length(heap, table[b])
FitsInPlace(t, b, c, H) == Length(H, t) + Cardinality(Absent(b, c)) <= RoomOf(H, t)

\* A shared payload that is full is the union already, where both are bitsets.
Saturated(H, t, S) == {d \in S : ~Unshared(H, t, d) /\ H.keys[H.entries[t][d]] = Lows}

\* The chunks of b whose containers may be built in parked payloads: of a merge,
\* those before the first it inserts.
MayReuse(b, c, S) == IF IsFew(b, c) THEN S ELSE {d \in S : \A a \in Absent(b, c) : d < a}

\* The heaps in which the chunks S of at.table hold the union.
United(b, c, at, S) ==
  IF S = {} THEN {at.heap}
  ELSE UNION {{UnitedIn(at.heap, at.table, pool[b], Held(c), S \ kept, from) :
                 from \in Reuses(at.heap, pool[b], {d \in MayReuse(b, c, S \ kept) :
                                                     ~Unshared(at.heap, at.table, d)})} :
              kept \in SUBSET Saturated(at.heap, at.table, S)}

Copies(b, c, H, A) == Copied(H, Restrict(Held(c), A))

WithAbsent(b, c, H, t) ==
  LET copy == Copies(b, c, H, Absent(b, c))
      more == Length(H, t) + Cardinality(Absent(b, c))
      in   == IF IsFew(b, c) THEN WithRoom(copy.heap, t, more)
              ELSE Relocated(copy.heap, t, Length(H, t) + Length(H, table[c]))
      done == Put(in.heap, in.table, copy.entries)
  IN  [heap |-> IF IsFew(b, c) THEN done ELSE Released(done, pool[b]), table |-> in.table]

UniteSame(b, c) ==
  /\ Answers("done")
  /\ UNCHANGED <<heap, table, pool, size, context>>

UniteAll(b, c) ==
  LET at     == OwnTable(table[b], 0)
      merges == Absent(b, c) # {} /\ ~IsFew(b, c)
  IN  \E same \in United(b, c, at, Common(b, c)) :
        LET all == IF Absent(b, c) = {} THEN [heap |-> same, table |-> at.table]
                   ELSE WithAbsent(b, c, same, at.table)
        IN  /\ Becomes(b, all.heap, all.table, SizeIn(all.heap, all.table))
            /\ pool' = [pool EXCEPT ![b] = IF merges THEN Null ELSE @]
            /\ IF at.table # table[b] \/ Absent(b, c) # {} THEN Advance({b}) ELSE UNCHANGED context
            /\ Answers("done")

\* A slip: the chunks inserted by a union that fails are not counted.
UniteUncounted(b, c) ==
  /\ MayFail /\ IsFew(b, c) /\ FitsInPlace(table[b], b, c, heap)
  /\ \E T \in HighSets(Absent(b, c)) \ {{}, Absent(b, c)} :
       LET copy == Copies(b, c, heap, T)
       IN  Becomes(b, Put(copy.heap, table[b], copy.entries), table[b], size[b])
  /\ Answers("threw")
  /\ UNCHANGED <<pool, context>>
\* The table could not be copied; or the union has gone through a part of the
\* chunks b holds; or through them all, and the last of those it lacks are
\* inserted in place.  None of it advances the generation, the entries that the
\* insertion moved included: callers give the context up then.
UniteFails(b, c) ==
  LET at      == OwnTable(table[b], 0)
      inPlace == IsFew(b, c) /\ FitsInPlace(at.table, b, c, at.heap)
      Fails(H) == Becomes(b, H, at.table, SizeIn(H, at.table))
  IN  /\ MayFail
      /\ \/ at.table # table[b] /\ UNCHANGED <<heap, table, size, context>>
         \/ /\ \/ \E S \in LowSets(Common(b, c)) \ {Common(b, c)} :
                    \E same \in United(b, c, at, S) : \E H \in Wasted(same, pool[b]) : Fails(H)
               \/ /\ Absent(b, c) # {} /\ ~(inPlace /\ Refcounted(heap))
                  /\ \E same \in United(b, c, at, Common(b, c)) : Fails(same)
            /\ IF at.table # table[b] THEN Advance({b}) ELSE UNCHANGED context
         \/ /\ inPlace /\ ~Refcounted(heap)
            /\ \E T \in HighSets(Absent(b, c)) \ {{}, Absent(b, c)} :
               \E same \in United(b, c, at, Common(b, c)) :
                 LET copy == Copies(b, c, same, T)
                 IN  Fails(Put(copy.heap, at.table, copy.entries))
            /\ IF ResetsContext THEN Advance({b}) ELSE UNCHANGED context
      /\ Answers("threw")
      /\ UNCHANGED pool

Unite(b, c) ==
  /\ b # c /\ MayBeCopied(c)
  /\ IF TableSharing(heap) /\ table[b] = table[c] /\ table[b] # Null THEN UniteSame(b, c)
     ELSE UniteAll(b, c) \/ UniteFails(b, c)

-----------------------------------------------------------------------------
\* union_into: a | b built in s, whose table it parks for its payloads. A chunk
\* of one side is a copy of the handle; one of both is built anew.
Both(a, b) == DOMAIN Held(a) \cup DOMAIN Held(b)
UnionAt(a, b, d) == LowsOf(a, d) \cup LowsOf(b, d)

\* s with its table parked and room for the chunks of both sides.
Cleared(a, b, s) ==
  LET parked == Parked(heap, s)
      need   == Length(heap, table[a]) + Length(heap, table[b])
      in     == IF need <= RoomOf(parked.heap, parked.table)
                THEN [heap |-> parked.heap, table |-> parked.table]
                ELSE Relocated(parked.heap, parked.table, need)
  IN  [heap |-> in.heap, table |-> in.table, pool |-> parked.pool]

\* The heaps in which s holds the chunks S.
Filled(a, b, at, S) ==
  LET one  == {d \in S : d \notin Common(a, b)}
      copy == Copied(at.heap, [d \in one |-> IF HoldsChunk(a, d) THEN Held(a)[d] ELSE Held(b)[d]])
      new  == [d \in S \ one |-> UnionAt(a, b, d)]
  IN  IF S = {} THEN {at.heap}
      ELSE {LET made == Made(copy.heap, at.pool, new, from)
            IN  Put(Put(made.heap, at.table, copy.entries), at.table, made.entries) :
              from \in Reuses(at.heap, at.pool, S \ one)}

UnionInto(a, b, s) ==
  LET at == Cleared(a, b, s)
  IN  \E H \in Filled(a, b, at, Both(a, b)) :
        /\ Becomes(s, H, at.table, SizeIn(H, at.table))
        /\ pool' = [pool EXCEPT ![s] = at.pool]
        /\ Advance({s})
        /\ Answers("done")

\* The room could not be had, or the next container d. The size of a container
\* to be copied is counted before it is copied.
UnionIntoFails(a, b, s) ==
  LET at     == Cleared(a, b, s)
      parked == Parked(heap, s)
  IN  /\ MayFail
      /\ \/ /\ at.table # parked.table
            /\ Becomes(s, parked.heap, parked.table, 0)
         \/ \E S \in LowSets(Both(a, b)) : \E d \in Both(a, b) \ S :
              /\ S \cup {d} \in LowSets(Both(a, b))
              /\ \E filled \in Filled(a, b, at, S) :
                   \/ /\ d \notin Common(a, b) /\ ~Refcounted(heap)
                      /\ Becomes(s, filled, at.table,
                                 SizeIn(filled, at.table) + Cardinality(UnionAt(a, b, d)))
                   \/ /\ d \in Common(a, b)
                      /\ \E H \in Wasted(filled, at.pool) :
                           Becomes(s, H, at.table, SizeIn(H, at.table))
      /\ pool' = [pool EXCEPT ![s] = at.pool]
      /\ Advance({s})
      /\ Answers("threw")

UniteInto(a, b, s) ==
  /\ s # a /\ s # b /\ a # b
  /\ MayBeCopied(a) /\ MayBeCopied(b)
  /\ UnionInto(a, b, s) \/ UnionIntoFails(a, b, s)

-----------------------------------------------------------------------------
\* A program that makes these calls on the bitmaps B, with these keys.
Step(B, calls, keys) ==
  \E b \in B :
    \/ "clear" \in calls /\ Clear(b)
    \/ "union_into" \in calls /\ b \in Scratches /\ ClearKeepCapacity(b)
    \/ "add_bulk" \in calls /\ EndContext(b)
    \/ \E c \in B :
         \/ "assign" \in calls /\ Assign(b, c)
         \/ "swap" \in calls /\ Swap(b, c)
         \/ "unite" \in calls /\ Unite(b, c)
         \/ \E s \in B \cap Scratches : "union_into" \in calls /\ UniteInto(b, c, s)
    \/ \E k \in keys :
         \/ "add" \in calls /\ Add(b, k[1], k[2])
         \/ "add_bulk" \in calls /\ AddBulk(b, k[1], k[2])
         \/ "contains_bulk" \in calls /\ ContainsBulk(b, k[1], k[2])
         \/ "remove" \in calls /\ Remove(b, k[1], k[2])

Calls == {"assign", "swap", "clear", "add", "add_bulk", "contains_bulk", "remove", "unite",
          "union_into"}

Next == Step(Bitmaps, Calls, Keys)

Spec == Init /\ [][Next]_vars

-----------------------------------------------------------------------------
(***************************************************************************)
(* What bitmap keeps whatever its copies share: the counts are right, every*)
(* bitmap has its own keys, and a context is what the next bulk call takes *)
(* it for.                                                                 *)
(***************************************************************************)
\* The blocks, payloads and fields of chunk_array, container_handle, bitmap and
\* bulk_context hold values of their types.
TypeOK ==
  /\ heap \in [policy : Policies, entries : [Tables -> Entries], holders : [Tables -> Nat], room : [Tables -> Nat],
               keys : [Payloads -> SUBSET Lows], refs : [Payloads -> Nat]]
  /\ table \in [Bitmaps -> Tables \cup {Null}]
  /\ pool  \in [Bitmaps -> Tables \cup {Null}]
  /\ size  \in [Bitmaps -> Nat]
  /\ context \in [Bitmaps -> Contexts \cup {NoContext}]
  /\ answer \in {"done", "true", "false", "threw"}

HoldersOf(t) == Cardinality({b \in Bitmaps : table[b] = t}) + Cardinality({b \in Bitmaps : pool[b] = t})
EntriesOn(p) == {at \in Tables \X Chunks : at[2] \in DOMAIN heap.entries[at[1]]
                                             /\ heap.entries[at[1]][at[2]] = p}

\* The count of a table is the number of stores that hold it, the count of a
\* payload the number of handles on it (rc_increment and rc_decrement_is_last in
\* every copy, detach, release and barrier): nothing leaks, and nothing is freed
\* while a bitmap holds it.  A block that counts no holders has at most one.
CountsAreHolders ==
  /\ \A t \in Tables : /\ heap.holders[t] = HoldersOf(t)
                       /\ heap.holders[t] = 0 => heap.entries[t] = NoEntries
                       /\ heap.holders[t] > 1 => Counted(heap, t)
  /\ \A p \in Payloads : /\ heap.refs[p] = Cardinality(EntriesOn(p))
                         /\ heap.refs[p] > 1 => Refcounted(heap)

\* A pool is its bitmap's alone (clear_retiring_slots() parks no shared table).
PoolsAreOwn == \A b \in Bitmaps : pool[b] # Null => heap.holders[pool[b]] = 1

\* No chunk is left without a key, by a removal, a union, or an add that fails
\* (add_impl gives a new chunk its value first, remove erases an emptied one).
NoEmptyChunk == \A b \in Bitmaps : \A c \in Chunks : HoldsChunk(b, c) => LowsOf(b, c) # {}

\* size() is the number of keys held, also after a call that failed part way
\* (repair_cardinality, and the counts each call keeps).
SizesRight == \A b \in Bitmaps : size[b] = Cardinality(Contents(b))

\* The same where the containers of a scratch are copied whole, and may be so in
\* part: a union_into that fails has to count what it copied (README, "Deviations").
CopiesIntoScratch == Scratches # {} /\ ~Refcounted(heap)
SizeIsCardinality == ~CopiesIntoScratch => SizesRight
ScratchSizeIsCardinality == CopiesIntoScratch => SizesRight

\* Whatever two bitmaps share, and wherever an allocation fails in a call: the
\* counts are the holders', no bitmap keeps a chunk without a key, and size() is
\* the number of keys (detach, release, repair_cardinality, add_impl, remove).
BitmapsAreSound == TypeOK /\ CountsAreHolders /\ NoEmptyChunk /\ SizeIsCardinality

\* A context whose generation is the store's points to the entry of its chunk,
\* in the bitmap's own table (bulk_context, chunk_store::generation).
ContextCurrent ==
  \A b \in Bitmaps : context[b] # NoContext =>
    LET x == context[b]
    IN  /\ x.table = table[b]
        /\ HoldsChunk(b, x.chunk)
        /\ x.index = Below(DOMAIN Held(b), x.chunk)

\* A context that says its payload is private is on a payload no other handle
\* holds, in a table no other store holds: add_bulk writes it without looking.
ContextPrivate ==
  \A b \in Bitmaps : context[b] # NoContext =>
    (context[b].private =>
       /\ ~IsShared(heap, table[b])
       /\ HoldsChunk(b, context[b].chunk)
       /\ Unshared(heap, table[b], context[b].chunk))

\* A context of an earlier call is all the next bulk call has: where it matches,
\* the slot is its chunk's, and where it is written without the barrier, nothing
\* else reaches the payload (bitmap.hpp 595-660).
ContextIsSound == ContextCurrent /\ ContextPrivate

\* A call that finds it changes nothing leaves the table shared, and allocates
\* nothing for it (unchanged_while_shared in add and remove, contains_bulk).
UnchangedStaysShared ==
  [][answer' = "false" =>
       \A b \in Bitmaps : IsShared(heap, table[b]) =>
         table'[b] = table[b] /\ heap'.holders = heap.holders]_vars

\* A call changes no bitmap but the one it is made on, and answers for that one:
\* copies that share tables and payloads are values of their own.
Values == INSTANCE BitmapValues WITH
            val  <- [b \in Bitmaps |-> Contents(b)]
ImplementsBitmapValues == Values!Spec
=============================================================================
