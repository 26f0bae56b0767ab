# A TLA+ model of frsr::roaring

The library is a roaring bitmap in C++: a set of integers kept as a sorted table of
*chunks* (the high bits of the keys), each with a *container* of low keys (an array, a
bitset or runs). Its core is `src/include/frsr/roaring`. Two things are hard in it. One is who
shares what: copies share payloads, tables or whole bitmaps, count their holders, and copy
before they write; contexts remember where the last call was; scratch bitmaps rebuild
containers in payloads they parked; and allocations fail in the middle of all of it. The other
is where things are written: kernels merge a container in the memory they read it from, by whole vectors;
a tree of chunks is indexed by leaves that split, merge and move; images are read in place from files
that may be cut short.

The project models the sharing from whole bitmaps down to the accesses of one count, the containers down to
the iterations of their kernels, the tree, and the images.

Contents: 1 the system · 2 the modules · 3 the runs · 4 the proofs · 5 what the models
found · 6 what is not modelled · 7 the plan.

## 1 The system

| part (source) | state | operations | correct when |
|---|---|---|---|
| shared handles (`shared_bitmap.hpp`) | a pointer to a counted block and a cached size per handle; the block's count and bitmap | copy, move, swap, add, remove, `\|= &= -= ^=`, clear, edit | a handle is a set of its own; counts are the holders; no write to a shared bitmap; nothing dangles or leaks, whatever the threads' order and whatever fails |
| reference counts (`cow_policy.hpp`) | a word | construct, load, increment, "decrement, was I the last" | exactly one holder is the last, and sees what the others did; who is told it is alone is alone |
| chunk table (`chunk_array.hpp`) | keys, handles, size, capacity; a count in front of a block of more than a few entries | find, insert, erase, bulk insertion, share, detach, grow, release | the count is the number of tables on the block, the entries stay sorted, failures leave a table |
| chunk store (`chunk_store.hpp`) | the live table, a table of parked (retired) payloads, a generation | the table's, plus clear and park, take a parked payload, rewrite | pools are never shared; the generation tells a restructured table |
| container handle (`container_handle.hpp`) | kind, counts, endpoints, flags, payload inline or in a block, ownership | copy (counted), alias, borrow, barrier of copy on write, release, reuse, updates | a payload is written by its only handle; the header tells the truth about it; blocks are freed with the size they were made with |
| bitmap (`bitmap.hpp`, `bitmap_definitions.hpp`) | a store and a size; *bulk contexts* outside it | point operations, bulk operations on a context, set operations, folds, ranges, optimize | a set; `size()` is its cardinality; copies are independent |
| containers and kernels (`containers.hpp`, `*_ops.hpp`, `run_container.hpp`) | low keys in one of three forms | add, remove, the set operations | the set operation, in a form that is valid |
| chunk tree (`chunk_tree.hpp`) | a chain of leaves, and over it inner levels or a flat directory of buckets | search, insert, erase, append, rewrite, copy | a sorted map; the index leads to every entry; a failed call changes nothing |
| frozen images and streams (`serialization.hpp`), ranked view (`ranked_view.hpp`), persistent bitmap | bytes | write, validate, view, rank, select, read back | what is read is what was written; an image that is not whole is refused |
| interoperation (`interop*.hpp`), erased views (`bitmap_view.hpp`) | none | set operations with ranges, words, intervals | those of the set the operand stands for |

They interact by calls: a `shared_bitmap` holds a `bitmap`, which owns a `chunk_store`, which
owns two `chunk_array`s of `container_handle`s; tables and payloads are shared memory
between the bitmaps that are copies of each other, possibly on several threads. There are
no locks, messages or timers: concurrency is in the counts, failure is `std::bad_alloc` or a process that
dies while it stores a file, and ordering is which call of a sequence comes between a state being
remembered (a context, a cached size, a stale count, a parked payload, a separator) and being used.

The hazards this gives are listed at their lines in `PROJECT.json`, with the properties
that would catch each.

## 2 The modules

A component is modelled as: the memory it works on; the detailed specification; its properties
(the end of its module); an abstract specification it implements, where it has a caller to make promises to; the
instances TLC checks (`...MC`); and the proofs (`...Proofs`, `...Refinement`).

| modules | model | implements |
|---|---|---|
| `HandleCalls`, `SharedBitmap` (`Proofs`, `Refinement`, `MC`) | `shared_bitmap.hpp`, access by access | `HandleValues` |
| `ChunkHeap` (`Proofs`), `BitmapCopies` (`Proofs`, `MC`) | bitmaps that share tables and payloads, call by call | `BitmapValues` |
| `PayloadHandles` (`Proofs`, `MC`) | single containers and their storage, call by call, allocation by allocation | |
| `PayloadRace` (`MC`, `Proofs`) | the count of one payload under the C++ memory model | |
| `ChunkLevels`, `ChunkDirectory`, `ChunkTree` (`MC`) | `chunk_tree.hpp` | `SortedMap` |
| `RunLists`, `RunKernels` (`Proofs`), `RunBatch` (`RunLoopsMC`) | the loops over runs | `SetCombination` |
| `BitsetWords`, `ArrayKernels`, `ArrayPasses`, `BitsetKernels`, `Searches`, `ContainerForms`, `ContainerPairs` (`ContainerKernelsMC`) | the loops over arrays and words, the searches, the choice of a form | |
| `LazyFold` (`MC`, `Proofs`) | one bitmap between a fold and its finisher | |
| `FrozenImage`, `FrozenQueries`, `PortableStream`, `Images` (`MC`) | files and streams | |

A definition introduced by the comment "A slip:" is wrong on purpose: it is what the
definition it precedes would be after a plausible mistake, and the run it is listed with in `PROJECT.json` fails when it takes
the other's place.

### 2.1 Shared handles

- `HandleCalls`: the calls a program makes on handles, the callers' rule (a handle that a call
  may change is in use by no other call), what a call computes (`Combined`) and what a change
  that fails part way may leave (`LeftByFailure`, from the README's "Exceptions").
- `HandleValues`: the abstract specification. Every handle holds a set of its own; a call takes
  effect in one step between its start and its return. Nothing is counted or shared.
- `SharedBitmap`: `shared_bitmap.hpp`. `ref` is the pointer of a handle, or the local pointer of
  a call in progress (a temporary, `change_end::left_`, the argument of `release`); `count` and `value`
  are the block; `size` the cached `size_`; `pc`, `call`, `arg`, `outcome` are where each thread is.
  One action is one access to memory another thread may touch:

  | code | actions |
  |---|---|
  | early returns, `shares_storage_with` | `Enter` |
  | copy and move assignment, `clear`, `swap`, construction from a bitmap | `Share`, `Move`, `Clear`, `Swap`, `Make` |
  | first `is_unique()` and the question asked of a shared bitmap | `TestUnique`, `Ask` |
  | `take_own()`: new block, second `is_unique()`, copy | `OwnNew`, `OwnTest`, `OwnCopy` |
  | the change, `change_end` | `Change`, `Refresh` |
  | `edit()` and the editor's life | the same, then `EditorWrite`, `EditorEnd` |
  | `release`, `rc_decrement_is_last` (load, then decrement), `delete` | `Release`, `Subtract`, `Free` |

  An allocation (`Make`, `OwnNew`, `OwnCopy`) or a change (`Change`) may fail; the operand
  of an operator may be the handle's own bitmap (`h -= h.get()`, the `_raw` calls).
- The end of `SharedBitmap` has the properties and the inductive invariants `IInv` and `VInv`; `SharedBitmapProofs` and
  `SharedBitmapRefinement`: section 4.

### 2.2 Bitmaps and their copies

- `ChunkHeap`: the memory, as operators on a heap `H` of tables and payloads: counted copies of
  handles (`Copied`), the barrier of copy on write (`Own`), sharing, detaching, releasing, growing
  and copying tables, and parked payloads (`Reusable`, `Made`, `Wasted`).
- `BitmapValues`: the abstract specification. A bitmap is a set; a call changes the bitmap it is
  made on and no other; a union that fails leaves every key the left side held and adds none
  but the right side's.
- `BitmapCopies`: the calls. `heap` is the memory, `table` and `pool` the store's live and retired
  tables, `size` the bitmap's `size_`, `context` the bulk context on each bitmap. One call is one
  action with everything it does, a failing call one action per place it may fail at.

  | code | actions |
  |---|---|
  | `operator=` (copy and swap), `swap` | `Assign`, `Swap` |
  | `clear`, `clear_keep_capacity` (`clear_retiring_slots`) | `Clear`, `ClearKeepCapacity` |
  | `add_impl`: `unchanged_while_shared`, `unshare`, insertion, barrier, promotion | `AddOfHeld`, `AddChunk`, `AddToChunk`, `AddFails`, `AddToChunkFails` |
  | `add_bulk` on a context that matches; `contains_bulk` | `AddThrough`, `ContainsBulk` |
  | `remove` | `RemoveAbsent`, `RemoveFromChunk`, `RemoveFails` |
  | `operator\|=`: `union_few` with `insert_absent_from`, or `union_merge` | `UniteSame`, `UniteAll`, `UniteFails` |
  | `union_into` a scratch | `UnionInto`, `UnionIntoFails` |

  A context whose generation is no longer the store's is the same as none (the next bulk call
  finds it stale), so the generation is not a counter: advancing it takes the context away.
  It is 32 bits wide in the code; that a context is kept through 2^32 restructurings is left out.

The heap carries the policy of its bitmaps, one of `Policies`: `values` (a copy copies every
payload), `payloads` (a refcounted policy), `tables` (table sharing besides). The other
constants follow the build and the program: the largest table that is not counted (`SmallTable`, a knob
of `table_sharing_policy.hpp`), the least capacity (`LeastRoom`, 4 in the code), how much larger
than its operand a table is for `union_few` (`FewRatio`, 8 in the code), whether allocations fail
(`MayFail`), whether callers give up a context when the call threw that was made on it, or that was inserting
chunks under it (`ResetsContext`), the keys and which bitmaps are scratches
(`Keys`, `Scratches`).

A call is made by a *program* (`Programs` of `BitmapCopiesMC`), which is the set of calls, bitmaps and keys of
one instance: `copies` copies and changes bitmaps, `scratch` builds unions in a scratch it keeps, `contexts` adds and asks
through bulk contexts. The properties are at the end of `BitmapCopies`; `BitmapsAreSound` and
`ContextIsSound` are conjunctions of the ones before them. `ChunkHeapProofs` has what every operation on the heap keeps, for any heap;
`BitmapCopiesProofs` has the calls, the invariant and the refinement (section 4.6).

### 2.3 Runs

A container of runs is a list of closed intervals of low values, `[begin, end]`, in order, no two
of which touch. The hard part is not what is computed but where: the end of a run may be the
last value there is, runs that are read ahead must be read again when a side moves on, the
result has the room that was counted before the pass, and a batch is merged into the payload it
reads.

- `RunLists`: lists of runs, and the ways `run_ops.hpp` and `containers.hpp` append a run to one. `AsLow` is
  the conversion to `low_type`, which wraps.
- `SetCombination`: the abstract specification of all of them. The set operation is answered once,
  with its values and its cardinality.
- `RunKernels` (its properties at its end, as `RunBatch`'s):

  | code (`run_ops.hpp`) | actions |
  |---|---|
  | `union_run_run`, `union_run_array`, `xor_runs`, `xor_values_runs` | `TakeLeft`, `TakeRight`, `Merged` |
  | `intersect_runs`, `intersect_runs_cardinality` | `SkipLeft`, `SkipRight`, `EmitShared`, `Intersected` |
  | `difference_run_run`, `difference_run_values` | `NextLeft`, `Cut`, `KeepRest`, `Merged` |

  `li` and `ri` are the indices of the loops and `left`, `right` the runs they hold in local variables; `covered`
  is the count the code keeps on the way, or `sync_header` at the end.
- `RunBatch`: `run_ref::add_sorted` in `container_handle.hpp`. `own` and `grown` are the
  two blocks of memory, place by place. `Plan` counts the runs the batch opens and makes the room
  (above the unread runs of the payload, or in another block); `MoveBlock`, `AbsorbPrevious`, `AbsorbNext`,
  `PutMerged` are the loop over the groups; `MoveRest` ends it.
- `RunLoopsMC` runs one or the other: a kernel to its end, then the batch merge. `KernelsAreSound` and `LoopsAreSound`
  are what holds between two iterations of the former and of the latter; the former is proved (section 4.7).

Galloping and binary searches are their result (`Reaching`, the first run that ends at or beyond a
value); an array operand is a list of one-value runs. What the form of the result is
afterwards (`settle`, an array when that is smaller), and an allocation that fails in `add_sorted`, before
it writes anything, are left out.

### 2.4 Lazy folds

`LazyFold` (instance in `LazyFoldMC`) is one bitmap from its first fold to
its finisher and on. `chunks` is the table, each container with the `kind`, the keys, the count of its header and
whether that is `stale`; `size` is `size_`, with `Deferred` for `size_deferred`; `shared` is `must_unshare()`,
which is all that a call can see of the copies that hold its table; `sharing` is the build's table sharing. Two
variables are not the code's: `awaits` is what the caller owes (the finisher
that the folds since the last one call for), and `model` the set of keys the calls should have left, as the
bit-per-key model of `tests/lazy_fold_state.cpp` has it.

| code | actions |
|---|---|
| `bulk_or_intermediate` (`bulk_or_inplace`), `bulk_xor_intermediate`, `lazy_xor_same_key` | `bulk_or_inplace`, `bulk_xor_intermediate` |
| the four finishers | `bulk_or_finish`, `bulk_or_finish_keep_bitsets`, `bulk_or_repair_after_lazy`, `bulk_xor_repair_after_lazy` |
| `add`, `remove`: the counts are not settled first | `Add`, `Remove` |
| `\|= ^= &= -=`, `add_many_sorted`, `remove_many_sorted`: `settle_counts()` first | `Unite`, `ExclusiveOr`, `Intersect`, `Subtract`, `AddMany`, `RemoveMany` |
| `optimize`, `optimize_keep_bitsets`, `clear` | the same names |
| a copy that shares the table, and the last such copy let go | `Copy`, `CopiesLetGo` |

Which form a result takes rests on serialized sizes that small domains cannot have; it is any form the code
allows a container of that many values: from `ArrayMax` values on a bitset may stand, up to `ArrayMax` an array, and
runs anywhere a size decision is made.

### 2.5 Single containers and their storage

`PayloadHandles` (`container_handle.hpp`) is a set of handles, each a header (`kind`, `count`, `card` and whether it is
`exact`, `ends`, `owner`, `capacity`) and the place of its payload: in the handle, in a block of the heap, or in
memory of somebody else (a frozen image, or another handle's block that is aliased). `block` has for every block its
count, its size and what it holds, `mapping` what the image holds. Two variables are not the code's: `counted` is the
policy of the build, and `held` the values the calls should have left in each handle.

Operations are written as functions of a *world* (handles, heap, image, and how many allocations still succeed), in
the order of the code, so that the step that is refused its allocation throws and what came before it stays done.

| code | actions |
|---|---|
| `make_array_from_sorted`, `make_run`, `make_bitset` | `Make` |
| `make_borrowed`, `make_borrowed_alias` | `Borrow`, `Alias` |
| copy, move assignment, destructor or `reset` | `Copy`, `Move`, `Drop` |
| `make_payload_unique` with both clones, then a single update | `Add`, `Remove` |
| the sorted batches of the three kinds | `AddAll`, `RemoveAll` |
| the word kernels that leave the count stale, and the repair | `Fold`, `Repair` |
| `ensure_endpoints`, `shrink_to_fit`, reuse of a retired payload | `ReadEnds`, `Shrink`, `Reuse` |

A payload is the set of its values, so how a kernel writes it is for 2.7. `MayChange` is the promise that goes with an
alias (`container_handle.hpp:438`): whoever owns the payload leaves it alone while the alias lives. Under value semantics a refused
allocation in the barrier ends the process (the barrier is `noexcept` there), so it is no step.

### 2.6 One count and its memory orders

`PayloadRace` is one counted payload and the threads that hold handles on it. Every access is a step: an increment
(relaxed), the decrement (release), the load (acquire), the fence of the one that frees, and the plain reads, copies and writes of the
payload. The count is the list of all the values it had; a load may return an old one. A *view* is the set of the steps a thread has not seen, so
that a data race is a step whose view holds a conflicting one. `Publish` and `TakeBack` are the caller's
synchronization: a handle that any number of threads may copy while its owner leaves it alone. The variant of
`rc_decrement_is_last` for thread sanitizers orders the same steps (`SharedBitmap` has both ways to be last).

### 2.7 Container kernels

The loops over arrays and words, one action per iteration (a vector, a block, a word, a run, a value).

| module | code | state |
|---|---|---|
| `BitsetWords` | words as sets of bits, masks | |
| `ArrayKernels` | `array_ops.hpp`: intersection, union, difference, exclusive-or of two arrays; scalar, four at a time, by vectors, skewed; to another vector or in place; and the dispatch (`KernelFor`) | cursors, the vectors held back, a memory of places of which an operand in place is part; `stored` are the places the last step wrote, outside of it too |
| `ArrayPasses` | an array filtered by runs or words, counted against runs; a sorted batch merged in or taken out | the same for one array |
| `BitsetKernels` | decoders of words (by bytes, by words, by groups, branchless), fills of runs by words, word-wise combinations | words, output slots, `fresh` (where a fill may no longer expect zeros) |
| `ContainerForms` | which of the three forms a result gets: building, ranges, `optimize`, with the room the runs were allocated with | the container, what was asked for and what was used |
| `ContainerPairs` | the kernels for pairs of forms of `container_ops.hpp` and what form they leave; runs minus words, counted and written from one scan | the same |
| `Searches` | gallops, halvings, quarters, windows, the vector search of a chunk table | pure operators; reading outside the list is an error of TLC |

`ContainerKernelsMC` runs them side by side; in a behaviour only one family moves.

Vectors of 8, 16 and 32 lanes have one width, `Lanes`; lanes that are written beyond the values that count hold
what the code leaves there. The Harley-Seal population count is its result. Merges of arrays and runs inside
`ContainerPairs` stand for their sets, since `ArrayKernels`, `ArrayPasses` and `RunKernels` step through them. Endpoints
in headers are for `PayloadHandles`. Early returns of a kernel for empty operands or an operand that is its own partner are
left out where the dispatch in front has returned already.

### 2.8 Chunk tree

`ChunkLevels` has the leaves and the inner levels, `ChunkDirectory` the flat directory that takes their place in a dense table, and
`ChunkTree` the operations. An entry is its key; a leaf is its place in the chain, so linking one in
renames those behind it, and a name left for a leaf that is gone is `Dangling`. A name of an emptied leaf that was freed reads as an empty
leaf in the model. A call is one step; a call that is refused an allocation is a step of its own, after the preparations
the code makes first (`InsertionFailed`, and `Rewrite` without memory for the index).

| code | actions |
|---|---|
| `insert`, with `append_guarded`, `split`, `insert_in_parent`, `prepare_split`, `split_indexed`, abandoning or adopting the directory | `Insert`, `FailToInsert` |
| `erase`, with absorbing neighbours, unlinking, `last_decreased` | `Erase` |
| `open_back` without its `commit_back` (a result that came out empty) | `OpenBack` |
| `insert_absent_from`, the rewriter | `InsertAbsentFrom`, `Rewrite` |
| `shrink_to_fit`, `copy_from`, `release` | `ShrinkToFit`, `CopyFrom`, `Release` |
| `find`, `lower_bound` (from the root, the directory or a position), cursors forward and back | operators, asked in every state by `SearchesAgreeWithTheWalk` |

These modules use RECURSIVE operators, and so have no theorems. `merge_with_sibling` (`chunk_tree.hpp:1576`) is
called by nothing and left out. Two calls break the tree (section 5, 1 and 2), so `chunk_tree` is run without them: the CONSTANT
`ErasesLastBeforeOpened` excludes the one, and `AboveTableSpec` of `ChunkTreeMC` the other, by a conjunct added to `Next`. The actions
themselves perform both, and each has a run that shows what follows.

### 2.9 Images and streams

`FrozenImage` is the frozen layout and its validation, with offsets in units of two bytes; `FrozenQueries` what is answered from it (a
ranked view's rank and select included) and the bitmaps borrowed or copied from it; `PortableStream` the standard format,
with offsets in bytes; `Images` is a file from the writer to the reader: `Resize`, `MarkHeader`, `CountHeader`, `WritePayloadOf`,
`WriteEntryOf`, `Store` are the frozen writer's stores in program order, `Die` the death of the process between any two, `WriteStream` the
other writers, `Cut`, `Embed` and `Exchange` what may happen to a file, `Open`, `Materialize`, `ReadPortable`, `Replay` the readers.

A process that dies leaves what it stored, in the order it stored it: the mapping survives the process. Power loss, which
may keep later stores and lose earlier ones, is not modelled. The replay format has no protection but its count. Only portable streams are met with
exchanged values, as the code does not look into the payloads of a frozen image. A header holds what
its writer stored: sizes no writer stores are not enumerated. The streams of `foreign64` are those of another writer, who splits
runs; what is read keeps its list of runs, joined as the reader joins them (`KeptWith`).

### 2.10 Abstractions

A bitmap held by a handle, and a container of `BitmapCopies`, is the set of its keys. In `BitmapCopies` payloads are the spilled
ones (an inline payload is part of its handle and copied with it, so it cannot be shared; `PayloadHandles` has both). Which
parked payload suits a container, by its kind, is left open: any sole-owned one may, or none. The
capacity of a table doubles, as it does up to 1024 entries. A bitmap moved from, and `b |= b`
(which returns at once), are left out of `BitmapCopies`.

In `LazyFold` payloads are not shared and allocations do not fail (both are `BitmapCopies`'); the table of any bitmap
that holds a chunk may be shared, where the code asks for room for more than `small_table_capacity` chunks; the knobs
`union_checks_first`, `subtract_checks_first` and `optimize_aside` have their default values. Operands are finished bitmaps,
and not copies of the bitmap itself.

## 3 The runs

Deadlock is checked where a component can always be called: `SharedBitmap`, `BitmapCopies`, `LazyFold`. It is not where a behaviour ends:
a loop that has returned (`run_loops`, `container_kernels`), a file that was read (`images`), a payload that was freed
(`payload_race`), a full tree or heap of which nothing is asked (`chunk_tree`, `payload_handles`). That every
loop over runs does return is part of the refinement of `SetCombination`.

| run | instance | shows |
|---|---|---|
| `shared_bitmap` | 2 threads, 3 handles, 4 blocks, every operation: `racing` over one key, and `alone` (one call at a time) over two | `CountsHolders`, `NoDangling`, `NoLeak`, `WritesOwnBitmapOnly`, `SizeIsCardinality`, `ChangedByOwnCallOnly`; `SharedBitmap` implements `HandleValues`, under every race and with operators that two keys tell apart |
| `shared_bitmap_freed` | 2 threads, 2 handles, fair | what no handle holds is deleted |
| `bitmap_copies` | failures, and three programs: `copies` (the three policies, 2 bitmaps, 3 chunks, one of two keys), `scratch` (the two policies that share payloads, a scratch and two bitmaps) and `contexts` (those two, two bitmaps with bulk contexts) | counts, sizes, no empty chunks; unchanged tables stay shared; `PoolsAreOwn`; a context that counts as current is; `BitmapCopies` implements `BitmapValues`, with parked payloads and contexts too |
| `run_loops` | every pair of sets of six values, for each kernel; every payload, shared or not, for the merge | the kernels and the merge implement `SetCombination`; iteration by iteration, that no run is lost, that unread runs are intact, that results are maximal and fit their blocks, that local copies are current |
| `lazy_fold` | 2 chunks of 4 values, 9 operands, 4 single keys, tables shared or not | whatever runs between folds and finishers: the keys are right, stored counts are never above the true ones, a deferred bitmap is known as one, only exclusive-ors leave empty chunks |
| `chunk_tree` | 7 keys, one far from the others; leaves of 2, a directory from 6 entries | `TreeIsSound` (what `validate()` checks), searches from everywhere agree with a walk, cursors keep their entries; `ChunkTree` implements `SortedMap`, failures included |
| `payload_handles` | 2 handles, 3 blocks, an image; 3 values, batches of 1 and 2, both policies | handles hold their values, headers tell the truth, blocks are accounted for, the image is only read |
| `payload_race` | 3 threads, 2 handles each, 4 values of the count | no data race, who is told it is alone is, the last one frees |
| `images` | 0 to 3 chunks of chosen forms, and one chunk with any values in any form; six formats | what is written lies as planned; only whole files are accepted; what is read back is what was written; queries on an image answer for its set |
| `container_kernels` | all pairs of arrays over six values, all bitsets of three words of four patterns, all containers of eight values in every form | results are the sets; stores stay in their buffers; work in place overwrites nothing unread; searches find the first; forms are those promised |
| `stale_separator_hides_key` | as `chunk_tree`, with `ErasesLastBeforeOpened` | `EveryKeyIsFound` fails: section 5, 1 |
| `freed_leaf_is_named` | as `chunk_tree`, with `Spec` in place of `AboveTableSpec` | `EveryBucketNamesALeaf` fails: section 5, 2 |

Bounds. Two threads are enough for each race on a count, whose accesses are of single
holders; three handles let a third keep a block alive or let go of it while two are at odds.
Four blocks are one more than the handles hold, for the copies in flight: `Allocated` needs a
free address and the threads need at most two at once; where none is free the call waits, so
no execution is cut that fewer blocks in use would allow. One key tells a set from the empty
one, two tell the operators from each other. In `BitmapCopies`, addresses are numbers
and an allocation gives the lowest free; there are as many as any state and call
needs, so `CHOOSE` never runs out: `RoomAssumption` asks for a table for the live and the retired store of each bitmap and one more,
and payloads for as many full tables. An allocation then fails where `MayFail` says so and nowhere else. `SmallTable = 1` and `LeastRoom = 1` put one-entry tables
on the uncounted side and larger ones on the counted. In `bitmap_copies` the program `copies` has
`FewRatio = 0`, which lets a table of one chunk with room for three take two more in place, and fail between them; the
programs `scratch` and `contexts` run `Large`, the same module with `FewRatio = 1`, which sends a merge of as many chunks
as the table holds the other way, and with `Builders` as its scratches. One container of two keys tells a write to a
shared payload from a private one; the other containers need a single key each to give the
tables their shapes.

In `run_loops` six values (`LastLow = 5`; the domain ends at the last one, as 2^16 does) give lists of up to
three runs on either side: a run in front of, inside and behind those it meets, and runs that
begin, end and touch at the two ends of the domain. Longer lists repeat these meetings,
as a loop's state is a pair of neighbouring runs. `SkewedRatio` (16 in the code) is 2, so lists of one run
against two take the path that copies runs in one block. `Spare = 3` unused places are as many as the
batch can open, so payloads are too small by any number, just large enough, or larger.

In `lazy_fold` a chunk has four values and arrays up to two (`ArrayMax`, 4096 in the code: a chunk of three values is
a bitset, one of four is full), so containers of all forms can grow to a full one and shrink to an empty one; the operands
hold one of each form, a full bitset and a full run. `UnionArrayMax` and `XorArrayMax` are 2: two arrays of one value merge as arrays,
larger ones go by way of a bitset. Of the two chunks one takes all the forms; the other is there to be held, absent,
emptied or rebuilt behind it. `Deferred = 100` is far from any size, and the single adds and removes are bounded by the
keys there are: a deferred size is moved by at most the difference between full and empty, so nothing counts up without bound.

In `chunk_tree` leaves hold 2 entries (15 in the code), inner nodes 2 separators (16), and a directory is considered from
6 entries (1024), so that seven keys give two inner levels, splits that reach the root, merges on both sides, and a
directory that is adopted, grows, is left and comes back; the far key makes buckets that no leaf ends in. Smaller slacks than
those of the configuration give directories that outlive their own range, which the code's constants rule out
(15 entries a leaf against 1024 and a slack of 16).

In `payload_handles` one value more than a handle holds inline makes a payload spill, and of two handles each may be the
one that shares, aliases, keeps or loses. A call makes at most two allocations (barrier and growth), so `Refusals` lets it be refused
the first, the second or none. In `payload_race` the third thread is the bystander that copies
while two let go; `Changes` ends the making of copies, not of decrements, so that every handle may still be dropped.

In `images` a chunk has eight values, words four bits, and bitmaps up to three chunks (two in one portable body and one in the next; with
and without the offsets that short streams leave out). In `container_kernels` `Lanes = 2` and `Four = 2` let six values make up to
three vectors with a tail on either side; the ends of the domain (0, which ends a string
comparison, and the last value, where `+ 1` wraps) are among them. The lists searched have up to 15 values in blocks of two (`Gap`, 16 in the
code): seven blocks take two rounds of quarters and then halves, with a value behind the last block. The thresholds that choose a kernel or a form are small
enough to be crossed both ways, with the code's order kept (`ArrayLimit * LowBytes` is `BitsetBytes`).

Symmetry and view. Threads, handles and blocks of `SharedBitmap` are interchangeable, but not under
liveness, where no symmetry is used; so are the handles of `PayloadHandles` and the threads of `PayloadRace` but its creator. In `BitmapCopies` the bitmaps are, and `UpToAddresses`
merges states that differ in addresses only (which table or payload has which number) or in the
answer of the last call; both determine the same successors up to renaming, and the
action properties are evaluated on every transition found.

Fairness. `FairSpec` is weak fairness of each thread's `Step`: a thread inside a call goes on with
it (no step of it waits for another thread), and a thread that took an editor ends
it. Nothing makes a thread start a call. `LetGoIsFreed` needs no more (`MCFairSpec` is the same for the instance). In `run_loops` the one thread of
control goes on with its loop (weak fairness of the next step). The other modules have no liveness to speak of: their calls are
single steps, or loops whose end is a state (`done`) the invariants are about.

## 4 The proofs

All of them are for every value of the constants, from the assumptions named in the modules: finite sets of threads, handles, chunks
and keys, sentinels that are no members of the sets they stand outside of, the limits in the order the code has them.

### 4.1 Shared handles: counts and blocks (`SharedBitmapProofs`)

For any finite sets of threads, handles and keys and any
set of addresses, `Spec` implies the type invariant, `CountsHolders`, `FreedByTheLast`,
`NoDangling`, `NoLeak`, `WritesOwnBitmapOnly` and the action property `ChangedByOwnCallOnly`.

None of the properties is inductive alone: that the last holder may delete rests on the count
being the number of pointers, which rests on the two calls that deal with one block not both
having decided to delete it, which rests on the callers' rule. `IInv` adds what each point of a
call knows: the calls in progress are compatible (`CallsCompatible`), which local pointers a call
has where (`CallShape`), from `take_own()` on the handle is the only holder of its block
(`SoleHolder`), the operand is held by the handle it came from or by the call itself when that
handle is being changed (`OperandHeld`), held blocks are live with counts of one or more. The
lemmas first establish how `Holders` and its cardinality change when a pointer is set, moved or
dropped; then one lemma per action shows that it keeps `IInv`, conjunct by conjunct;
`Invariant` combines them; each property follows from `IInv` by a short argument. The key
step is `OwnTest`: a count of one, with `CountsHolders`, leaves the handle as the only holder,
and the callers' rule leaves nobody to make another. `FreedByTheLast` is the key of `Subtract`,
which both the load of one and the decrement from one have to satisfy; no run repeats it (the
property of that name in `payload_race` is about payloads).

### 4.2 Shared handles: values (`SharedBitmapRefinement`)

`SizeIsCardinality` holds, and `SharedBitmap` implements `HandleValues` (`ImplementsValues`): whatever the threads' order, a call takes
effect in one step on its own handle, as if nothing were shared. A handle of `HandleValues` maps to the value of the block the handle points
at. `VInv` adds to `IInv` which operations come to which point of a call (`CallOps`), that a result is decided exactly once
(`DecidedOnce`: the step that does is the step of `HandleValues`, every other is a stutter), that a size is stale only between the change of the bitmap and its refresh (`SizesFresh`), and that
the operand of a call still has the keys of the handle it came from (`OperandIsRead`), even when that handle has been given a
copy of its own meanwhile. The last one is where sharing could show: a
call that reads its operand through a pointer and not through the handle. It needs `WritesOwnBitmapOnly` (nobody writes a block that
another pointer is on), and the callers' rule for the handle itself. `QuietStep` collects the steps that leave every value alone;
the remaining lemmas, one per action, show the step of `HandleValues` each one is; `RefinedStep` combines them with the initial states.

### 4.3 One count and its memory orders (`PayloadRaceProofs`)

For any number of threads, handles and changes of the count: `StepsAreOrdered` (no data race on the payload), `SoleOwnerStaysAlone`, `FreedByTheLast`.
`IInv` (in `PayloadRaceMC`, where the run evaluates it too) has two halves.
The first is about the count alone: it is the number of handles there are, lent ones included (`CountIsHeld`); a call in progress has a handle (`CallsHold`); every *old*
value that a holder may still load is above one (`OldOnesAreKnown`), so that an acquire load which reads one has read the last value there is, although the memory
model lets it read old ones; and whoever is in place to write or free is alone (`LettingIsAlone`).
The second is about the views: whoever has a handle has seen every write (`WritesSeen`); a thread that gave up its last handle
has released what it did into the last value of the count (`GivenUpIsReleased`), which holds along the release sequence since every later
change of the count is a read-modify-write; and the one that is told it is alone has acquired it (`AloneHasSeen`). A step that races would have to be missing
from the view of a thread that touches the payload, which these exclude access by access.

### 4.4 Lazy folds (`LazyFoldProofs`)

For any finite table, domain and well-formed operands, and any sequence of folds, finishers and ordinary calls: `KeysAreModel` (the keys are
those of the model) and `FoldIsSound` (stored counts are not above the true ones, a deferred bitmap is known as one, only exclusive-ors leave empty chunks).
The invariant that carries them is `SizeIsKnown`. A size is either exact, and then nothing is stale, or it is off
by `Deferred` from the fold that set it, less what single keys have moved it by since; and that is at most `Room`, the keys there can be,
which is far below half of `Deferred` (`BoundsAssumption`). Without the bound, a deferred size could be worn down by removes until
`settle_counts()` takes it for exact. For each kernel a lemma says that its containers hold the right keys with counts not above
(`FoldOrSound`, `FoldXorSound`) or exact (`KernelsExact`); `KeysByChunk` and `KeysCombine` take a statement about every chunk to one about the
table; each call is a lemma (`...Keeps`). The total of the counts is written as the number of places they take up (`Counted`), which can be reasoned about
where a fold over the table cannot.

### 4.5 Single containers and their storage (`PayloadHandlesProofs`)

For any finite set of handles, any domain and sizes, any image, and a heap with a block to spare (`RoomAssumption`: what is refused is
refused by `left`, not by running out of addresses), under both policies: the four properties of `payload_handles`,
`HandlesHoldTheirValues`, `HeaderTellsPayload`, `BlocksAreAccounted` and `ImageIsOnlyRead`. They need each other. That a write shows nowhere else needs the
accounts (a count of one, with every holder counted, leaves no other holder, and `MayChange` no alias: lemma `Sole`); that a payload is cloned whole, or freed with
the right size, needs headers that are true; and that headers are true needs the values to be the handle's own. To these `IInv` adds
that only borrowed handles are on the image, that only bitsets are counted late, and that the image is as it was mapped.

An operation is a composition of steps, any of which may be the one that throws, so the proof is about the worlds between the steps. `Sound(w, V)` is the invariant of a world whose
handles should hold `V`. `MadeUnique` says what the barrier leaves: the same values on a payload that only this handle reads (`Private`), or nothing done.
`EnsuredIsPrivate` says it of growth. Under `Own`, `InPlace` lets a handle rewrite its payload, and `Rehoused` is the one lemma about the accounts when a handle changes its place:
spilling, cloning, sharing, letting go and copying are all instances of it. Each operation then ends in `Done`: the image untouched, and either the values the call should leave or, if it was
refused, those there were. The lemmas on `BitsetTells`, `Late` and `Settled` follow a bitset through a fold, where the stored count may be below the true one but never above it.
What the sizes of blocks rest on enters in one place, `OpenedRuns`: a batch into runs gets room for the groups that its runs do not hold yet, and the result has no more runs than
that (`container_handle.hpp:1600-1645`).

### 4.6 Bitmaps and their copies (`ChunkHeapProofs`, `BitmapCopiesProofs`)

For any bitmaps, chunks, keys, scratches and sizes of tables, under the three policies, with or without failing allocations: `BitmapsAreSound`,
`PoolsAreOwn`, `ContextIsSound`, the action property `UnchangedStaysShared`, and the refinement of `BitmapValues`. The assumptions are `RoomAssumption` and, as the hypothesis of each
theorem, `ResetsContext = TRUE`, which is what `bitmap_copies` has; without it `ContextIsSound` does not hold (section 5), and what is written through a context that is wrongly called private
shows in a copy.

None of the properties is inductive. That a write to a payload shows in no other bitmap needs counts that are those of the holders, at both levels: a
payload is reached by the entries of tables, a table by stores. That counts are right after a call needs a pool nothing else holds, since a union moves handles out of it. `IInv` is

- `Account`: a payload's count is the number of entries on it, plus, within a call, what the call itself holds; a table nobody holds is empty, a table held twice is one
  that counts its holders, and no payload is held twice under value semantics;
- `Rooted`: a table's count is the number of stores that have it, live or retired, and a retired table has a count of one;
- `SharedNonEmpty`: a table that is shared has an entry. `clear_retiring_slots` leaves an empty table where it is without
  asking whether it is shared;
- `Fits`, of each bitmap: no chunk without a key, `size_` the number of keys (under value semantics with scratches, not below it: section 5), and a context that is where its slot is.

Its parts are close to what the runs evaluate (`CountsAreHolders`, `NoEmptyChunk`, `SizeIsCardinality`, `ContextIsSound`, `PoolsAreOwn`); TLC evaluated the rest on the programs of `bitmap_copies`.

A call is a composition of operations on the heap, and any of them may be the last before it throws, so the proof follows the call from heap to heap.
`Account(H, out)` says that the counts of `H` are right if `out` is what the call has taken out and not yet put anywhere; `ChunkHeapProofs` proves, for the barrier, detaching, growing, copying,
releasing, reusing a parked payload and dropping one, that they keep it, and which tables they leave as they were (`SameValue`, `Untouched`).
`Serves` is the same for the stores: from the heap the call began with, others keep the tables they have, and what these hold. It is
transitive along a call on one bitmap, so each call is a chain of such steps, and `Leaves` closes it with the size and context that fit the heap reached. `Spacious` is where `RoomAssumption` enters: while a call has at most one table
besides those of the stores, there is an address for the next.
The loops of a union over the chunks of its operand are a choice of the subset that was reached before one failed; their lemmas are on any subset.

Each call then ends in an `Outcome`: one bitmap has the keys the call says, or those of a failing call, and all others have theirs. `NextOutcome` is the one lemma by cases over
the calls. `IInv` follows from it, and so does the refinement, since an outcome is a step of `BitmapValues`: the keys of a bitmap are a function of its
table alone (`Value`), and `Serves` has said that no other bitmap's table changed what it holds.
Two clauses of the model were settled by the proof and not by a run: the hypothesis on contexts covers a union that throws while it inserts in place, besides calls made on a context, and the addresses that are
enough are those `RoomAssumption` counts.

### 4.7 The loops over runs (`RunKernelsProofs`)

For every domain whose last low value is odd (`LastLowAssumption`; in the code it is 2^w - 1), every `SkewedRatio` and all operands:
`KernelsAreSound`, which says of each of the eight kernels that what it has written is, between any two iterations, exactly what is decided
(`OutHoldsTheDecided`), in maximal runs (`OutIsMaximal`), within the block it asked for (`RoomSuffices`); that
`append_run_exclusive` is called as it requires (`ExclusiveOrInOrder`), that the intersections compare the current runs
(`LoadedRunsAreCurrent`), and that at the end the values written are those of the set operation (`DoneIsTheAnswer`).

The decided values say nothing of where the next run may be appended, so none of this is inductive. `IInv` adds that operands are in order without overlap
(`Operands`) and, by kind of loop, how what is written stands to what is still to be read:

- `Merging` (unions, exclusive-ors): no run still to be read begins in front of the last one written, and those of one of the two sides begin beyond its end.
  The second part is what keeps an exclusive append, which may cut, drop or move the last run, from reaching the run before it;
- `Intersecting`: the copies are the current runs, and the runs of one side begin beyond the value after the last one written, so the next run shared
  cannot touch it;
- `Cutting` (differences): the right runs in front of the scan end in front of what is left of the run that is cut, and so does what is written; the runs written begin at least
  two apart, hence are at most half the domain, which is the room `difference_run_values` allocates.

`Ended` says which sides a returned kernel has read to their end; `DoneIsTheAnswer` follows from it and the decided values.

The first lemmas show what a set is stored as: a finite set of values can be listed in order (by an injection of each value to the number of smaller ones), and the
lists of runs and of values made from it are in order and hold its values. Each way to append is then a lemma on lists
(`JoinedFollows`, `ExclusiveFollows`, `ShorterEmits`, `EqualEmits`, `PieceAdded`): what it adds to the values, and that the runs stay apart. One lemma per action combines
them with the prefix of the operand that the action moves past.

Not proved: the cardinality (`covered`, which `sync_header` sums up by a fold over the runs) and that a pass ends. `KernelsCombineSets` states
both and stays with TLC.

### 4.8 Model-checked only

The refinement of `SortedMap`, that of `SetCombination` as far as it is the cardinality and the end of a pass, and the properties of `RunBatch`, `ChunkTree`, the container kernels
and `Images`. Out of the prover's reach are liveness (`LetGoIsFreed`, the end of every loop over runs) and `ENABLED`; induction over data, on which every count kept as a
sum and what the other kernels compute rest; and whatever rests on a RECURSIVE operator (`ChunkLevels` and the modules above it).

## 5 What the models found

1. `stale_separator_hides_key`, in the tree of wide keys. `open_back()` links a fresh leaf behind a full last one and enters it in the inner levels under the key
   one above the last. When nothing is committed to it (an intersection whose last common chunk comes out empty), leaf and
   separator stay. Erase the entry in front of it, and later insert its key again at the end: the key is pushed into a leaf
   to which no search for it leads. With 64-bit keys: let `c = a & b` come to fifteen chunks, the last of them full to the leaf, and a sixteenth
   that was opened and came out empty; remove everything of chunks 14 and 13, add to 13, then to 14: `contains()` of a key of chunk 14 is false while
   iteration yields it. `tests/chunk_tree.cpp:240` says of the leaf left by an abandoned `open_back()` that "every
   operation has to see through it".
2. `freed_leaf_is_named`, in the directory over the tree of wide keys. The smallest keys are erased, so that the buckets kept begin higher (`dir_lo_`), and the
   first leaf is full. A new smallest key in a lower bucket splits it: the left leaf keeps that key alone, the right one all others
   (`chunk_tree.hpp:1430`). `split_indexed` (line 996) names the right leaf for the buckets above the old `dir_lo_`, and `note_new_minimum` (line 967)
   the left one for those below it; the bucket of the old `dir_lo_` goes on naming the left leaf, which does not reach it. A search still walks on from there.
   But when the new key is erased, `retarget` (line 1003) renames from the key's own bucket downward only, the left leaf is freed (line 1053), and
   `dir_lo_` goes back to where it was: the bucket with which the directory now begins names the freed leaf, and the next search in
   it reads that leaf (line 909). `validate_indexed` (line 1175) says "each bucket names the first leaf that reaches it; those the last leaf
   answers may be left unnamed". The model does not follow the read: a freed leaf is empty in it, so that what a search would make of the memory is left open.

### Deviations

In the following the code does not keep a property that the passing runs check, in a corner that each run
leaves out by the definition or CONSTANT named; giving it the other value shows the behaviour.

| where | what happens | left out by | shown by |
|---|---|---|---|
| `bitmap.hpp:2588` | `add_impl` marks a context private before the payload is copied; when the copy throws and the caller goes on with the context, the next `add_bulk` writes the payload a copy still holds | `ResetsContext = TRUE` (callers give up a context when the call threw that was made on it, or that was inserting chunks under it, as `\|=` does) | `ResetsContext = FALSE` in `BitmapCopies.cfg`, `ContextPrivate` |
| `chunk_store.hpp:496` | under value semantics an in-place `insert_absent_from` that throws has moved entries, but the generation is advanced only past it | the same; and no value semantics in `contexts` | `ResetsContext = FALSE`, five chunks, `LeastRoom = 8` and `MCInit` without its restriction of the policy, `ContextCurrent` |
| `bitmap_definitions.hpp:316` | `union_into` counts a container before the copy that may throw; `size()` of the scratch then says more than it holds | `SizeIsCardinality` does not speak of scratches under value semantics; no value semantics in `scratch` | `MCInit` without its restriction of the policy, `Scratches = {s1}`, `ScratchSizeIsCardinality` |
| `bitmap_definitions.hpp:1745` | an exclusive-or fold empties a chunk; `\|=` settles the counts and keeps the chunk; a copy shares the table; `bulk_xor_repair_after_lazy` finds a shared table with nothing deferred and returns: a finished bitmap keeps an empty chunk (`validate()`: "a chunk holds an empty container"). `docs/lazy-folds.md`, "The contract", has no rule about copies | `OnlyXorLeavesEmptyChunks` is about builds without table sharing | `FinishedHasNoEmptyChunk` in `lazy_fold` |
| `serialization.hpp` (header of a frozen image) | a process that dies between the marks of the header and its counts leaves an image that is accepted as an empty bitmap | `TakenForEmpty`, the exception of `AcceptedIsWhole` | the property without it |

Two things besides, in the rules for callers. No copy of a bitmap may be taken while a context on it is alive,
"A copy is what re-shares a payload" (`bitmap.hpp:335`). Being read as the right operand of `|=`
or `union_into` shares payloads too (a chunk the left side lacks is a copy of the handle), so
the model has its callers keep operands free of contexts as they do copies (`MayBeCopied`). And `optimize_container_for_storage`
with a threshold below the byte parity of arrays and bitsets would return a bitset larger than the array it was given; only the
default threshold reaches it, and `FormsAsPromised` is about that one.

## 6 What is not modelled

- Two threads on bitmaps that share tables (`BitmapCopies` is one call at a time; `SharedBitmap` and
  `PayloadRace` have the threads, on whole bitmaps and on one payload).
- A bitmap's range updates over several chunks, `optimize_run_shaped`, moves, and the rewriter of intersections and differences on a flat
  table: `ContainerForms` has a range in one chunk, `LazyFold` what the set operations leave of sizes, counts and empty chunks, `ChunkTree` the rewriter of a tree.
- Interoperation (`interop*.hpp`): operands that are ranges, words or intervals are cut into a piece per chunk; the pieces go through the
  pair kernels of `ContainerPairs`, how they are cut is not modelled. Erased views (`bitmap_view.hpp`) forward calls.
- Of `container_handle.hpp`: copy assignment, which releases the old payload and may then fail to copy the new one; reservations; `as_run_for_merge`, which is `RunBatch`'s.
- Images of more than 4 GiB and the check of the key width; what a payload of a frozen image holds is trusted by the code, as in the model. The mapping of files is the library psi::vm's.
- Configuration headers and processor detection have no state; tests and benchmarks are no part of the library.

## 7 The plan

1. Done: `SharedBitmap`, `PayloadRace`, `LazyFold`, `PayloadHandles`, `BitmapCopies` and `RunKernels` (proved; of the last all but cardinalities), `RunBatch`, `ChunkTree`, the container kernels, `Images`.
2. To *prove*: of `RunBatch` that unread runs stay intact; of `Images` that what is read back was written.
3. `TableRace`: two threads, copies that share tables over shared payloads; the two levels of
   counts step by step (detach, `drop_block`, barrier).
4. `BitmapCopies` grows: `&=` and `-=` with the rewriter and `combine_while_shared`, `^=`, moves, `shrink_to_fit`, ranges.
5. `Pieces`: operands of other shapes cut at chunk boundaries.
