--------------------------- MODULE FrozenQueries ---------------------------
(***************************************************************************)
(* What is read in place from an opened image: membership, rank, selection *)
(* and iteration, and the bitmaps built from it by copying the payloads or *)
(* by borrowing them.  An id is its chunk's key and its low value in one   *)
(* number.  Entries are numbered from 1, everything inside a payload from 0.*)
(***************************************************************************)
EXTENDS FrozenImage

ChunkOf(id) == id \div (LastLow + 1)
LowOf(id) == id % (LastLow + 1)
Id(key, low) == key * (LastLow + 1) + low

At(f, offset) == f.cells[offset]
RunAt(f, e, i) == RunOf(At(f, e.offset + 2 * i), At(f, e.offset + 2 * i + 1))
WordAt(f, e, w) == At(f, e.offset + WordSize * w)
RankAt(f, e, i) == At(f, e.offset + e.bytes + i)

\* The first entry whose chunk is not below key, or the one past the last.
LowerBoundEntry(f, key) ==
  Min({i \in 1 .. f.chunk_count : EntryAt(f, i).chunk >= key} \cup {f.chunk_count + 1})

\* A slip: the run or word is found by the first later one whose count reaches the ordinal.
ReachedIn(f, e, n, bound) ==
  Min({i \in 1 .. n - 1 : RankAt(f, e, i) >= bound} \cup {n}) - 1

\* Where `bound` belongs among the n counts of a rank block, the first left out.
LaterThan(f, e, n, bound) ==
  Min({i \in 1 .. n - 1 : RankAt(f, e, i) > bound} \cup {n}) - 1

-----------------------------------------------------------------------------
(* An array: blocks of Gap values, searched by the last value of each. *)

LastOfBlock(f, e, b) == At(f, e.offset + (b + 1) * Gap - 1)

RECURSIVE ByQuarters(_, _, _, _, _)
ByQuarters(f, e, base, n, low) ==
  LET quarter == n \div 4
      passed == Cardinality({j \in 1 .. 3 : LastOfBlock(f, e, base + j * quarter) < low})
  IN  IF n > 3 THEN ByQuarters(f, e, base + passed * quarter, n - 3 * quarter, low)
      ELSE <<base, n>>

RECURSIVE ByHalves(_, _, _, _, _)
ByHalves(f, e, base, n, low) ==
  LET half == n \div 2
  IN  IF n > 1
      THEN ByHalves(f, e, IF LastOfBlock(f, e, base + half) < low THEN base + half ELSE base,
                    n - half, low)
      ELSE base

BlockHolding(f, e, blocks, low) ==
  LET quartered == ByQuarters(f, e, 0, blocks, low)
      base == ByHalves(f, e, quartered[1], quartered[2], low)
  IN  IF LastOfBlock(f, e, base) < low THEN base + 1 ELSE base

\* The values of the block, or of the tail, or of an array too short for blocks.
Searched(f, e, low) ==
  LET blocks == e.count \div Gap
      block == BlockHolding(f, e, blocks, low)
  IN  IF e.count < Gap THEN 0 .. e.count - 1
      ELSE IF block < blocks THEN block * Gap .. block * Gap + Gap - 1
      ELSE blocks * Gap .. e.count - 1

ArrayLowerBound(f, e, low) ==
  LET places == Searched(f, e, low)
      first == IF places = {} THEN e.count ELSE Min(places)
  IN  first + Cardinality({j \in places : At(f, e.offset + j) < low})

ArrayContains(f, e, low) == \E j \in Searched(f, e, low) : At(f, e.offset + j) = low

-----------------------------------------------------------------------------
(* Runs: the one that begins at a value, or -(where it belongs + 1). *)

RECURSIVE InterleavedSearch(_, _, _, _, _)
InterleavedSearch(f, e, lo, hi, low) ==
  LET middle == (lo + hi) \div 2
      begin == RunAt(f, e, middle).begin
  IN  IF lo > hi THEN -(lo + 1)
      ELSE IF begin < low THEN InterleavedSearch(f, e, middle + 1, hi, low)
      ELSE IF begin > low THEN InterleavedSearch(f, e, lo, middle - 1, low)
      ELSE middle

\* The last run that begins at or below low, or -1.
RunReaching(f, e, low) ==
  LET found == InterleavedSearch(f, e, 0, e.count - 1, low)
  IN  IF found < 0 THEN Max({-found - 2, -1}) ELSE found

RunContains(f, e, low) ==
  LET last == RunReaching(f, e, low)
  IN  last >= 0 /\ low <= RunAt(f, e, last).end

RunPosition(f, e, low) ==
  LET last == RunReaching(f, e, low)
      run == RunAt(f, e, last)
  IN  IF last < 0 THEN [below |-> 0, present |-> FALSE]
      ELSE [below |-> RankAt(f, e, last) + Min({low, run.end + 1}) - run.begin,
            present |-> low <= run.end]

-----------------------------------------------------------------------------
(* The queries. *)

HoldsLow(f, e, low) ==
  CASE e.kind = "array" -> ArrayContains(f, e, low)
    [] e.kind = "run" -> RunContains(f, e, low)
    [] e.kind = "bitset" -> low % WordBits \in WordAt(f, e, low \div WordBits)

ContainsId(f, id) ==
  LET i == LowerBoundEntry(f, ChunkOf(id))
  IN  /\ i <= f.chunk_count
      /\ EntryAt(f, i).chunk = ChunkOf(id)
      /\ HoldsLow(f, EntryAt(f, i), LowOf(id))

\* When the chunks are consecutive the entry is found by subtraction.
Contiguous(f) ==
  /\ f.chunk_count # 0
  /\ EntryAt(f, f.chunk_count).chunk - EntryAt(f, 1).chunk + 1 = f.chunk_count

PositionIn(f, e, low) ==
  LET place == ArrayLowerBound(f, e, low)
      word == WordAt(f, e, low \div WordBits)
      inside ==
        CASE e.kind = "array" ->
               [below |-> place, present |-> place < e.count /\ At(f, e.offset + place) = low]
          [] e.kind = "run" -> RunPosition(f, e, low)
          [] e.kind = "bitset" ->
               [below |-> RankAt(f, e, low \div WordBits)
                            + Cardinality({b \in word : b < low % WordBits}),
                present |-> low % WordBits \in word]
  IN  [inside EXCEPT !.below = e.base + @]

\* ranked_view::find: the ids below this one, and whether it is present.
Find(f, id) ==
  LET key == ChunkOf(id)
      first == EntryAt(f, 1).chunk
      i == IF Contiguous(f) THEN key - first + 1 ELSE LowerBoundEntry(f, key)
  IN  IF i < 1 THEN [below |-> 0, present |-> FALSE]
      ELSE IF i > f.chunk_count THEN [below |-> f.value_count, present |-> FALSE]
      ELSE IF EntryAt(f, i).chunk # key
      THEN [below |-> EntryAt(f, i).base, present |-> FALSE]
      ELSE PositionIn(f, EntryAt(f, i), LowOf(id))

\* The position of a word's bit of this rank, by halving.
RECURSIVE SelectInWord(_, _, _)
SelectInWord(word, rank, half) ==
  LET below == Cardinality({b \in word : b < half})
  IN  IF half = 0 THEN 0
      ELSE IF rank >= below
      THEN half + SelectInWord({b - half : b \in {c \in word : c >= half}}, rank - below, half \div 2)
      ELSE SelectInWord(word, rank, half \div 2)

\* The id of this ordinal.
Select(f, ordinal) ==
  LET i == Max({j \in 1 .. f.chunk_count : EntryAt(f, j).base <= ordinal})
      e == EntryAt(f, i)
      within == ordinal - e.base
      part == LaterThan(f, e, e.count, within)
      rest == within - RankAt(f, e, part)
  IN  Id(e.chunk,
         CASE e.kind = "array" -> At(f, e.offset + within)
           [] e.kind = "run" -> RunAt(f, e, part).begin + rest
           [] e.kind = "bitset" ->
                part * WordBits + SelectInWord(WordAt(f, e, part), rest, WordBits \div 2))

-----------------------------------------------------------------------------
(* All values of a payload, and what is built from them. *)

PayloadValues(f, e) ==
  CASE e.kind = "array" -> {At(f, e.offset + j) : j \in 0 .. e.count - 1}
    [] e.kind = "run" -> UNION {RunAt(f, e, i).begin .. RunAt(f, e, i).end : i \in 0 .. e.count - 1}
    [] e.kind = "bitset" ->
         UNION {{w * WordBits + b : b \in WordAt(f, e, w)} : w \in 0 .. WordCount - 1}

\* A bitset is read from the word of the first value on, masked in that word;
\* any other container is decoded whole and filtered.
EmittedFrom(f, e, low) ==
  LET first == low \div WordBits
      masked(w) == {b \in WordAt(f, e, w) : w = first => b >= low % WordBits}
  IN  IF low # 0 /\ e.kind = "bitset"
      THEN UNION {{w * WordBits + b : b \in masked(w)} : w \in first .. WordCount - 1}
      ELSE {v \in PayloadValues(f, e) : v >= low}

\* frozen_view::for_each_from
ForEachFrom(f, id) ==
  LET low(e) == IF e.chunk = ChunkOf(id) THEN LowOf(id) ELSE 0
      ids(i) == LET e == EntryAt(f, i)
                IN  {Id(e.chunk, v) : v \in EmittedFrom(f, e, low(e))}
  IN  FoldLeft(LAMBDA emitted, i : emitted \o InOrder(ids(i)), <<>>,
               InOrder(LowerBoundEntry(f, ChunkOf(id)) .. f.chunk_count))

\* The runs of a container whose payload holds runs, copied or borrowed as they are.
PayloadRuns(f, e) ==
  IF e.kind = "run" THEN [i \in 1 .. e.count |-> RunAt(f, e, i - 1)] ELSE <<>>

\* A slip: the cardinality of a run container is left at the number of runs.
HandleCountingRuns(f, e) ==
  [key |-> e.chunk, kind |-> e.kind, low |-> PayloadValues(f, e), runs |-> PayloadRuns(f, e),
   cardinality |-> e.count]

\* A container of the bitmap that is built: what its handle says, and the
\* values it reads.  A borrowed one reads them where they lie in the image.
HandleOver(f, e) ==
  [key |-> e.chunk, kind |-> e.kind, low |-> PayloadValues(f, e), runs |-> PayloadRuns(f, e),
   cardinality |-> e.cardinality]

Materialized(f) ==
  [chunks |-> [i \in 1 .. f.chunk_count |-> HandleOver(f, EntryAt(f, i))],
   size |-> f.value_count]
=============================================================================
