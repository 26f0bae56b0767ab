---------------------------- MODULE FrozenImage ----------------------------
(***************************************************************************)
(* The frozen format: one file holds the chunk index and the payloads of a *)
(* bitmap as they lie in memory, and is read in place.  A ranked image also*)
(* holds the number of values before each chunk, each word and each run.   *)
(*                                                                         *)
(* Offsets count units of two bytes, the size of a low value.  The cells   *)
(* are what was stored at each offset (a word of a bitset, the set of its  *)
(* bits, at its first unit); the rest of the file is zero.                 *)
(***************************************************************************)
EXTENDS RunLists

CONSTANTS
  WordBits,  \* the bits of a word of a bitset
  Gap,       \* the values of a block of the array search
  LastKey    \* the largest chunk key, numeric_limits<chunk_type>::max()

WordCount == (LastLow + 1) \div WordBits
WordSize == 4
HeaderSize == 12
EntrySize == 16

ASSUME FrozenAssumption ==
  /\ WordBits \in {2, 4, 8, 16, 32, 64}
  /\ WordCount * WordBits = LastLow + 1
  /\ Gap \in Nat \ {0} /\ LastKey \in Nat

\* The numbers of a set in ascending order.
InOrder(S) ==
  [i \in 1 .. Cardinality(S) |-> CHOOSE n \in S : Cardinality({m \in S : m < n}) = i - 1]

\* One container of a bitmap: its kind and its values.
RunsIn(c) == RunsOf(c.low)
WordIn(c, w) == {b \in 0 .. WordBits - 1 : w * WordBits + b \in c.low}
PayloadCount(c) ==
  CASE c.kind = "array" -> Cardinality(c.low)
    [] c.kind = "run" -> Len(RunsIn(c))
    [] c.kind = "bitset" -> WordCount

\* A kind that was never written is no kind: it has no alignment.
Alignment(kind) ==
  CASE kind = "none" -> 0 [] kind = "bitset" -> WordSize [] OTHER -> 1
PayloadSize(kind, count) ==
  CASE kind = "array" -> count
    [] kind = "run" -> 2 * count
    [] kind = "bitset" -> WordCount * WordSize
RankSize(kind, count) ==
  CASE kind = "array" -> 0 [] kind = "run" -> count [] kind = "bitset" -> WordCount

AlignUp(offset, alignment) == ((offset + alignment - 1) \div alignment) * alignment

FirstPayload(count) == HeaderSize + count * EntrySize

\* Where a chunk ends that may begin at offset.
ChunkEnd(offset, c, ranked) ==
  AlignUp(offset, Alignment(c.kind)) + PayloadSize(c.kind, PayloadCount(c))
    + IF ranked THEN RankSize(c.kind, PayloadCount(c)) ELSE 0

FrozenSize(chunks, ranked) ==
  FoldLeft(LAMBDA offset, c : ChunkEnd(offset, c, ranked), FirstPayload(Len(chunks)), chunks)

-----------------------------------------------------------------------------
(* Writing. *)

NoCells == [o \in {} |-> 0]

PayloadCells(at, c) ==
  CASE c.kind = "array" ->
         LET values == InOrder(c.low)
         IN  [o \in at .. at + Len(values) - 1 |-> values[o - at + 1]]
    [] c.kind = "run" ->
         LET runs == RunsIn(c)
         IN  [o \in at .. at + 2 * Len(runs) - 1 |->
                LET r == runs[(o - at) \div 2 + 1]
                IN  IF (o - at) % 2 = 0 THEN r.begin ELSE r.end]
    [] c.kind = "bitset" ->
         [o \in {at + WordSize * w : w \in 0 .. WordCount - 1} |->
            WordIn(c, (o - at) \div WordSize)]

\* The values in the runs, or in the words, before each.
RankCells(at, c) ==
  CASE c.kind = "array" -> NoCells
    [] c.kind = "run" ->
         [o \in at .. at + PayloadCount(c) - 1 |->
            AsLow(TotalLength(SubSeq(RunsIn(c), 1, o - at)))]
    [] c.kind = "bitset" ->
         [o \in at .. at + WordCount - 1 |->
            AsLow(Cardinality({v \in c.low : v < (o - at) * WordBits}))]

EntryOf(c, at, base) ==
  [chunk |-> c.key, offset |-> at, bytes |-> PayloadSize(c.kind, PayloadCount(c)),
   count |-> PayloadCount(c), cardinality |-> Cardinality(c.low), kind |-> c.kind,
   base |-> base]

\* What a zero-filled index reads as.
ZeroEntry == [chunk |-> 0, offset |-> 0, bytes |-> 0, count |-> 0,
              cardinality |-> 0, kind |-> "none", base |-> 0]
EntryAt(f, i) == IF i \in DOMAIN f.index THEN f.index[i] ELSE ZeroEntry

-----------------------------------------------------------------------------
(* Opening: one pass over the index, and none over the payloads. *)

CountsMatch(e) ==
  /\ e.cardinality \in 1 .. LastLow + 1
  /\ CASE e.kind = "array" -> e.count = e.cardinality
       [] e.kind = "run" -> e.count \in 1 .. e.cardinality
       [] e.kind = "bitset" -> e.count = WordCount

RankEnd(e, ranked) ==
  e.offset + e.bytes + IF ranked THEN RankSize(e.kind, e.count) ELSE 0

Fits(f, e) == e.offset <= f.size /\ e.bytes <= f.size - e.offset

\* r: how far the loop over the index came and what it knows.
EntryAccepted(f, r, e) ==
  LET ranked == f.mark = "ranked"
  IN  /\ r.previous = -1 \/ e.chunk > r.previous
      /\ e.chunk <= LastKey
      /\ Alignment(e.kind) # 0 /\ e.offset % Alignment(e.kind) = 0
      /\ e.offset >= r.floor
      /\ Fits(f, e)
      /\ e.bytes = PayloadSize(e.kind, e.count)
      /\ ranked => /\ e.base = r.total
                   /\ CountsMatch(e)
                   /\ RankEnd(e, ranked) <= f.size

Refused == [ok |-> FALSE, end |-> 0]

OpenEntry(f, r, i) ==
  LET e == EntryAt(f, i)
      end == RankEnd(e, f.mark = "ranked")
  IN  IF r.ok /\ EntryAccepted(f, r, e)
      THEN [ok |-> TRUE, previous |-> e.chunk,
            floor |-> IF f.mark = "ranked" THEN end ELSE r.floor,
            end |-> Max({r.end, end}), total |-> r.total + e.cardinality,
            empty |-> r.empty \/ e.cardinality = 0]
      ELSE [r EXCEPT !.ok = FALSE]

\* Whether a view is handed out, and the bytes of the image it reports.
FrozenView(f) ==
  IF \/ f.size < HeaderSize
     \/ f.mark = "none"
     \/ f.size < FirstPayload(f.chunk_count)
  THEN Refused
  ELSE LET first == FirstPayload(f.chunk_count)
           r == FoldLeft(LAMBDA sofar, i : OpenEntry(f, sofar, i),
                         [ok |-> TRUE, previous |-> -1, floor |-> first, end |-> first,
                          total |-> 0, empty |-> FALSE],
                         [i \in 1 .. f.chunk_count |-> i])
       IN  IF r.ok /\ ~r.empty /\ r.total = f.value_count
           THEN [ok |-> TRUE, end |-> r.end] ELSE Refused
=============================================================================
