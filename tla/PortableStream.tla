--------------------------- MODULE PortableStream ---------------------------
(***************************************************************************)
(* The standard Roaring format, which other implementations read and write *)
(* too.  A bitmap with 32-bit keys is one body: a cookie, the kinds, keys  *)
(* and cardinalities of its containers, their offsets (unless there are    *)
(* runs and few containers), and the payloads back to back.  With 64-bit   *)
(* keys the chunks that share their high bits form a body each, behind the *)
(* high bits and behind the number of bodies.                              *)
(*                                                                         *)
(* Offsets count bytes.  The cells are the fields at their first byte; a   *)
(* word of a bitset is the set of its bits.                                *)
(***************************************************************************)
EXTENDS FrozenImage

CONSTANTS
  BodyKeys,         \* the chunk keys of one body, 2^16
  ArrayMax,         \* portable_array_max_cardinality
  OffsetThreshold,  \* portable_no_offset_threshold
  Lanes             \* the values compared at once where they must ascend

ASSUME PortableAssumption ==
  {BodyKeys, ArrayMax, OffsetThreshold, Lanes} \subseteq Nat \ {0}

CookieNoRun == 12346
CookieWithRun == 12347
WordBytes == 8

\* The kind follows the cardinality, unless the container holds runs.
WireKind(c) ==
  IF c.kind = "run" THEN "run"
  ELSE IF Cardinality(c.low) > ArrayMax THEN "bitset" ELSE "array"

\* The runs of a container, as this library writes them (parts = 1) or as
\* another writer may: every run that can be split, split after one value.
WireRuns(c, parts) ==
  IF parts = 1 THEN RunsIn(c)
  ELSE FlattenSeq([i \in DOMAIN RunsIn(c) |->
         LET r == RunsIn(c)[i]
         IN  IF r.begin = r.end THEN <<r>>
             ELSE <<RunOf(r.begin, r.begin), RunOf(r.begin + 1, r.end)>>])

WireSize(c, parts) ==
  CASE WireKind(c) = "run" -> 2 + 4 * Len(WireRuns(c, parts))
    [] WireKind(c) = "array" -> 2 * Cardinality(c.low)
    [] WireKind(c) = "bitset" -> WordBytes * WordCount

FlagBytes(count) == (count + 7) \div 8
HasRun(chunks) == \E i \in DOMAIN chunks : chunks[i].kind = "run"
HasOffsets(hasRun, count) == ~hasRun \/ count >= OffsetThreshold

\* portable_plan_for: the bytes of a body, added up before it is written.
PlannedBody(chunks, parts) ==
  LET count == Len(chunks)
      header == IF HasRun(chunks)
                THEN 4 + FlagBytes(count) + 4 * count
                       + IF count >= OffsetThreshold THEN 4 * count ELSE 0
                ELSE 8 + 8 * count
  IN  FoldLeft(LAMBDA sum, c : sum + WireSize(c, parts), header, chunks)

-----------------------------------------------------------------------------
(* Writing: the cells of a body, and the byte after it. *)

Put(w, at, value) == [w EXCEPT !.cells = @ @@ (at :> value)]

WritePayload(w, at, c, parts) ==
  LET runs == WireRuns(c, parts)
      values == InOrder(c.low)
  IN  CASE WireKind(c) = "run" ->
             (at :> Len(runs))
               @@ [o \in {at + 2 + 4 * (i - 1) : i \in DOMAIN runs} |->
                     runs[(o - at - 2) \div 4 + 1].begin]
               @@ [o \in {at + 4 + 4 * (i - 1) : i \in DOMAIN runs} |->
                     runs[(o - at - 4) \div 4 + 1].end - runs[(o - at - 4) \div 4 + 1].begin]
        [] WireKind(c) = "array" ->
             [o \in {at + 2 * (i - 1) : i \in DOMAIN values} |-> values[(o - at) \div 2 + 1]]
        [] WireKind(c) = "bitset" ->
             [o \in {at + WordBytes * i : i \in 0 .. WordCount - 1} |->
                WordIn(c, (o - at) \div WordBytes)]

\* A slip: the offsets are taken from the start of the whole stream.
OffsetInStream(cursor, start) == cursor

\* Offsets are relative to the body they are in.
OffsetInBody(cursor, start) == cursor - start

\* The header's fields, of the k-th container (from 0) at this cursor.
DescribeContainer(w, k, c, offsets) ==
  LET cells ==
        (w.descriptive + 4 * k :> c.key % BodyKeys)
          @@ (w.descriptive + 4 * k + 2 :> AsLow(Cardinality(c.low) - 1))
          @@ (IF offsets THEN (w.offsets + 4 * k :> OffsetInBody(w.cursor, w.start))
              ELSE NoCells)
  IN  w.cells @@ cells

WriteContainer(w, k, c, offsets, parts) ==
  [w EXCEPT !.cells = DescribeContainer(w, k, c, offsets)
                        @@ WritePayload(w, w.cursor, c, parts),
            !.flags = IF c.kind = "run" THEN @ \cup {k} ELSE @,
            !.cursor = @ + WireSize(c, parts)]

FlagByte(flags, j) ==
  FoldSet(LAMBDA k, sum : sum + 2 ^ (k % 8), 0, {k \in flags : k \div 8 = j})

\* portable_write_32: one body from the byte `start` on.
WriteBody(cells, start, chunks, parts) ==
  LET count == Len(chunks)
      hasRun == HasRun(chunks)
      cookie == IF hasRun THEN start :> CookieWithRun + (count - 1) * 65536
                ELSE start :> CookieNoRun @@ start + 4 :> count
      flagsAt == start + 4
      descriptive == IF hasRun THEN flagsAt + FlagBytes(count) ELSE start + 8
      offsets == descriptive + 4 * count
      first == IF HasOffsets(hasRun, count) THEN offsets + 4 * count ELSE offsets
      w == FoldLeft(LAMBDA sofar, i :
                      WriteContainer(sofar, i - 1, chunks[i], HasOffsets(hasRun, count), parts),
                    [cells |-> cells @@ cookie, flags |-> {}, cursor |-> first, start |-> start,
                     descriptive |-> descriptive, offsets |-> offsets],
                    [i \in 1 .. count |-> i])
      flagCells == IF hasRun THEN [o \in flagsAt .. flagsAt + FlagBytes(count) - 1 |->
                                     FlagByte(w.flags, o - flagsAt)]
                   ELSE NoCells
  IN  [cells |-> w.cells @@ flagCells, end |-> w.cursor]

HighOf(c) == c.key \div BodyKeys
Highs(chunks) == InOrder({HighOf(chunks[i]) : i \in DOMAIN chunks})
Body(chunks, high) == SelectSeq(chunks, LAMBDA c : HighOf(c) = high)

\* portable_size_in_bytes
PortableSize(chunks, wide, parts) ==
  IF ~wide THEN PlannedBody(chunks, parts)
  ELSE FoldLeft(LAMBDA sum, high : sum + 4 + PlannedBody(Body(chunks, high), parts),
                8, Highs(chunks))

\* portable_serialize
Written(chunks, wide, parts) ==
  LET bodies == FoldLeft(LAMBDA w, high :
                           WriteBody(w.cells @@ w.end :> high, w.end + 4,
                                     Body(chunks, high), parts),
                         [cells |-> (0 :> Len(Highs(chunks))), end |-> 8], Highs(chunks))
  IN  IF wide THEN bodies ELSE WriteBody(NoCells, 0, chunks, parts)

-----------------------------------------------------------------------------
(* Reading.  s is the stream: its cells and its size.  Each part returns   *)
(* whether it was accepted and the byte after it.                          *)

Field(s, at) == IF at \in DOMAIN s.cells THEN s.cells[at] ELSE 0
Available(s, at, bytes) == at + bytes <= s.size

\* The pairs of neighbours that are compared: Lanes at a time, the last
\* vector overlapping the one before it, or one by one when they are few.
\* A slip: what is left behind the last whole vector is not compared.
PairsOfWholeVectors(pairs) ==
  IF pairs >= Lanes THEN 0 .. (pairs \div Lanes) * Lanes - 1 ELSE 0 .. pairs - 1

PairsCompared(pairs) ==
  IF pairs >= Lanes
  THEN 0 .. (pairs \div Lanes) * Lanes - 1
         \cup IF pairs % Lanes # 0 THEN pairs - Lanes .. pairs - 1 ELSE {}
  ELSE 0 .. pairs - 1

StrictlyAscending(s, at, count) ==
  \A i \in PairsCompared(count - 1) : Field(s, at + 2 * i) < Field(s, at + 2 * (i + 1))

\* What a payload was read as; only a run container has runs.
Nothing(at) == [ok |-> FALSE, end |-> at, kind |-> "none", low |-> {}, runs |-> <<>>]

\* A slip: a run is kept as the stream has it.
KeptAsWritten(kept, r) == Append(kept, r)

\* A run that follows on the last one kept extends it.
KeptWith(kept, r) ==
  IF kept # <<>> /\ r.begin = Last(kept).end + 1
  THEN Append(Front(kept), RunOf(Last(kept).begin, r.end))
  ELSE Append(kept, r)

ReadRuns(s, at, cardinality) ==
  LET count == Field(s, at)
      begin(i) == Field(s, at + 2 + 4 * i)
      end(i) == begin(i) + Field(s, at + 4 + 4 * i)
      places == 0 .. count - 1
      written == [i \in 1 .. count |-> RunOf(begin(i - 1), end(i - 1))]
      kept == FoldLeft(KeptWith, <<>>, written)
  IN  IF /\ Available(s, at, 2)
         /\ count # 0 /\ Available(s, at + 2, 4 * count)
         /\ \A i \in places : end(i) <= LastLow /\ (i # 0 => begin(i) > end(i - 1))
         /\ TotalLength(written) = cardinality
      THEN [ok |-> TRUE, end |-> at + 2 + 4 * count, kind |-> "run",
            low |-> RunValues(kept), runs |-> kept]
      ELSE Nothing(at)

ReadBitset(s, at, cardinality) ==
  LET words == [w \in 0 .. WordCount - 1 |-> Field(s, at + WordBytes * w)]
      low == UNION {{w * WordBits + b : b \in words[w]} : w \in 0 .. WordCount - 1}
  IN  IF Available(s, at, WordBytes * WordCount) /\ Cardinality(low) = cardinality
      THEN [ok |-> TRUE, end |-> at + WordBytes * WordCount, kind |-> "bitset",
            low |-> low, runs |-> <<>>]
      ELSE Nothing(at)

ReadArray(s, at, cardinality) ==
  IF Available(s, at, 2 * cardinality) /\ StrictlyAscending(s, at, cardinality)
  THEN [ok |-> TRUE, end |-> at + 2 * cardinality, kind |-> "array",
        low |-> {Field(s, at + 2 * i) : i \in 0 .. cardinality - 1}, runs |-> <<>>]
  ELSE Nothing(at)

\* Of the k-th container of a body with the header h.
CardinalityOf(s, h, k) == Field(s, h.descriptive + 4 * k + 2) + 1

\* Its payload, found at this byte.
ReadPayload(s, h, k, at) ==
  LET cardinality == CardinalityOf(s, h, k)
      isRun == h.hasRun /\ (Field(s, h.flags + k \div 8) \div 2 ^ (k % 8)) % 2 = 1
  IN  IF isRun THEN ReadRuns(s, at, cardinality)
      ELSE IF cardinality > ArrayMax THEN ReadBitset(s, at, cardinality)
      ELSE ReadArray(s, at, cardinality)

\* r is what was read so far: the payload is the next thing in the stream.
ReadContainer(s, h, r, k, high) ==
  LET key == Field(s, h.descriptive + 4 * k)
      read == ReadPayload(s, h, k, r.end)
  IN  IF ~r.ok \/ key <= r.previous \/ ~read.ok THEN [r EXCEPT !.ok = FALSE]
      ELSE [ok |-> TRUE, end |-> read.end, previous |-> key,
            total |-> r.total + CardinalityOf(s, h, k),
            chunks |-> Append(r.chunks, [key |-> high * BodyKeys + key, kind |-> read.kind,
                                         low |-> read.low, runs |-> read.runs,
                                         cardinality |-> CardinalityOf(s, h, k)])]

\* The header of a body; the offsets are skipped, not read.
Header(s, at) ==
  LET hasRun == Field(s, at) % 65536 = CookieWithRun
      count == IF hasRun THEN Field(s, at) \div 65536 + 1 ELSE Field(s, at + 4)
      flags == at + 4
      descriptive == IF hasRun THEN flags + FlagBytes(count) ELSE at + 8
      end == descriptive + 4 * count + IF HasOffsets(hasRun, count) THEN 4 * count ELSE 0
  IN  [ok |-> /\ Available(s, at, 4)
              /\ hasRun \/ (Field(s, at) = CookieNoRun /\ Available(s, at + 4, 4))
              /\ count <= BodyKeys
              /\ Available(s, at, end - at),
       hasRun |-> hasRun, count |-> count, flags |-> flags, descriptive |-> descriptive,
       end |-> end]

\* portable_read_32
ReadBody(s, r, high) ==
  LET h == Header(s, r.end)
  IN  IF r.ok /\ h.ok
      THEN FoldLeft(LAMBDA sofar, i : ReadContainer(s, h, sofar, i - 1, high),
                    [r EXCEPT !.end = h.end, !.previous = -1], [i \in 1 .. h.count |-> i])
      ELSE [r EXCEPT !.ok = FALSE]

\* A body behind its high bits, which must ascend.
ReadWideBody(s, b) ==
  LET high == Field(s, b.r.end)
      r == ReadBody(s, [b.r EXCEPT !.end = @ + 4], high)
  IN  IF b.r.ok /\ Available(s, b.r.end, 4) /\ high > b.high
      THEN [r |-> r, high |-> high]
      ELSE [b EXCEPT !.r.ok = FALSE]

\* portable_deserialize: what is read, `ok` false when the stream is refused.
PortableRead(s, wide) ==
  LET start == [ok |-> TRUE, end |-> IF wide THEN 8 ELSE 0, previous |-> -1,
                total |-> 0, chunks |-> <<>>]
      bodies == Field(s, 0)
  IN  IF ~wide THEN ReadBody(s, start, 0)
      ELSE IF s.size < 8 \/ bodies > (s.size - 8) \div 12 THEN [start EXCEPT !.ok = FALSE]
      ELSE FoldLeft(LAMBDA b, i : ReadWideBody(s, b), [r |-> start, high |-> -1],
                    [i \in 1 .. bodies |-> i]).r
=============================================================================
