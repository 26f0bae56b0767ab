--------------------------- MODULE ContainerForms ---------------------------
(***************************************************************************)
(* The form one chunk's values take (containers.hpp): an array, a bitset   *)
(* or runs.  The library builds a container from values, keys, words or    *)
(* runs, adds, removes or flips a range of it, and settles it in a smaller *)
(* form; each of these picks the form from a cardinality and a count of    *)
(* runs that may stop at a cap, and fills a payload allocated for exactly  *)
(* the runs it counted.                                                    *)
(*                                                                         *)
(* Sizes are in bytes, as the code compares them.                          *)
(***************************************************************************)
EXTENDS BitsetWords

CONSTANTS
  BitsetBytes,     \* the words of a bitset, 8192
  RunBytes,        \* a run, 4
  LowBytes,        \* a low value, 2
  RunsFrom,        \* the values from which runs are considered, 64
  ArrayLimit,      \* array_to_bitset_threshold
  LowerLimits      \* the other thresholds a caller may ask for

ASSUME FormAssumption ==
  /\ {BitsetBytes, RunBytes, LowBytes, RunsFrom, ArrayLimit} \subseteq Nat \ {0}
  /\ LowerLimits \subseteq Nat \ {0}
  /\ BitsetBytes <= ArrayLimit * LowBytes

VARIABLES
  container,   \* the handle: [kind, data, cardinality]
  members,     \* the values the calls made so far leave
  eager,       \* RunSelectionPolicy::eager
  lately,      \* the last call, where its result is promised a form
  asked, used  \* the runs the last result was allocated for, and filled with

fvars == <<container, members, eager, lately, asked, used>>

Handle(kind, data, n) == [kind |-> kind, data |-> data, cardinality |-> n]

NoValues   == Handle("array", <<>>, 0)
AsArray(s) == Handle("array", s, Len(s))
AsWords(w) == Handle("bitset", w, PopCount(w))
AsRuns(rs) == Handle("run", rs, TotalLength(rs))

\* container_for_each.
Holds(c) == CASE c.kind = "array"  -> ToSet(c.data)
              [] c.kind = "bitset" -> ValuesIn(c.data)
              [] c.kind = "run"    -> RunValues(c.data)

ValueList(c) == Sorted(Holds(c))

-----------------------------------------------------------------------------
(***************************************************************************)
(* Counting runs.                                                          *)
(***************************************************************************)
Least(n, cap) == IF n < cap THEN n ELSE cap

\* run_count_from_sorted_values: a value starts a run unless it is its
\* predecessor plus one, which wraps past the last value.
RunsInValues(s, cap) ==
  IF s = <<>> THEN 0
  ELSE Least(1 + Cardinality({n \in 2 .. Len(s) : s[n] # AsLow(s[n - 1] + 1)}), cap)

\* run_count_from_bitset_words: the bits whose predecessor is clear, across the
\* words.
RunsInWords(words, cap) ==
  Least(Cardinality({v \in ValuesIn(words) : v - 1 \notin ValuesIn(words)}), cap)

\* run_serialized_bytes, and run_count_cap: the count from which runs are larger.
RunSize(n) == n * RunBytes + LowBytes

CapFor(bytes) == bytes \div RunBytes + 1

-----------------------------------------------------------------------------
(***************************************************************************)
(* Choosing a form.                                                        *)
(***************************************************************************)
\* is_bitset_cardinality.
IsBitsetSize(n, limit) == n >= limit /\ BitsetBytes <= n * LowBytes

\* choose_container_kind; `count` counts the runs up to a cap.
ChooseKind(n, limit, count(_)) ==
  LET considered == eager /\ n >= RunsFrom
      size == count(Max({n * LowBytes, BitsetBytes}) \div RunBytes + 1) * RunBytes
  IN CASE n >= limit /\ (~considered \/ BitsetBytes <= size) -> "bitset"
       [] considered /\ size < n * LowBytes /\ ~(n >= limit /\ BitsetBytes <= size) -> "run"
       [] OTHER -> "array"

\* A slip: the run form wins where it only ties with the bitset's bytes plus
\* its count.
ChooseRunKindByRuns(n, runs, limit) ==
  IF runs * RunBytes <= n * LowBytes THEN "run"
  ELSE IF IsBitsetSize(n, limit) THEN "bitset" ELSE "array"

\* choose_run_container_kind.
ChooseRunKind(n, runs, limit) ==
  LET bitset == IsBitsetSize(n, limit)
  IN IF RunSize(runs) <= n * LowBytes /\ ~(bitset /\ BitsetBytes < RunSize(runs)) THEN "run"
     ELSE IF bitset THEN "bitset" ELSE "array"

-----------------------------------------------------------------------------
(***************************************************************************)
(* Building a form.                                                        *)
(***************************************************************************)
BitsetFrom(s) == AsWords(WordsOf(ToSet(s)))

\* run_container::from_sorted_values, where a repeated value joins its run.
RunsFromValues(s) ==
  LET add(rs, v) == IF rs # <<>> /\ (v = Last(rs).end \/ (Last(rs).end # LastLow /\ v = Last(rs).end + 1))
                    THEN Append(Front(rs), [Last(rs) EXCEPT !.end = v])
                    ELSE Append(rs, RunOf(v, v))
  IN FoldLeft(add, <<>>, s)

\* run_handle_from_counted_words: from a first set bit to the next clear one,
\* word by word.
RunsFromWords(words) ==
  LET clear(v) == Min({w \in v .. LastLow + 1 : w \notin ValuesIn(words)})
      starts == Sorted({v \in ValuesIn(words) : v = 0 \/ v - 1 \notin ValuesIn(words)})
  IN [n \in DOMAIN starts |-> RunOf(starts[n], clear(starts[n]) - 1)]

\* choose_sorted_container_kind and the three ways to build.
FromValues(s, limit) ==
  IF s = <<>> THEN NoValues
  ELSE LET kind == ChooseKind(Len(s), limit, LAMBDA cap : RunsInValues(s, cap))
       IN CASE kind = "bitset" -> BitsetFrom(s)
            [] kind = "run"    -> AsRuns(RunsFromValues(s))
            [] kind = "array"  -> AsArray(s)

\* make_container_from_words.
FromWords(words, limit) ==
  CASE PopCount(words) = 0 -> NoValues
    [] IsBitsetSize(PopCount(words), limit) -> AsWords(words)
    [] OTHER -> FromValues(Sorted(ValuesIn(words)), limit)

\* make_container_from_sorted_keys: ascending keys that may repeat, counted
\* before anything is built.
FromKeys(keys, limit) ==
  LET repeats  == Cardinality({n \in 2 .. Len(keys) : keys[n] = keys[n - 1]})
      runs     == 1 + Cardinality({n \in 2 .. Len(keys) : keys[n] > keys[n - 1] + 1})
      distinct == Len(keys) - repeats
  IN IF Len(keys) >= limit
        /\ ChooseKind(distinct, limit, LAMBDA cap : Least(runs, cap)) = "bitset"
     THEN [BitsetFrom(keys) EXCEPT !.cardinality = distinct]
     ELSE FromValues(Sorted(ToSet(keys)), limit)

\* make_container_from_runs and settle_run_result.
FromRuns(rs, limit) ==
  IF rs = <<>> THEN NoValues
  ELSE LET kind == ChooseRunKind(TotalLength(rs), Len(rs), limit)
       IN CASE kind = "run"    -> AsRuns(rs)
            [] kind = "bitset" -> AsWords(WordsOf(RunValues(rs)))
            [] kind = "array"  -> AsArray(Sorted(RunValues(rs)))

-----------------------------------------------------------------------------
(***************************************************************************)
(* optimize(): each result with the runs it is allocated for.              *)
(***************************************************************************)
RunsIn(c)      == IF c.kind = "run" THEN Len(c.data) ELSE 0
Built(c, room) == [handle |-> c, room |-> room, filled |-> RunsIn(c)]
Plain(c)       == Built(c, RunsIn(c))

OptimizeRuns(c, limit) ==
  IF eager THEN Plain(FromRuns(c.data, limit))
  ELSE IF c.cardinality >= limit THEN Plain(AsWords(WordsOf(Holds(c))))
  ELSE Plain(AsArray(ValueList(c)))

OptimizeArray(c, limit) ==
  LET bytes   == c.cardinality * LowBytes
      allowed == c.cardinality >= limit
      cap     == CapFor(IF allowed THEN Max({bytes, BitsetBytes}) ELSE bytes)
      runs    == IF eager THEN RunsInValues(c.data, cap) ELSE cap
  IN CASE allowed /\ BitsetBytes <= RunSize(runs) -> Plain(BitsetFrom(c.data))
       [] ~(allowed /\ BitsetBytes <= RunSize(runs)) /\ RunSize(runs) < bytes ->
            Built(AsRuns(RunsFromValues(c.data)), runs)
       [] OTHER -> Plain(c)

OptimizeBitset(c, limit) ==
  LET bytes == c.cardinality * LowBytes
      stays == IsBitsetSize(c.cardinality, limit)
      cap   == CapFor(IF stays THEN BitsetBytes ELSE bytes)
      runs  == IF eager THEN RunsInWords(c.data, cap) ELSE cap
  IN CASE stays /\ BitsetBytes <= RunSize(runs) -> Plain(c)
       [] ~(stays /\ BitsetBytes <= RunSize(runs)) /\ RunSize(runs) < bytes ->
            Built(AsRuns(RunsFromWords(c.data)), runs)
       [] OTHER -> Plain(AsArray(ValueList(c)))

\* optimize_container_for_storage.
OptimizeForStorage(c, limit) ==
  CASE c.cardinality = 0 -> Plain(NoValues)
    [] c.cardinality > 0 /\ c.kind = "run"    -> OptimizeRuns(c, limit)
    [] c.cardinality > 0 /\ c.kind = "array"  -> OptimizeArray(c, limit)
    [] c.cardinality > 0 /\ c.kind = "bitset" -> OptimizeBitset(c, limit)

\* optimize_bitset_run_only: a bitset becomes runs or stays.
OptimizeRunOnly(c) ==
  LET kept == Min({BitsetBytes, c.cardinality * LowBytes})
      runs == RunsInWords(c.data, CapFor(kept))
  IN IF kept <= RunSize(runs) THEN Plain(c) ELSE Built(AsRuns(RunsFromWords(c.data)), runs)

-----------------------------------------------------------------------------
(***************************************************************************)
(* Ranges.                                                                 *)
(***************************************************************************)
\* apply_range_to_words.
RangeInWords(words, first, last, op) ==
  [w \in WordIndex |->
     CASE op = "add"    -> words[w] \cup InWord(first, last, w)
       [] op = "remove" -> words[w] \ InWord(first, last, w)
       [] op = "flip"   -> SymDiff(words[w], InWord(first, last, w))]

\* append_run: only touching runs join.
Appended(rs, run) ==
  IF rs # <<>> /\ Last(rs).end + 1 = run.begin
  THEN Append(Front(rs), [Last(rs) EXCEPT !.end = run.end]) ELSE Append(rs, run)

\* flip_array_range built as runs: the values in front, the gaps of the range
\* between its values, the values behind.
ArrayFlippedToRuns(s, first, last) ==
  LET inside == Sorted({v \in ToSet(s) : v \in first .. last})
      bounds == <<first - 1>> \o inside \o <<last + 1>>
      gaps   == [n \in 1 .. Len(inside) + 1 |-> RunOf(bounds[n] + 1, bounds[n + 1] - 1)]
      ones(S) == [n \in 1 .. Cardinality(S) |-> RunOf(Sorted(S)[n], Sorted(S)[n])]
      pieces == ones({v \in ToSet(s) : v < first})
                  \o SelectSeq(gaps, LAMBDA r : r.begin <= r.end)
                  \o ones({v \in ToSet(s) : v > last})
  IN FoldLeft(Appended, <<>>, pieces)

FlipArray(c, first, last, limit) ==
  LET inside  == Cardinality({v \in ToSet(c.data) : v \in first .. last})
      span    == last - first + 1
      n       == c.cardinality - inside + (span - inside)
      flipped == SymDiff(ToSet(c.data), first .. last)
  IN CASE span > c.cardinality /\ IsBitsetSize(span - c.cardinality, limit)
            /\ (c.cardinality + 1) * RunBytes + LowBytes < BitsetBytes ->
            Built(AsRuns(ArrayFlippedToRuns(c.data, first, last)), c.cardinality + 1)
       [] ~(span > c.cardinality /\ IsBitsetSize(span - c.cardinality, limit)
            /\ (c.cardinality + 1) * RunBytes + LowBytes < BitsetBytes)
            /\ IsBitsetSize(n, limit) ->
            Plain([AsWords(RangeInWords(WordsOf(ToSet(c.data)), first, last, "flip"))
                     EXCEPT !.cardinality = n])
       [] OTHER -> Plain(AsArray(Sorted(flipped)))

\* flip_run_range: the range is one more run, exclusive-ored in where it begins.
FlipRuns(c, first, last, limit) ==
  LET before == SelectSeq(c.data, LAMBDA r : r.begin < first)
      after  == SelectSeq(c.data, LAMBDA r : r.begin >= first)
      upTo(n) == FoldLeft(ExclusiveJoined, ExclusiveJoined(before, RunOf(first, last)),
                          SubSeq(after, 1, n))
  IN [handle |-> FromRuns(upTo(Len(after)), limit),
      room   |-> Len(c.data) + 1,
      filled |-> Max({Len(upTo(n)) : n \in 0 .. Len(after)})]

\* flip_bitset_range.
FlipBitset(c, first, last, limit) ==
  LET words == RangeInWords(c.data, first, last, "flip")
  IN CASE PopCount(words) = 0 -> Plain(NoValues)
       [] PopCount(words) > 0 /\ ~IsBitsetSize(PopCount(words), limit) ->
            Plain(AsArray(Sorted(ValuesIn(words))))
       [] OTHER -> Plain(AsWords(words))

\* container_range_of_ones.
RangeOfOnes(first, last) ==
  IF last - first < 2 THEN Plain(AsArray(Sorted(first .. last)))
                      ELSE Plain(AsRuns(<<RunOf(first, last)>>))

\* remove_closed_range of the runs.
Clipped(rs, first, last) ==
  FlattenSeq([n \in DOMAIN rs |->
    IF rs[n].end < first \/ last < rs[n].begin THEN <<rs[n]>>
    ELSE (IF rs[n].begin < first THEN <<RunOf(rs[n].begin, first - 1)>> ELSE <<>>)
         \o (IF last < rs[n].end THEN <<RunOf(last + 1, rs[n].end)>> ELSE <<>>)])

RemoveFromRuns(c, first, last, limit) ==
  IF \A n \in DOMAIN c.data : c.data[n].end < first \/ last < c.data[n].begin THEN Plain(c)
  ELSE [handle |-> FromRuns(Clipped(c.data, first, last), limit),
        room |-> Len(c.data) + 1, filled |-> Len(Clipped(c.data, first, last))]

\* apply_range_to_container.
ApplyRange(c, first, last, op, limit) ==
  CASE op = "remove" /\ c.kind = "run" -> RemoveFromRuns(c, first, last, limit)
    [] op # "flip" /\ ~(op = "remove" /\ c.kind = "run") ->
         Plain(FromWords(RangeInWords(WordsOf(Holds(c)), first, last, op), limit))
    [] op = "flip" /\ c.cardinality = 0 -> RangeOfOnes(first, last)
    [] op = "flip" /\ c.cardinality > 0 /\ c.kind = "array"  -> FlipArray(c, first, last, limit)
    [] op = "flip" /\ c.cardinality > 0 /\ c.kind = "run"    -> FlipRuns(c, first, last, limit)
    [] op = "flip" /\ c.cardinality > 0 /\ c.kind = "bitset" -> FlipBitset(c, first, last, limit)

-----------------------------------------------------------------------------
(***************************************************************************)
(* One container and the calls made on it.  A fold may leave any form,     *)
(* whatever its size, so every form of every set is a beginning.           *)
(***************************************************************************)
InForm(S, form) == CASE form = "array"  -> AsArray(Sorted(S))
                     [] form = "bitset" -> AsWords(WordsOf(S))
                     [] form = "run"    -> AsRuns(RunsOf(S))

FStart(S, form, policy) ==
  /\ members = S /\ eager = policy /\ lately = "change"
  /\ container = InForm(S, form)
  /\ asked = 0 /\ used = 0

FInit == \E S \in SUBSET Low, form \in {"array", "bitset", "run"}, policy \in BOOLEAN :
           /\ S = {} => form = "array"
           /\ FStart(S, form, policy)

Becomes(built) ==
  /\ container' = built.handle
  /\ asked' = built.room
  /\ used' = built.filled
  /\ UNCHANGED eager

ChangeRange ==
  \E first, last \in Low, op \in {"add", "remove", "flip"} :
    /\ first <= last
    /\ members' = CASE op = "add" -> members \cup (first .. last)
                    [] op = "remove" -> members \ (first .. last)
                    [] op = "flip" -> SymDiff(members, first .. last)
    /\ Becomes(ApplyRange(container, first, last, op, ArrayLimit))
    /\ lately' = "change"

\* bitmap::optimize and the finishes.
Optimize ==
  /\ Becomes(OptimizeForStorage(container, ArrayLimit))
  /\ lately' = "optimize"
  /\ UNCHANGED members

\* run_optimize on a bitset; optimize_container_keep_bitsets on the others.
OptimizeKeepingBitsets ==
  /\ container.cardinality > 0
  /\ IF container.kind = "bitset" THEN Becomes(OptimizeRunOnly(container))
                                  ELSE Becomes(OptimizeForStorage(container, ArrayLimit))
  /\ lately' = "change"
  /\ UNCHANGED members

\* The same values handed in again: as ascending keys one of which may repeat,
\* as values, as words, as runs.
Rebuild ==
  /\ members # {}
  /\ \E limit \in LowerLimits \cup {ArrayLimit}, twice \in members :
       \/ Becomes(Plain(FromKeys(SortSeq(Append(Sorted(members), twice), <=), limit)))
       \/ Becomes(Plain(FromKeys(Sorted(members), limit)))
       \/ Becomes(Plain(FromWords(WordsOf(members), limit)))
       \/ Becomes(Plain(FromRuns(RunsOf(members), limit)))
  /\ lately' = "change"
  /\ UNCHANGED members

FNext == ChangeRange \/ Optimize \/ OptimizeKeepingBitsets \/ Rebuild

-----------------------------------------------------------------------------
\* Whatever form a call picks holds the values, under their exact number; runs
\* are maximal, and an empty container is the empty array.
FormsAgree ==
  /\ Holds(container) = members
  /\ container.cardinality = Cardinality(members)
  /\ container.kind = "array" => container.data = Sorted(members)
  /\ container.kind = "run" => Maximal(container.data)
  /\ members = {} => container = NoValues

\* The runs a result was allocated for are enough; those counted up to a cap are
\* exactly the ones written, so the count did not stop short.
RoomIsEnough ==
  /\ used <= asked
  /\ lately = "optimize" => used = asked

Bytes(kind, S) ==
  CASE kind = "array"  -> Cardinality(S) * LowBytes
    [] kind = "bitset" -> BitsetBytes
    [] kind = "run"    -> RunSize(Len(RunsOf(S)))

\* optimize() leaves the smallest of the forms it may use, though it compares
\* runs counted up to a cap, and leaves it again when called again.
OptimizeSettles ==
  (lately = "optimize" /\ members # {}) =>
    LET forms == {"array"} \cup (IF eager THEN {"run"} ELSE {})
                   \cup (IF Cardinality(members) >= ArrayLimit THEN {"bitset"} ELSE {})
    IN /\ container.kind \in forms
       /\ \A kind \in forms : Bytes(container.kind, members) <= Bytes(kind, members)
       /\ OptimizeForStorage(container, ArrayLimit).handle = container
=============================================================================
