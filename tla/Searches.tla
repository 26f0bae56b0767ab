------------------------------ MODULE Searches ------------------------------
(***************************************************************************)
(* The searches the library runs over sorted lists: gallops, halvings,     *)
(* strides over blocks and the compares of whole vectors.  Each is a loop  *)
(* over positions that start at 0, over a list `s` whose element at        *)
(* position n is s[n + 1]; reading past the list is an error of TLC.       *)
(***************************************************************************)
EXTENDS Integers, Sequences, FiniteSetsExt

CONSTANTS
  SettleSteps,     \* the steps a gallop takes one by one, 3
  LinearSteps,     \* linear_run_steps, 16
  RunsPerStride,   \* runs_per_stride, 8
  Strides,         \* strides_before_doubling, 2
  Gap,             \* the values of a block of sorted_array_contains, 16
  ShortcutMin,     \* shortcut_min_chunks, 5
  WindowMin,       \* window_min_keys, 3
  WindowMax,       \* window_max_keys, 16
  ResidentMax      \* the keys in resident_keys_bytes, 64

ASSUME SearchAssumption ==
  /\ {SettleSteps, LinearSteps, RunsPerStride, Strides, Gap, ShortcutMin,
      WindowMin, WindowMax, ResidentMax} \subseteq Nat \ {0}
  /\ WindowMin <= WindowMax /\ WindowMax <= ResidentMax

At(s, n) == s[n + 1]

\* What the searches answer for: the first position from `low` up to `high`
\* whose element is not below `limit` (std::lower_bound).
FirstNotBelow(s, low, high, limit) ==
  Min({n \in low .. high - 1 : At(s, n) >= limit} \cup {high})

\* std::upper_bound.
FirstAbove(s, low, high, limit) ==
  Min({n \in low .. high - 1 : At(s, n) > limit} \cup {high})

-----------------------------------------------------------------------------
\* The doubling of every gallop: from a position whose element fails, steps of
\* 1, 2, 4 .. to the last one known to fail, and the step that did not fail.
Doubled(from, first, fails(_, _)) ==
  LET pass[n \in Nat, step \in Nat] ==
        IF fails(n, step) THEN pass[n + step, 2 * step] ELSE <<n, step>>
  IN pass[from, first]

\* A slip: the window of the last step ends at the step.
GallopForwardShort(s, low, high, limit, above) ==
  LET below(n) == IF above THEN At(s, n) <= limit ELSE At(s, n) < limit
      settled  == {o \in 1 .. SettleSteps : low + o >= high \/ ~below(low + o)}
      reached  == Doubled(low + SettleSteps, 1,
                          LAMBDA n, step : n + step < high /\ below(n + step))
      end      == Min({reached[1] + reached[2] - 1, high})
  IN IF low = high \/ ~below(low) THEN low
     ELSE IF settled # {} THEN low + Min(settled)
     ELSE IF above THEN FirstAbove(s, reached[1] + 1, end, limit)
                   ELSE FirstNotBelow(s, reached[1] + 1, end, limit)

\* gallop_forward<Greater> (array_ops.hpp): the first position in [low, high)
\* whose element is not below `limit`, or is above it.
GallopForward(s, low, high, limit, above) ==
  LET below(n) == IF above THEN At(s, n) <= limit ELSE At(s, n) < limit
      settled  == {o \in 1 .. SettleSteps : low + o >= high \/ ~below(low + o)}
      reached  == Doubled(low + SettleSteps, 1,
                          LAMBDA n, step : n + step < high /\ below(n + step))
      end      == Min({reached[1] + reached[2], high})
  IN IF low = high \/ ~below(low) THEN low
     ELSE IF settled # {} THEN low + Min(settled)
     ELSE IF above THEN FirstAbove(s, reached[1] + 1, end, limit)
                   ELSE FirstNotBelow(s, reached[1] + 1, end, limit)

\* The steps after the strides of equal length: a window that is searched.
StrideDoubling(ends, index, size, value) ==
  LET reached == Doubled(index, 2 * RunsPerStride,
                         LAMBDA n, step : size - n > step /\ At(ends, n + step - 1) < value)
  IN FirstNotBelow(ends, reached[1], Min({reached[1] + reached[2], size}), value)

\* stride_to_run_reaching: blocks of runs passed by the end of their last run.
StrideToRunReaching(ends, from, size, value) ==
  LET passes(n) == size - n >= RunsPerStride /\ At(ends, n + RunsPerStride - 1) < value
      blocks == {m \in 0 .. Strides : \A q \in 0 .. m - 1 : passes(from + q * RunsPerStride)}
      index == from + Max(blocks) * RunsPerStride
  IN IF Max(blocks) = Strides THEN StrideDoubling(ends, index, size, value)
     ELSE FirstNotBelow(ends, index, size, value)

\* run_reaching: linear steps first.
RunReaching(ends, index, size, value) ==
  LET near == FirstNotBelow(ends, index, Min({index + LinearSteps, size}), value)
  IN IF near < Min({index + LinearSteps, size}) \/ near = size THEN near
     ELSE StrideToRunReaching(ends, near, size, value)

\* binary_search of the runs by their begin (interleaved_binary_search): the
\* position of an equal one, else -(the insertion point + 1).
BeginSearch(begins, key) ==
  LET halve[low \in Int, high \in Int] ==
        IF low > high THEN -(low + 1)
        ELSE LET mid == (low + high) \div 2
             IN CASE At(begins, mid) < key -> halve[mid + 1, high]
                  [] At(begins, mid) > key -> halve[low, mid - 1]
                  [] OTHER -> mid
  IN halve[0, Len(begins) - 1]

\* run_cref::contains.
RunContains(begins, ends, value) ==
  LET index == BeginSearch(begins, value)
      before == -index - 2
  IN index >= 0 \/ (before >= 0 /\ value <= At(ends, before))

-----------------------------------------------------------------------------
\* A slip: what the division by four leaves over is given to no quarter.
WholeQuarter(n) == n \div 4

\* The blocks left when the search has gone on to a quarter: the last quarter has
\* the rest of the division.
QuarterLeft(n) == n - 3 * (n \div 4)

\* The block of sorted_array_contains: quarters, then halves.
BlockSearch(s, value) ==
  LET blocks == Len(s) \div Gap
      top(n) == At(s, (n + 1) * Gap - 1)
      quarters[base \in Nat, n \in Nat] ==
        IF n <= 3 THEN <<base, n>>
        ELSE LET quarter == n \div 4
                 lower == Cardinality({c \in 1 .. 3 : top(base + c * quarter) < value})
             IN quarters[base + lower * quarter, QuarterLeft(n)]
      halve[base \in Nat, n \in Nat] ==
        IF n <= 1 THEN base
        ELSE LET half == n \div 2
             IN halve[IF top(base + half) < value THEN base + half ELSE base, n - half]
      q == quarters[0, blocks]
      base == halve[q[1], q[2]]
  IN IF top(base) < value THEN base + 1 ELSE base

\* sorted_array_contains: one block is compared whole, what is past the last
\* whole block value by value.
SortedArrayContains(s, value) ==
  LET blocks == Len(s) \div Gap
      from(n) == {At(s, m) : m \in n .. Len(s) - 1}
      block == BlockSearch(s, value)
  IN IF Len(s) < Gap THEN value \in from(0)
     ELSE IF block < blocks THEN value \in {At(s, m) : m \in block * Gap .. (block + 1) * Gap - 1}
     ELSE value \in from(blocks * Gap)

-----------------------------------------------------------------------------
\* chunk_array::lower_bound( key, from ).
ChunkLowerBoundFrom(keys, key, from) ==
  LET n == Len(keys)
      reached == Doubled(from, 1, LAMBDA p, step : p + step < n /\ At(keys, p + step) < key)
      bisect[low \in Nat, high \in Nat] ==
        IF low + 1 >= high THEN high
        ELSE LET mid == low + (high - low) \div 2
             IN IF At(keys, mid) < key THEN bisect[mid, high] ELSE bisect[low, mid]
  IN IF from >= n THEN n
     ELSE IF At(keys, from) >= key THEN from
     ELSE bisect[reached[1], Min({reached[1] + reached[2], n})]

\* find_in_window: the vector ends at the last key and may begin before the
\* first, in the bytes of the handles; those lanes are shifted out.
FindInWindow(keys, key, handlesMatch) ==
  LET outside == WindowMax - Len(keys)
      lanes == {n \in 0 .. WindowMax - 1 :
                  IF n < outside THEN handlesMatch ELSE At(keys, n - outside) = key}
      found == {n - outside : n \in {m \in lanes : m >= outside}}
  IN IF found # {} THEN Min(found) ELSE Len(keys)

\* The halving ends on the last key not above `key`.
HalvingFind(keys, key) ==
  LET halve[base \in Nat, length \in Nat] ==
        IF length <= 1 THEN base
        ELSE LET half == length \div 2
             IN halve[IF At(keys, base + half) <= key THEN base + half ELSE base, length - half]
  IN IF At(keys, halve[0, Len(keys)]) = key THEN halve[0, Len(keys)] ELSE Len(keys)

\* chunk_array::find; `vectors` is whether keys are 16 bits wide and the
\* processor compares them so.
ChunkFind(keys, key, vectors, handlesMatch) ==
  LET n == Len(keys)
      bound == FirstNotBelow(keys, 0, n, key)
      lastHolds == n > 0 /\ At(keys, n - 1) = key
  IN CASE n > WindowMax /\ lastHolds -> n - 1
       [] n > ResidentMax /\ ~lastHolds ->
            IF bound = n \/ At(keys, bound) # key THEN n ELSE bound
       [] n = 0 -> n
       [] n \in WindowMin .. WindowMax /\ n >= ShortcutMin /\ lastHolds -> n - 1
       [] n \in WindowMin .. WindowMax /\ vectors /\ ~(n >= ShortcutMin /\ lastHolds) ->
            FindInWindow(keys, key, handlesMatch)
       [] OTHER -> HalvingFind(keys, key)
=============================================================================
