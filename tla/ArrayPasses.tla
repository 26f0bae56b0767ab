---------------------------- MODULE ArrayPasses ----------------------------
(***************************************************************************)
(* The passes over one sorted array: filtered by a run list or a bitset    *)
(* (array_ops.hpp), into another vector or in place; counted against a run *)
(* list (container_ops.hpp); a sorted batch merged into it or taken from   *)
(* it (array_ref of container_handle.hpp).  One step is one iteration.     *)
(*                                                                         *)
(* The result is a memory of places; a pass in place reads from it too.    *)
(* `wrote` names the places the last step stored to.                       *)
(***************************************************************************)
EXTENDS Searches, BitsetWords

CONSTANTS
  PassLow,         \* the low values the passes are given
  StretchCopy,     \* values_per_run_for_stretch_copy, 16
  DiffSteps,       \* values_per_run_for_difference_steps, 8
  DiffWhole,       \* values_per_run_for_difference_whole, 32
  CoveredSteps,    \* covered_steps_before_gallop, 8
  SkewedBatch      \* kSkewedIntersectRatioThreshold, 64

ASSUME PassAssumption ==
  /\ {StretchCopy, DiffSteps, DiffWhole, CoveredSteps, SkewedBatch} \subseteq Nat \ {0}
  /\ PassLow \subseteq Low

VARIABLES
  pass,      \* which pass, see Passes
  keep,      \* a filter: keep_matches
  values,    \* the values of the array, as the pass found them
  runs,      \* the runs filtered by, or <<>>
  others,    \* the bitset filtered by, or the batch
  here,      \* whether the result is written over the array
  cells,     \* the places of the result
  read,      \* values passed (adding: values not yet moved)
  write,     \* values written (adding: the place of the last one)
  next,      \* runs or batch values passed (adding: not yet placed)
  stage,     \* "walk" or "done"
  wrote

pvars == <<pass, keep, values, runs, others, here, cells, read, write, next, stage, wrote>>
given == <<pass, keep, values, runs, others, here>>

Passes == {"runs", "bitset", "bitset spans", "count", "add", "remove"}

Batch == Sorted(others)
Card  == Len(values)

\* A batch that goes past the last value needs no merge.
Appends(A, B) == \A v \in A, w \in B : v < w

PStart(A, B, name, kept, inPlace) ==
  LET place == IF name \in {"add", "remove"} THEN TRUE
               ELSE inPlace /\ name \in {"runs", "bitset"}
      size == IF name = "add" THEN Cardinality(A) + Cardinality(B)
              ELSE IF name = "count" THEN 0 ELSE Cardinality(A)
      \* the values of the array below the first one to be removed stay
      below == Cardinality({v \in A : \A w \in B : v < w})
  IN /\ pass = name /\ keep = kept /\ here = place
     /\ values = Sorted(A)
     /\ runs = IF name \in {"runs", "count"} THEN RunsOf(B) ELSE <<>>
     /\ others = IF name \in {"runs", "count"} THEN {} ELSE B
     /\ cells = [p \in 1 .. size |->
                   IF place /\ p <= Cardinality(A) THEN Sorted(A)[p] ELSE 0]
     /\ read = (CASE name = "add" -> Cardinality(A) [] name = "remove" -> below [] OTHER -> 0)
     /\ write = (CASE name = "add" -> Cardinality(A) + Cardinality(B)
                   [] name = "remove" -> below [] OTHER -> 0)
     /\ next = IF name = "add" THEN Cardinality(B) ELSE 0
     /\ stage = "walk" /\ wrote = {}

PInit == \E A, B \in SUBSET PassLow, name \in Passes, kept, inPlace \in BOOLEAN :
           PStart(A, B, name, kept, inPlace)

-----------------------------------------------------------------------------
ValueAt(n) == IF here THEN cells[n + 1] ELSE values[n + 1]
Keys    == [n \in 1 .. Card |-> ValueAt(n - 1)]
Slice(from, to) == [n \in 1 .. to - from |-> ValueAt(from + n - 1)]

Put(p, s) ==
  /\ cells' = [q \in DOMAIN cells |-> IF q \in p + 1 .. p + Len(s) THEN s[q - p] ELSE cells[q]]
  /\ wrote' = p + 1 .. p + Len(s)

PutNothing == wrote' = {} /\ UNCHANGED cells

\* Values written from the front on.
Keeps(s) == Put(write, s) /\ write' = write + Len(s)
Drops    == PutNothing /\ UNCHANGED write

-----------------------------------------------------------------------------
(***************************************************************************)
(* filter_array_run_into and filter_array_run_inplace: the run cursor moves*)
(* only when a value has passed its run.                                   *)
(***************************************************************************)
Ends == [n \in DOMAIN runs |-> runs[n].end]

Enough(perRun) == Card >= Len(runs) * perRun

\* stretch_form, and LongStretches of the pass in place.
Form ==
  IF keep \/ here THEN IF Enough(StretchCopy) THEN "whole" ELSE "per value"
  ELSE IF Enough(DiffWhole) THEN "whole"
  ELSE IF Enough(DiffSteps) THEN "stepped" ELSE "per value"

ReachedRun == RunReaching(Ends, next, Len(runs), ValueAt(read))

\* No value is left, or no run that reaches one.
Exhausted == IF read = Card \/ runs = <<>> THEN TRUE ELSE ReachedRun = Len(runs)

\* Past the last run nothing matches.
FilterEnds ==
  /\ pass = "runs" /\ stage = "walk"
  /\ Exhausted
  /\ IF keep THEN Drops ELSE Keeps(Slice(read, Card))
  /\ read' = Card
  /\ stage' = "done"
  /\ UNCHANGED <<given, next>>

\* A stretch of kept values: up to the end of the run, or to its begin.
KeptUpTo(run) ==
  IF Form = "per value" THEN read + 1
  ELSE IF keep THEN FirstNotBelow(Keys, read + 1, Card, run.end + 1)
  ELSE IF Form = "whole" /\ ~here THEN GallopForward(Keys, read, Card, run.begin, FALSE)
  ELSE FirstNotBelow(Keys, read + 1, Card, run.begin)

\* The values a run covers, dropped: stepped over, the rest by a gallop.
PastCovered(run) ==
  LET near == FirstAbove(Keys, read + 1, Min({read + 1 + CoveredSteps, Card}), run.end)
  IN IF Form # "stepped" THEN GallopForward(Keys, read, Card, run.end, TRUE)
     ELSE IF near = read + 1 + CoveredSteps
          THEN GallopForward(Keys, read + CoveredSteps, Card, run.end, TRUE)
     ELSE near

InRun(value, run) == value >= run.begin

FilterStep ==
  /\ ~Exhausted
  /\ next' = ReachedRun
  /\ LET run == runs[next' + 1]
         inRun == InRun(ValueAt(read), run)
         to == IF inRun = keep THEN KeptUpTo(run)
               ELSE IF inRun THEN PastCovered(run)
               ELSE GallopForward(Keys, read, Card, run.begin, FALSE)
     IN /\ IF inRun = keep THEN Keeps(Slice(read, to)) ELSE Drops
        /\ read' = to
  /\ UNCHANGED <<given, stage>>

FilterByRuns        == pass = "runs" /\ stage = "walk" /\ ~here /\ FilterStep
FilterByRunsInPlace == pass = "runs" /\ stage = "walk" /\ here /\ FilterStep

\* container_intersect_cardinality of an array and a run list: two gallops to
\* a run when the runs are few, else the walk above.
CountByRuns ==
  LET run == runs[next + 1]
      from == GallopForward(Keys, read, Card, run.begin, FALSE)
      past == GallopForward(Keys, from, Card, run.end, TRUE)
  IN /\ pass = "count" /\ stage = "walk" /\ Enough(StretchCopy)
     /\ IF next = Len(runs) \/ from = Card
        THEN stage' = "done" /\ UNCHANGED <<read, write, next>>
        ELSE /\ write' = write + past - from /\ read' = past /\ next' = next + 1
             /\ UNCHANGED stage
     /\ PutNothing /\ UNCHANGED given

CountByValues ==
  /\ pass = "count" /\ stage = "walk" /\ ~Enough(StretchCopy)
  /\ IF Exhausted
     THEN stage' = "done" /\ UNCHANGED <<read, write, next>>
     ELSE /\ next' = ReachedRun
          /\ LET run == runs[next' + 1] IN
             IF InRun(ValueAt(read), run)
             THEN read' = read + 1 /\ write' = write + 1
             ELSE /\ read' = GallopForward(Keys, read, Card, run.begin, FALSE)
                  /\ UNCHANGED write
          /\ UNCHANGED stage
  /\ PutNothing /\ UNCHANGED given

-----------------------------------------------------------------------------
(***************************************************************************)
(* filter_array_bitset_into and filter_array_bitset_inplace: every value   *)
(* is stored, and counted when its bit says so.  On AArch64 the kept values*)
(* are walked by the word they share.                                      *)
(***************************************************************************)
Word(w) == WordsOf(others)[w]

BitStep ==
  /\ IF read = Card THEN PutNothing /\ stage' = "done" /\ UNCHANGED <<read, write>>
     ELSE /\ Put(write, <<ValueAt(read)>>)
          /\ write' = IF (BitOf(ValueAt(read)) \in Word(WordOf(ValueAt(read)))) = keep
                      THEN write + 1 ELSE write
          /\ read' = read + 1
          /\ UNCHANGED stage
  /\ UNCHANGED <<given, next>>

FilterByBits ==
  /\ pass = "bitset" \/ (pass = "bitset spans" /\ ~keep)
  /\ stage = "walk" /\ ~here
  /\ BitStep

FilterByBitsInPlace == pass = "bitset" /\ stage = "walk" /\ here /\ BitStep

\* A word that is empty or full answers for all the values that share it.
FilterBySpans ==
  /\ pass = "bitset spans" /\ keep /\ stage = "walk"
  /\ IF read = Card THEN PutNothing /\ stage' = "done" /\ UNCHANGED <<read, write>>
     ELSE LET w == WordOf(ValueAt(read))
              to == FirstNotBelow(Keys, read + 1, Card, (w + 1) * WordBits)
              kept == IF Word(w) = {} THEN <<>>
                      ELSE IF Word(w) = Bit THEN Slice(read, to)
                      ELSE SelectSeq(Slice(read, to), LAMBDA v : BitOf(v) \in Word(w))
          IN Keeps(kept) /\ read' = to /\ UNCHANGED stage
  /\ UNCHANGED <<given, next>>

-----------------------------------------------------------------------------
(***************************************************************************)
(* array_ref::add_sorted: room for the whole batch is made at the end, and *)
(* the merge goes from the largest value down.  `read` values have not been*)
(* moved yet, the places from `write` on are merged.                       *)
(***************************************************************************)
Total == Card + Len(Batch)

FewAgainstMany == Len(Batch) * SkewedBatch < Card

AddAtEnd ==
  /\ pass = "add" /\ stage = "walk" /\ Appends(ToSet(values), others)
  /\ Put(Card, Batch)
  /\ write' = Total
  /\ stage' = "done"
  /\ UNCHANGED <<given, read, next>>

\* How far down from the last value not moved the gallop knows the values to be
\* above the one to be placed, and the step that was too long.
DownGallop(value) ==
  Doubled(0, 1, LAMBDA d, step : read - 1 - d - step >= 0
                                 /\ value < ValueAt(read - 1 - d - step))

\* The first value above the one to be placed: a gallop down from the last
\* value placed when the batch is small, else one value after the other.
Above(value) ==
  IF read = 0 \/ ValueAt(read - 1) <= value THEN read
  ELSE IF FewAgainstMany
       THEN LET known == read - 1 - DownGallop(value)[1]
                probe == known - DownGallop(value)[2]
            IN FirstAbove(cells, Max({probe + 1, 0}), known, value)
  ELSE FirstAbove(cells, 0, read, value)

AddOne ==
  /\ pass = "add" /\ stage = "walk" /\ ~Appends(ToSet(values), others) /\ next > 0
  /\ LET value == Batch[next]
         above == Above(value)
         twice == above # 0 /\ ValueAt(above - 1) = value
         to == write - (read - above) - 1
     IN /\ Put(to, <<value>> \o Slice(above, read))
        /\ write' = to
        /\ read' = IF twice THEN above - 1 ELSE above
  /\ next' = next - 1
  /\ UNCHANGED <<given, stage>>

\* The room of values that were there already is closed.
AddEnds ==
  /\ pass = "add" /\ stage = "walk" /\ ~Appends(ToSet(values), others) /\ next = 0
  /\ Put(read, Slice(write, Total))
  /\ write' = read + Total - write
  /\ stage' = "done"
  /\ UNCHANGED <<given, read, next>>

-----------------------------------------------------------------------------
(***************************************************************************)
(* array_ref::remove_sorted: the survivors move down, a block at a time    *)
(* when the batch is small against the array.                              *)
(***************************************************************************)
BatchLeft == read < Card /\ next < Len(Batch)

RemoveBlock ==
  /\ pass = "remove" /\ stage = "walk" /\ BatchLeft /\ FewAgainstMany
  /\ LET value == Batch[next + 1]
         reached == Doubled(read, 1,
                            LAMBDA n, step : Card - n > step /\ ValueAt(n + step) < value)
         to == IF ValueAt(read) >= value THEN read
               ELSE FirstNotBelow(cells, reached[1] + 1,
                                  Min({reached[1] + reached[2], Card}), value)
     IN /\ IF write # read THEN Keeps(Slice(read, to))
                           ELSE PutNothing /\ write' = write + to - read
        /\ read' = IF to < Card /\ ValueAt(to) = value THEN to + 1 ELSE to
  /\ next' = next + 1
  /\ UNCHANGED <<given, stage>>

RemoveOne ==
  /\ pass = "remove" /\ stage = "walk" /\ BatchLeft /\ ~FewAgainstMany
  /\ LET value == ValueAt(read)
         gone == Batch[next + 1]
     IN /\ IF value < gone THEN Keeps(<<value>>) ELSE Drops
        /\ read' = IF value <= gone THEN read + 1 ELSE read
        /\ next' = IF value >= gone THEN next + 1 ELSE next
  /\ UNCHANGED <<given, stage>>

RemoveEnds ==
  /\ pass = "remove" /\ stage = "walk" /\ ~BatchLeft
  /\ Keeps(Slice(read, Card))
  /\ read' = Card
  /\ stage' = "done"
  /\ UNCHANGED <<given, next>>

PNext ==
  \/ FilterByRuns \/ FilterByRunsInPlace \/ FilterEnds
  \/ CountByRuns \/ CountByValues
  \/ FilterByBits \/ FilterByBitsInPlace \/ FilterBySpans
  \/ AddAtEnd \/ AddOne \/ AddEnds
  \/ RemoveBlock \/ RemoveOne \/ RemoveEnds
=============================================================================
