----------------------------- MODULE RunKernels -----------------------------
(***************************************************************************)
(* The kernels of run_ops.hpp that combine two run lists, or a run list    *)
(* and a sorted array, in one forward pass.  One action is one iteration   *)
(* of a kernel's loop.  An array operand is a list of one-value runs.      *)
(***************************************************************************)
EXTENDS RunLists

CONSTANT SkewedRatio   \* skewed_run_lists_ratio

ASSUME SkewedRatioAssumption == SkewedRatio \in Nat \ {0}

VARIABLES
  kernel,   \* the function that runs
  lhs, rhs, \* its operands
  li, ri,   \* the next run of either to read
  left,     \* the run loaded from lhs: start and end of the intersections,
            \* current_begin and left.end of the differences
  right,    \* the run loaded from rhs: xstart and xend
  scan,     \* the differences' cursor ahead of ri
  out,      \* the runs written
  covered,  \* the cardinality counted so far, or set at the end
  at        \* where the kernel is

kvars == <<kernel, lhs, rhs, li, ri, left, right, scan, out, covered, at>>

Unions        == {"union_run_run", "union_run_array"}
Xors          == {"xor_runs", "xor_values_runs"}
Intersections == {"intersect_runs", "intersect_runs_cardinality"}
Differences   == {"difference_run_run", "difference_run_values"}
Kernels       == Unions \cup Xors \cup Intersections \cup Differences

LeftIsValues(k)  == k = "xor_values_runs"
RightIsValues(k) == k \in {"union_run_array", "difference_run_values"}

OperandsOf(isValues, S) == IF isValues THEN ValuesOf(S) ELSE RunsOf(S)

NoRun == RunOf(0, 0)

Start(k, A, B) ==
  /\ kernel = k
  /\ lhs = OperandsOf(LeftIsValues(k), A)
  /\ rhs = OperandsOf(RightIsValues(k), B)
  /\ li = 1 /\ ri = 1 /\ scan = 1
  /\ left  = IF k \in Intersections /\ A # {} THEN lhs[1] ELSE NoRun
  /\ right = IF k \in Intersections /\ B # {} THEN rhs[1] ELSE NoRun
  /\ out = <<>> /\ covered = 0
  /\ at = CASE k \in Unions \cup Xors -> "merge"
            [] k \in Differences      -> "outer"
            [] k \in Intersections    -> "intersect"

\* Every pair of sets, as the kernel that runs has them stored.
KInit == \E k \in Kernels, A, B \in SUBSET Low : Start(k, A, B)

LeftOver  == li <= Len(lhs)
RightOver == ri <= Len(rhs)

Finish == at' = "done"

\* The runs allocated for the result before the pass.
Room ==
  IF kernel = "difference_run_values"
  THEN Min({Len(lhs) + Len(rhs), (LastLow + 1) \div 2})
  ELSE Len(lhs) + Len(rhs)

-----------------------------------------------------------------------------
\* The unions and the exclusive-ors merge both lists by begin.
LeftFirst ==
  RightOver => \/ lhs[li].begin < rhs[ri].begin
               \/ /\ kernel \in {"union_run_array", "xor_runs"}
                  /\ lhs[li].begin = rhs[ri].begin

Take(r) ==
  IF kernel \in Unions
  THEN out' = Joined(out, r) /\ covered' = covered + JoinGain(out, r)
  ELSE out' = ExclusiveJoined(out, r) /\ UNCHANGED covered

TakeLeft ==
  /\ at = "merge" /\ LeftOver /\ LeftFirst
  /\ Take(lhs[li]) /\ li' = li + 1
  /\ UNCHANGED <<kernel, lhs, rhs, ri, left, right, scan, at>>

TakeRight ==
  /\ at = "merge" /\ RightOver /\ ~(LeftOver /\ LeftFirst)
  /\ Take(rhs[ri]) /\ ri' = ri + 1
  /\ UNCHANGED <<kernel, lhs, rhs, li, left, right, scan, at>>

\* The exclusive-ors and the differences count at the end (sync_header).
Merged ==
  /\ \/ at = "merge" /\ ~LeftOver /\ ~RightOver
     \/ at = "outer" /\ ~LeftOver
  /\ covered' = IF kernel \in Unions THEN covered ELSE TotalLength(out)
  /\ Finish
  /\ UNCHANGED <<kernel, lhs, rhs, li, ri, left, right, scan, out>>

-----------------------------------------------------------------------------
\* The intersections compare the two loaded runs and advance one or both.
\* A side that moves loads its next run, if it has one.
AdvanceTo(i, j) ==
  /\ li' = i
  /\ left'  = IF i # li /\ i <= Len(lhs) THEN lhs[i] ELSE left
  /\ ri' = j
  /\ right' = IF j # ri /\ j <= Len(rhs) THEN rhs[j] ELSE right

Comparing == at = "intersect" /\ LeftOver /\ RightOver

SkipLeft ==
  /\ Comparing /\ left.end < right.begin
  /\ AdvanceTo(Reaching(lhs, li + 1, right.begin), ri)
  /\ UNCHANGED <<kernel, lhs, rhs, scan, out, covered, at>>

SkipRight ==
  /\ Comparing /\ left.end >= right.begin /\ right.end < left.begin
  /\ AdvanceTo(li, Reaching(rhs, ri + 1, left.begin))
  /\ UNCHANGED <<kernel, lhs, rhs, scan, out, covered, at>>

Skewed == /\ kernel = "intersect_runs"
          /\ \/ Len(lhs) >= SkewedRatio * Len(rhs)
             \/ Len(rhs) >= SkewedRatio * Len(lhs)

\* The runs of rs after i that end inside a run that ends at `end`: they are
\* copied as they are (copy_runs_inside).
Inside(rs, i, end) ==
  IF Skewed THEN SubSeq(rs, i + 1, Reaching(rs, i + 1, end + 1) - 1) ELSE <<>>

Shared == RunOf(Max({left.begin, right.begin}), Min({left.end, right.end}))

Emit(rs) ==
  /\ covered' = covered + TotalLength(rs)
  /\ out' = IF kernel = "intersect_runs" THEN out \o rs ELSE out

EmitShared ==
  /\ Comparing /\ left.end >= right.begin /\ right.end >= left.begin
  /\ LET copied == IF left.end < right.end THEN Inside(lhs, li, right.end)
                   ELSE IF left.end > right.end THEN Inside(rhs, ri, left.end)
                   ELSE <<>>
     IN  /\ Emit(<<Shared>> \o copied)
         /\ AdvanceTo(
              IF left.end < right.end THEN li + 1 + Len(copied)
              ELSE IF left.end = right.end THEN li + 1 ELSE li,
              IF right.end < left.end THEN ri + 1 + Len(copied)
              ELSE IF left.end = right.end THEN ri + 1 ELSE ri)
  /\ UNCHANGED <<kernel, lhs, rhs, scan, at>>

Intersected ==
  /\ at = "intersect" /\ ~(LeftOver /\ RightOver)
  /\ Finish
  /\ UNCHANGED <<kernel, lhs, rhs, li, ri, left, right, scan, out, covered>>

-----------------------------------------------------------------------------
\* The differences cut each run of lhs by the runs of rhs it meets.
NextLeft ==
  /\ at = "outer" /\ LeftOver
  /\ left' = lhs[li]
  /\ ri' = Reaching(rhs, ri, lhs[li].begin)
  /\ scan' = ri'
  /\ at' = "inner"
  /\ UNCHANGED <<kernel, lhs, rhs, li, right, out, covered>>

Meets == scan <= Len(rhs) /\ rhs[scan].begin <= left.end

\* A slip: the last value of the domain, after which the low value wraps to 0.
ExhaustsShort(r) == kernel = "difference_run_run" /\ r.end >= left.end

\* Nothing of the left run is beyond the run it is cut by.
Exhausts(r) ==
  \/ r.end = LastLow
  \/ kernel = "difference_run_run" /\ r.end >= left.end

\* Only the array kernel keeps the place its scan got to.
LeaveLeft ==
  /\ li' = li + 1
  /\ at' = "outer"
  /\ ri' = IF kernel = "difference_run_values" THEN scan ELSE ri

Cut ==
  /\ at = "inner" /\ Meets
  /\ LET r == rhs[scan] IN
     /\ out' = IF left.begin < r.begin
               THEN Append(out, RunOf(left.begin, AsLow(r.begin - 1))) ELSE out
     /\ IF Exhausts(r)
        THEN LeaveLeft /\ UNCHANGED <<left, scan>>
        ELSE /\ left' = [left EXCEPT !.begin = AsLow(r.end + 1)]
             /\ scan' = scan + 1
             /\ UNCHANGED <<li, ri, at>>
  /\ UNCHANGED <<kernel, lhs, rhs, right, covered>>

KeepRest ==
  /\ at = "inner" /\ ~Meets
  /\ out' = IF left.begin <= left.end THEN Append(out, left) ELSE out
  /\ LeaveLeft
  /\ UNCHANGED <<kernel, lhs, rhs, left, right, scan, covered>>

KNext == \/ TakeLeft \/ TakeRight \/ Merged
         \/ SkipLeft \/ SkipRight \/ EmitShared \/ Intersected
         \/ NextLeft \/ Cut \/ KeepRest

KSpec == KInit /\ [][KNext]_kvars /\ WF_kvars(KNext)

-----------------------------------------------------------------------------
(***************************************************************************)
(* What the loops keep, iteration by iteration, and the set operation they *)
(* carry out.                                                              *)
(***************************************************************************)
KTypeOK ==
  /\ kernel \in Kernels
  /\ lhs \in Seq(Run) /\ rhs \in Seq(Run) /\ out \in Seq(Run)
  /\ li \in 1 .. Len(lhs) + 1
  /\ ri \in 1 .. Len(rhs) + 1
  /\ scan \in 1 .. Len(rhs) + 1
  /\ left \in Run /\ right \in Run
  /\ covered \in 0 .. LastLow + 1
  /\ at \in {"merge", "outer", "inner", "intersect", "done"}

Prefix(rs, i) == RunValues(SubSeq(rs, 1, i - 1))
Rest(rs, i)   == RunValues(SubSeq(rs, i, Len(rs)))

\* The part of the answer the iterations so far have decided.
Decided ==
  CASE kernel \in Unions -> Prefix(lhs, li) \cup Prefix(rhs, ri)
    [] kernel \in Xors   -> SymDiff(Prefix(lhs, li), Prefix(rhs, ri))
    [] kernel \in Intersections ->
         (RunValues(lhs) \cap RunValues(rhs)) \ (Rest(lhs, li) \cap Rest(rhs, ri))
    [] kernel \in Differences ->
         (Prefix(lhs, li)
            \cup (IF at = "inner" THEN lhs[li].begin .. left.begin - 1 ELSE {}))
         \ RunValues(rhs)

(***************************************************************************)
(* After every iteration of run_ops.hpp's merges the runs written hold     *)
(* exactly the values that the runs read so far decide: none is lost when  *)
(* one side skips ahead or ends first, none is written twice.              *)
(***************************************************************************)
OutHoldsTheDecided ==
  kernel # "intersect_runs_cardinality" => RunValues(out) = Decided

(***************************************************************************)
(* The runs written are maximal at every point: the kernels never leave    *)
(* two runs that touch, which contains(), the run count and the form       *)
(* chosen from it all assume of a run container.                           *)
(***************************************************************************)
OutIsMaximal == Maximal(out)

(***************************************************************************)
(* The merges write no run past the block they allocate up front           *)
(* (lhs + rhs runs; at most half the domain in difference_run_values).     *)
(***************************************************************************)
RoomSuffices == Len(out) <= Room

(***************************************************************************)
(* append_run_exclusive's unchecked precondition: the run appended does    *)
(* not begin before the last run built, even after that run was cut,       *)
(* wiped out or moved past its own begin.                                  *)
(***************************************************************************)
ExclusiveOrInOrder ==
  (kernel \in Xors /\ at = "merge" /\ out # <<>>) =>
    /\ LeftOver  /\ LeftFirst => lhs[li].begin >= Last(out).begin
    /\ RightOver /\ ~(LeftOver /\ LeftFirst) => rhs[ri].begin >= Last(out).begin

(***************************************************************************)
(* The intersections work on copies of the current runs (start, end,       *)
(* xstart, xend): whenever they compare, both copies are the current runs. *)
(***************************************************************************)
LoadedRunsAreCurrent == Comparing => left = lhs[li] /\ right = rhs[ri]

Operation ==
  CASE kernel \in Unions      -> "union"
    [] kernel \in Xors        -> "xor"
    [] kernel \in Differences -> "difference"
    [] kernel = "intersect_runs" -> "intersection"
    [] kernel = "intersect_runs_cardinality" -> "count"

Sets == INSTANCE SetCombination WITH
  op     <- Operation,
  left   <- RunValues(lhs),
  right  <- RunValues(rhs),
  answer <- IF at = "done"
            THEN {[values |-> RunValues(out), cardinality |-> covered]} ELSE {}

\* A kernel that has returned has written the whole answer, and nothing else.
DoneIsTheAnswer ==
  (at = "done" /\ kernel # "intersect_runs_cardinality") =>
    RunValues(out) = Sets!Combined(Operation, RunValues(lhs), RunValues(rhs))

(***************************************************************************)
(* Between any two iterations of a kernel of run_ops.hpp: what is written  *)
(* is the result for all that is decided, maximal, in order and within the *)
(* block asked for, and the runs compared are the current ones; at the end *)
(* it is the whole answer.                                                 *)
(***************************************************************************)
KernelsAreSound ==
  /\ OutHoldsTheDecided /\ OutIsMaximal /\ RoomSuffices
  /\ ExclusiveOrInOrder /\ LoadedRunsAreCurrent /\ DoneIsTheAnswer

(***************************************************************************)
(* Every kernel of run_ops.hpp is its set operation: the pass ends, and    *)
(* with the right values and the right cardinality.                        *)
(***************************************************************************)
KernelsCombineSets == Sets!Spec
=============================================================================
