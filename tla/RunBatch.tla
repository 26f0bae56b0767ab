------------------------------ MODULE RunBatch ------------------------------
(***************************************************************************)
(* run_ref::add_sorted of container_handle.hpp: a sorted batch of values   *)
(* merged into the runs of a container.  When the runs the batch opens fit *)
(* the payload and nobody shares it, the merge happens inside it: the runs *)
(* not yet read lie `opened` places above where they were, and the result  *)
(* is written over the gap.  Otherwise it is written to another block.     *)
(*                                                                         *)
(* Both blocks are functions from places to runs, as the code has them.    *)
(***************************************************************************)
EXTENDS RunLists

CONSTANT Spare   \* bound: the most unused places of a payload

ASSUME SpareAssumption == Spare \in Nat

VARIABLES
  runs,      \* the runs the call found
  batch,     \* the batch, as its maximal groups of consecutive values
  unshared,  \* payload_is_unshared()
  own,       \* the payload of the call's container
  grown,     \* the block allocated for the result, if one is
  inPlace,   \* whether the result is written to `own`
  opened,    \* the places the unread runs are moved up by
  group,     \* the next group to merge
  merged,    \* the run the group has grown to: merged_begin, merged_end
  present,   \* already_present
  read, write, added,
  step       \* where the call is

bvars == <<runs, batch, unshared, own, grown, inPlace, opened, group, merged,
           present, read, write, added, step>>

Garbage == RunOf(0, 0)

Block(size, content) ==
  [i \in 1 .. size |-> IF i <= Len(content) THEN content[i] ELSE Garbage]

Capacity(block) == Cardinality(DOMAIN block)

BStart(A, B, spare, sole) ==
  /\ runs = RunsOf(A)
  /\ batch = RunsOf(B)
  /\ own = Block(Len(runs) + spare, runs)
  /\ unshared = sole
  /\ grown = Block(0, <<>>)
  /\ inPlace = FALSE
  /\ opened = 0 /\ group = 1 /\ merged = Garbage /\ present = 0
  /\ read = 1 /\ write = 1 /\ added = 0
  /\ step = "plan"

\* Any run container, with any payload that holds it, and any batch.
BInit == \E A \in SUBSET Low \ {{}}, B \in SUBSET Low, spare \in 0 .. Spare,
            sole \in BOOLEAN : BStart(A, B, spare, sole)

-----------------------------------------------------------------------------
\* The first run not strictly separated from the batch's first value.
FirstTouched == Reaching(runs, 1, batch[1].begin - 1)

Covers(r, g) == r.begin <= g.begin /\ g.end <= r.end

\* A group opens a run unless one run holds it all; the count stops once it
\* is known that the payload must grow and to what size.
StopAfter == IF Len(runs) + Len(batch) <= 2 * Capacity(own)
             THEN Capacity(own) - Len(runs) ELSE Len(batch)

OpenedRuns ==
  Min({StopAfter + 1,
       Cardinality({i \in DOMAIN batch :
                      ~\E j \in DOMAIN runs : Covers(runs[j], batch[i])})})

\* Every value of the batch is there already.
NothingToAdd ==
  batch # <<>> =>
    \/ /\ FirstTouched <= Len(runs)
       /\ runs[FirstTouched].begin <= batch[1].begin
       /\ Last(batch).end <= runs[FirstTouched].end
    \/ OpenedRuns = 0

ReturnNone ==
  /\ step = "plan" /\ NothingToAdd
  /\ step' = "done"
  /\ write' = Len(runs) + 1
  /\ UNCHANGED <<runs, batch, unshared, own, grown, inPlace, opened, group,
                 merged, present, read, added>>

Fits == Len(runs) + OpenedRuns <= Capacity(own)

\* A slip: only doubles.
GrownCapacityDoubled == IF Fits THEN Capacity(own) ELSE 2 * Capacity(own)

\* The size of the other block: that of the payload when the result fits it
\* (allocate_replacement_payload), else at least double (allocate_grown_payload).
GrownCapacity ==
  IF Fits THEN Capacity(own)
  ELSE Max({2 * Capacity(own),
            Len(runs) + IF OpenedRuns > StopAfter THEN Len(batch) ELSE OpenedRuns})

MergesInPlace == Fits /\ unshared

Plan ==
  /\ step = "plan" /\ ~NothingToAdd
  /\ opened' = OpenedRuns
  /\ inPlace' = MergesInPlace
  /\ IF inPlace'
     THEN /\ own' = [i \in DOMAIN own |->
                       IF i \in FirstTouched + opened' .. Len(runs) + opened'
                       THEN own[i - opened'] ELSE own[i]]
          /\ UNCHANGED grown
     ELSE /\ grown' = Block(GrownCapacity, SubSeq(runs, 1, FirstTouched - 1))
          /\ UNCHANGED own
  /\ read' = FirstTouched
  /\ write' = FirstTouched
  /\ step' = "move"
  /\ UNCHANGED <<runs, batch, unshared, group, merged, present, added>>

-----------------------------------------------------------------------------
\* `data`, `source` and writing to data.
Data == IF inPlace THEN own ELSE grown
Source(i) == own[IF inPlace THEN i + opened ELSE i]

Unread == read <= Len(runs)

Store(block) ==
  IF inPlace THEN own' = block /\ UNCHANGED grown
             ELSE grown' = block /\ UNCHANGED own

\* memmove of the runs from `read` up to `stop` to `write`; a place beyond the
\* block is dropped, and ResultFitsBlock says there is none.
MovedUpTo(stop) ==
  [i \in DOMAIN Data |->
     IF i \in write .. write + stop - read - 1
     THEN Source(read + i - write) ELSE Data[i]]

\* The runs strictly before the group move as one block; the search for them
\* reads `source`.
BlockEnd(g) ==
  Min({i \in read .. Len(runs) : Source(i).end + 1 >= g.begin} \cup {Len(runs) + 1})

MoveBlock ==
  /\ step = "move" /\ group <= Len(batch)
  /\ LET stop == BlockEnd(batch[group]) IN
     /\ Store(MovedUpTo(stop))
     /\ write' = write + stop - read
     /\ read' = stop
  /\ merged' = batch[group]
  /\ present' = 0
  /\ step' = "previous"
  /\ UNCHANGED <<runs, batch, unshared, inPlace, opened, group, added>>

Overlap(r, s) ==
  Max({0, Min({r.end, s.end}) - Max({r.begin, s.begin}) + 1})

\* A slip: what the runs held already is not counted.
AbsorbUncounted(r) ==
  /\ UNCHANGED present
  /\ merged' = RunOf(Min({merged.begin, r.begin}), Max({merged.end, r.end}))

Absorb(r) ==
  /\ present' = present + Overlap(batch[group], r)
  /\ merged' = RunOf(Min({merged.begin, r.begin}), Max({merged.end, r.end}))

\* The last run written may already reach the group.
AbsorbPrevious ==
  /\ step = "previous"
  /\ IF write # 1 /\ Data[write - 1].end + 1 >= batch[group].begin
     THEN Absorb(Data[write - 1]) /\ write' = write - 1
     ELSE UNCHANGED <<present, merged, write>>
  /\ step' = "absorb"
  /\ UNCHANGED <<runs, batch, unshared, own, grown, inPlace, opened, group,
                 read, added>>

Touches == Unread /\ Source(read).begin <= merged.end + 1

AbsorbNext ==
  /\ step = "absorb" /\ Touches
  /\ Absorb(Source(read))
  /\ read' = read + 1
  /\ UNCHANGED <<runs, batch, unshared, own, grown, inPlace, opened, group,
                 write, added, step>>

PutMerged ==
  /\ step = "absorb" /\ ~Touches
  /\ added' = added + batch[group].end - batch[group].begin + 1 - present
  /\ Store([i \in DOMAIN Data |-> IF i = write THEN merged ELSE Data[i]])
  /\ write' = write + 1
  /\ group' = group + 1
  /\ step' = "move"
  /\ UNCHANGED <<runs, batch, unshared, inPlace, opened, merged, present, read>>

\* The runs after the last group, then the header.
MoveRest ==
  /\ step = "move" /\ group > Len(batch)
  /\ Store(MovedUpTo(Len(runs) + 1))
  /\ write' = write + Len(runs) + 1 - read
  /\ read' = Len(runs) + 1
  /\ step' = "done"
  /\ UNCHANGED <<runs, batch, unshared, inPlace, opened, group, merged, present,
                 added>>

BNext == \/ ReturnNone \/ Plan \/ MoveBlock \/ AbsorbPrevious \/ AbsorbNext
         \/ PutMerged \/ MoveRest

BSpec == BInit /\ [][BNext]_bvars /\ WF_bvars(BNext)

-----------------------------------------------------------------------------
(***************************************************************************)
(* What the in-place merge must keep, and the union it is.                 *)
(***************************************************************************)
BTypeOK ==
  /\ runs \in Seq(Run) /\ batch \in Seq(Run)
  /\ unshared \in BOOLEAN /\ inPlace \in BOOLEAN
  /\ own \in [DOMAIN own -> Run] /\ grown \in [DOMAIN grown -> Run]
  /\ opened \in 0 .. Len(batch)
  /\ group \in 1 .. Len(batch) + 1
  /\ merged \in Run
  /\ read \in 1 .. Len(runs) + 1
  /\ {write, present, added} \subseteq Nat
  /\ step \in {"plan", "move", "previous", "absorb", "done"}

(***************************************************************************)
(* The merge reads behind the place it writes to: no run that is still to  *)
(* be read has been overwritten.  It holds only if the count of runs the   *)
(* batch opens, made by another pass, is never too small.                  *)
(***************************************************************************)
UnreadRunsIntact ==
  step \in {"move", "previous", "absorb"} =>
    \A i \in read .. Len(runs) : Source(i) = runs[i]

(***************************************************************************)
(* Nothing is written or read past the block, whether the result fitted    *)
(* the payload, replaced it or was given the grown size, also when the     *)
(* count of opened runs stopped early.                                     *)
(***************************************************************************)
ResultFitsBlock ==
  step # "plan" => /\ write - 1 <= Capacity(IF opened = 0 THEN own ELSE Data)
                   /\ inPlace => Len(runs) + opened <= Capacity(own)

(***************************************************************************)
(* A payload shared with a copy, or borrowed, is only read: it stays as    *)
(* the call found it, and so does one the batch adds nothing to.           *)
(***************************************************************************)
SharedPayloadUntouched ==
  (~unshared \/ (added = 0 /\ step = "done")) =>
    \A i \in DOMAIN runs : own[i] = runs[i]

Result == LET block == IF opened = 0 THEN own ELSE Data
          IN  [i \in 1 .. write - 1 |-> block[i]]

(***************************************************************************)
(* The runs left behind are maximal, whatever groups joined them.          *)
(***************************************************************************)
BatchLeavesMaximalRuns == step = "done" => Maximal(Result)

BatchUnion == INSTANCE SetCombination WITH
  op     <- "union",
  left   <- RunValues(runs),
  right  <- RunValues(batch),
  answer <- IF step = "done"
            THEN {[values      |-> RunValues(Result),
                   cardinality |-> TotalLength(runs) + added]} ELSE {}

(***************************************************************************)
(* add_sorted ends with the union of the runs and the batch, and the count *)
(* it returns, by which the container's cardinality is adjusted, is the    *)
(* number of values that were new.                                         *)
(***************************************************************************)
BatchIsUnion == BatchUnion!Spec
=============================================================================
