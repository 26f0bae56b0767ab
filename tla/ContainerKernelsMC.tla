------------------------- MODULE ContainerKernelsMC -------------------------
(***************************************************************************)
(* The loops that work on one container's values, checked together: the    *)
(* kernels over two arrays, the passes over one, the kernels over words,   *)
(* the choice of a form for one container or a pair, and the searches they *)
(* all rest on.  A behaviour runs one of them on any operands; the others  *)
(* stay at their smallest call.                                            *)
(***************************************************************************)
EXTENDS ArrayKernels, ArrayPasses, BitsetKernels, ContainerPairs

CONSTANT Longest   \* the longest list searched

\* Words empty, full and in between; runs that share a word, and a run that
\* covers whole words between its ends.
WordPatterns  == {{}, {1}, {0, 3}, 0 .. 3}
RunBlocks     == {{0}, {1}, {3}, 4 .. 7, {8}, {10, 11}}
ValuesPerWord == <<1, 2, 3, 4>>

\* Sets on and across the two words, sparse and dense.
PartnerSets   == {{0}, {2, 3, 4}, {3, 4, 5, 6, 7}, {0, 2, 4, 6}, 0 .. 7}

VARIABLES
  family,   \* what this behaviour runs
  query,    \* a search: its kind, its list, where it starts and what it looks for
  answer    \* <<>> before the search, then what it found

svars   == <<query, answer>>
allvars == <<avars, pvars, bvars, fvars, svars, family>>

Searched == {"gallop", "gallop above", "run reaching", "run holds", "array holds",
             "lower bound", "find"}

\* Every second value, so that a limit falls on and between the elements.
List(n)     == [m \in 1 .. n |-> 2 * m]
BeginsOf(n) == [m \in 1 .. n |-> 3 * m]
EndsOf(n)   == [m \in 1 .. n |-> 3 * m + 1]

QInit == \E kind \in Searched, n \in 0 .. Longest, from \in 0 .. Longest,
            limit \in 0 .. 3 * Longest + 2, vectors, match \in BOOLEAN :
  /\ from <= n /\ limit <= 3 * n + 2
  /\ kind \in {"gallop", "gallop above", "lower bound", "run reaching"} \/ from = 0
  /\ kind = "find" \/ ~vectors
  /\ vectors \/ ~match
  /\ query = [kind |-> kind, n |-> n, from |-> from, limit |-> limit,
              vectors |-> vectors, match |-> match]
  /\ answer = <<>>

\* Runs and a bitset of five words, for the scan of runs minus a bitset: its
\* stretches lie between a run's first word and its last.
LongRuns == {<<RunOf(0, 19)>>, <<RunOf(1, 18)>>, <<RunOf(2, 13), RunOf(15, 19)>>,
             <<RunOf(0, 1), RunOf(3, 4), RunOf(6, 16)>>, <<RunOf(5, 6), RunOf(12, 15)>>}

LInit == \E rs \in LongRuns, words \in [0 .. 4 -> WordPatterns], limit \in {2, 10} :
  /\ query = [kind |-> "left", runs |-> rs, words |-> words, limit |-> limit]
  /\ answer = <<>>

YesNo(condition) == IF condition THEN 1 ELSE 0

Search ==
  /\ answer = <<>> /\ query.kind # "left"
  /\ answer' = LET q == query IN
       <<CASE q.kind \in {"gallop", "gallop above"} ->
                GallopForward(List(q.n), q.from, q.n, q.limit, q.kind = "gallop above")
           [] q.kind = "run reaching" -> RunReaching(EndsOf(q.n), q.from, q.n, q.limit)
           [] q.kind = "run holds"    -> YesNo(RunContains(BeginsOf(q.n), EndsOf(q.n), q.limit))
           [] q.kind = "array holds"  -> YesNo(SortedArrayContains(List(q.n), q.limit))
           [] q.kind = "lower bound"  -> ChunkLowerBoundFrom(List(q.n), q.limit, q.from)
           [] q.kind = "find"         -> ChunkFind(List(q.n), q.limit, q.vectors, q.match)>>
  /\ UNCHANGED query

\* difference_run_bitset: the scan counted, then written in both ways.
Subtract ==
  /\ answer = <<>> /\ query.kind = "left"
  /\ answer' = LET calls == Scan(query.runs, query.words)
               IN <<Counted(calls, query.limit), WrittenRuns(calls), WrittenValues(calls)>>
  /\ UNCHANGED query

-----------------------------------------------------------------------------
AIdle == Start({}, {}, "count", "into", "plain")
PIdle == PStart({}, {}, "count", TRUE, FALSE)
BIdle == BStart("combine", Empty, <<>>, Empty, "or", FALSE, 0, Empty)
FIdle == FStart({}, "array", TRUE)
QIdle == query = [kind |-> "none"] /\ answer = <<>>

Init ==
  \/ family = "arrays"   /\ AInit /\ PIdle /\ BIdle /\ FIdle /\ QIdle
  \/ family = "passes"   /\ AIdle /\ PInit /\ BIdle /\ FIdle /\ QIdle
  \/ family = "words"    /\ AIdle /\ PIdle /\ BInit /\ FIdle /\ QIdle
  \/ family = "forms"    /\ AIdle /\ PIdle /\ BIdle /\ FInit /\ QIdle
  \/ family = "searches" /\ AIdle /\ PIdle /\ BIdle /\ FIdle /\ (QInit \/ LInit)

Next ==
  \/ family = "arrays"   /\ ANext  /\ UNCHANGED <<pvars, bvars, fvars, svars, family>>
  \/ family = "passes"   /\ PNext  /\ UNCHANGED <<avars, bvars, fvars, svars, family>>
  \/ family = "words"    /\ BNext  /\ UNCHANGED <<avars, pvars, fvars, svars, family>>
  \/ family = "forms"    /\ PairNext /\ UNCHANGED <<avars, pvars, bvars, svars, family>>
  \/ family = "searches" /\ (Search \/ Subtract) /\ UNCHANGED <<avars, pvars, bvars, fvars, family>>

Spec == Init /\ [][Next]_allvars

-----------------------------------------------------------------------------
(***************************************************************************)
(* What the array kernels and passes return.                               *)
(***************************************************************************)
Combined(A, B) ==
  CASE op = "or"     -> A \cup B
    [] op \in {"and", "count"} -> A \cap B
    [] op = "andnot" -> A \ B
    [] op = "xor"    -> SymDiff(A, B)

KernelsAgree ==
  at = "done" =>
    IF op = "count" THEN k = Cardinality(Combined(ToSet(a), ToSet(b)))
    ELSE [n \in 1 .. k |-> memory[n]] = Sorted(Combined(ToSet(a), ToSet(b)))

Left ==
  LET A == ToSet(values)
      B == others \cup RunValues(runs)
  IN CASE pass = "add"    -> A \cup B
       [] pass = "remove" -> A \ B
       [] pass = "count"  -> A \cap B
       [] OTHER           -> IF keep THEN A \cap B ELSE A \ B

PassesAgree ==
  stage = "done" =>
    IF pass = "count" THEN write = Cardinality(Left)
    ELSE [n \in 1 .. write |-> cells[n]] = Sorted(Left)

\* The counter and the writers read the same scan of the runs minus the words.
SurvivorsAgree ==
  (query.kind = "left" /\ answer # <<>>) =>
    LET S == RunValues(query.runs) \ ValuesIn(query.words)
    IN /\ answer[2] = RunsOf(S) /\ answer[3] = Sorted(S)
       /\ IF Len(RunsOf(S)) > query.limit THEN answer[1].gaveUp
          ELSE /\ ~answer[1].gaveUp
               /\ answer[1].runs = Len(RunsOf(S)) /\ answer[1].cardinality = Cardinality(S)

(***************************************************************************)
(* Whichever kernel, pass, fill, decoder or form the sizes and the         *)
(* processor select (array_ops.hpp, bitset_ops.hpp, containers.hpp), the   *)
(* result holds the values of the set operation, each once and in order,   *)
(* and its header their exact number: what contains(), the merges and the  *)
(* choice of a form all assume of a container.                             *)
(***************************************************************************)
ResultsAreTheSets ==
  /\ KernelsAgree /\ PassesAgree /\ WordsAgree /\ SurvivorsAgree
  /\ family = "forms" => FormsAgree /\ QuestionsAgree

(***************************************************************************)
(* No store leaves what was allocated for the result, the lanes past the   *)
(* values that count included: min + 8, sa + 8 or sa + sb + 32 slots for   *)
(* the array kernels, an exactly sized buffer for the decoders that stop   *)
(* their vectors short of its end, the runs counted up to a cap for a run  *)
(* container.                                                              *)
(***************************************************************************)
StoresFit ==
  /\ stored \subseteq DOMAIN memory
  /\ wrote \subseteq DOMAIN cells
  /\ touched \subseteq DOMAIN slots
  /\ RoomIsEnough

-----------------------------------------------------------------------------
\* The values of the left array that are still to be read from memory.
Unread ==
  CASE at = "done"      -> {}
    [] at = "backwards" -> 1 .. i
    [] at = "probe" /\ right = "a" /\ held # <<>> -> j + Head(held).place + 1 .. Len(a)
    [] left = "a"       -> i + 1 .. Len(a)
    [] right = "a"      -> j + 1 .. Len(a)
    [] OTHER            -> {}

StillRead ==
  CASE ~here \/ stage = "done" -> {}
    [] pass = "add" -> 1 .. read
    [] OTHER        -> read + 1 .. Card

(***************************************************************************)
(* What works in place never overwrites a value of its own array that it   *)
(* has still to read: the write cursor stays behind the read cursor by the *)
(* width of a store (the flush after a block is passed, the block held     *)
(* back by the forward union, the gap of the backward merges of the union  *)
(* and of add_sorted, the survivors of the filters and of remove_sorted).  *)
(***************************************************************************)
UnreadIntact ==
  /\ inPlace => \A n \in Unread : memory[shift + n] = a[n]
  /\ \A n \in StillRead : cells[n] = values[n]

(***************************************************************************)
(* No store of a kernel goes astray: every one falls in what was allocated *)
(* for the result, and none on a value the loop has still to read.         *)
(***************************************************************************)
StoresAreSafe == StoresFit /\ UnreadIntact

-----------------------------------------------------------------------------
(***************************************************************************)
(* The form a container is left in is the one the code promises for the    *)
(* call: the smallest for optimize(), though runs are counted up to a cap; *)
(* the reference's for an exclusive-or; and the smallest for runs that only*)
(* lost values, which remove_many does not optimize.                       *)
(***************************************************************************)
FormsAsPromised == OptimizeSettles /\ XorLandsInForm /\ RunsLeftAreSmallest

-----------------------------------------------------------------------------
Plainly ==
  LET q == query
      list == IF q.kind = "run reaching" THEN EndsOf(q.n) ELSE List(q.n)
      from == FirstNotBelow(list, q.from, q.n, q.limit)
  IN CASE q.kind = "gallop above" -> FirstAbove(list, q.from, q.n, q.limit)
       [] q.kind = "run holds"    ->
            YesNo(\E m \in 1 .. q.n : q.limit \in BeginsOf(q.n)[m] .. EndsOf(q.n)[m])
       [] q.kind = "array holds"  -> YesNo(\E m \in 1 .. q.n : list[m] = q.limit)
       [] q.kind = "find"         -> IF from < q.n /\ At(list, from) = q.limit THEN from ELSE q.n
       [] OTHER                   -> from

(***************************************************************************)
(* Every search (the gallops whose step doubles past the end of the list,  *)
(* the strides over runs, the quarters and halves of sorted_array_contains,*)
(* the chunk table's shortcut, window and halving) answers what the plain  *)
(* definition does, for lists of every length around its block sizes and   *)
(* a key before, on, between and behind their elements.                    *)
(***************************************************************************)
SearchesFindTheFirst ==
  (family = "searches" /\ query.kind # "left" /\ answer # <<>>) => answer = <<Plainly>>
=============================================================================
