--------------------------- MODULE ContainerPairs ---------------------------
(***************************************************************************)
(* Two containers combined (container_ops.hpp): which kernel a pair of     *)
(* forms takes and the form of what it returns; a sorted batch removed;    *)
(* and the questions asked of a pair.  The merges of two arrays, an array  *)
(* and runs, or two run lists stand for the set they return (ArrayKernels, *)
(* ArrayPasses and RunKernels step through them); the words and the runs   *)
(* minus a bitset, which are counted before they are built, are worked out.*)
(***************************************************************************)
EXTENDS ContainerForms, Searches

CONSTANTS
  FewValues,   \* few_values, the values that are exclusive-ored into runs, 32
  Partners     \* the sets a container is combined with

ASSUME PairAssumption == FewValues \in Nat /\ Partners \subseteq SUBSET Low

-----------------------------------------------------------------------------
(***************************************************************************)
(* Runs minus a bitset: the bits left are scanned as words and stretches of*)
(* whole words.  A word two runs share is reported once.                   *)
(***************************************************************************)
Found(word, bits, shared) == [first |-> word, count |-> 1, bits |-> bits, shared |-> shared]
Stretch(word, n)          == [first |-> word, count |-> n, bits |-> Bit, shared |-> FALSE]

\* The words between a run's first and last.
Between(first, last, bits) ==
  LET end(w) == Min({x \in w .. last : x = last \/ bits[x] # {}})
      starts == Sorted({w \in first + 1 .. last - 1 :
                          bits[w] # Bit /\ (bits[w] = {} => w = first + 1 \/ bits[w - 1] # {})})
  IN [n \in DOMAIN starts |->
        IF bits[starts[n]] = {} THEN Stretch(starts[n], end(starts[n]) - starts[n])
        ELSE Found(starts[n], Bit \ bits[starts[n]], FALSE)]

LeftOf(run, bits) ==
  LET first == WordOf(run.begin)
      last  == WordOf(run.end)
      left(w) == Found(w, InWord(run.begin, run.end, w) \ bits[w], TRUE)
  IN IF first = last THEN <<left(first)>>
     ELSE <<left(first)>> \o Between(first, last, bits) \o <<left(last)>>

\* scan_run_bitset_difference.
Scan(rs, bits) ==
  LET put(calls, call) ==
        IF call.shared /\ calls # <<>> /\ Last(calls).shared /\ Last(calls).first = call.first
        THEN Append(Front(calls), [Last(calls) EXCEPT !.bits = @ \cup call.bits])
        ELSE Append(calls, call)
  IN FoldLeft(put, <<>>, FlattenSeq([n \in DOMAIN rs |-> LeftOf(rs[n], bits)]))

\* run_survivor_counter: a bit starts a run unless the one before it, which may
\* be the top of the word before, is left too.  It gives up past `limit` runs.
Counted(calls, limit) ==
  LET count(s, call) ==
        LET carry  == s.top /\ call.first = s.last + 1
            starts == {b \in call.bits : b - 1 \notin call.bits /\ ~(b = 0 /\ carry)}
            runs   == s.runs + Cardinality(starts)
        IN IF s.gaveUp THEN s
           ELSE [runs |-> runs, cardinality |-> s.cardinality + call.count * Cardinality(call.bits),
                 last |-> call.first + call.count - 1, top |-> WordBits - 1 \in call.bits,
                 gaveUp |-> runs > limit]
  IN FoldLeft(count, [runs |-> 0, cardinality |-> 0, last |-> -1, top |-> FALSE, gaveUp |-> FALSE],
              calls)

\* run_survivor_writer: a run that reaches the top of a word is left open and
\* closed where the next word does not go on with it.
WrittenRuns(calls) ==
  LET close(s, end) == [s EXCEPT !.out = Append(@, RunOf(s.begin, end)), !.open = FALSE]
      top(w)        == w * WordBits + WordBits - 1
      write(s, call) ==
        LET base == call.first * WordBits
            t    == IF s.open /\ call.first # s.last + 1 THEN close(s, top(s.last)) ELSE s
            lead == Min({b \in 0 .. WordBits : b \notin call.bits})
            u    == IF t.open /\ lead < WordBits THEN close(t, base + lead - 1) ELSE t
            rest == IF t.open THEN {b \in call.bits : b >= lead} ELSE call.bits
            runs == RunsOf({base + b : b \in rest})
            last == call.first + call.count - 1
        IN IF rest = {} THEN [u EXCEPT !.last = last]
           ELSE IF WordBits - 1 \in rest
           THEN [out |-> u.out \o Front(runs), open |-> TRUE, begin |-> Last(runs).begin, last |-> last]
           ELSE [u EXCEPT !.out = @ \o runs, !.last = last]
      done == FoldLeft(write, [out |-> <<>>, open |-> FALSE, begin |-> 0, last |-> -1], calls)
  IN IF done.open THEN close(done, top(done.last)).out ELSE done.out

\* array_survivor_writer.
WrittenValues(calls) ==
  FlattenSeq([n \in DOMAIN calls |->
    Sorted(UNION {{w * WordBits + b : b \in calls[n].bits} :
                    w \in calls[n].first .. calls[n].first + calls[n].count - 1})])

\* A payload made for `room` runs keeps what it held where none is written.
InRoom(rs, room) == [n \in 1 .. room |-> IF n <= Len(rs) THEN rs[n] ELSE RunOf(0, 0)]

\* difference_run_bitset.
RunsMinusWords(rs, bits, limit) ==
  LET calls == Scan(rs, bits)
      told  == Counted(calls, BitsetBytes \div RunBytes)
      kind  == IF told.gaveUp THEN "bitset" ELSE ChooseRunKind(told.cardinality, told.runs, limit)
      words == [w \in WordIndex |->
                  UNION {InWord(rs[n].begin, rs[n].end, w) \ bits[w] : n \in DOMAIN rs}]
      n     == IF told.gaveUp THEN PopCount(words) ELSE told.cardinality
  IN CASE n = 0 -> Plain(NoValues)
       [] n > 0 /\ kind = "array" -> Plain(AsArray(WrittenValues(calls)))
       [] n > 0 /\ kind = "run" ->
            [handle |-> AsRuns(InRoom(WrittenRuns(calls), told.runs)),
             room |-> told.runs, filled |-> Len(WrittenRuns(calls))]
       [] n > 0 /\ kind = "bitset" ->
            IF IsBitsetSize(n, limit) THEN Plain(Handle("bitset", words, n))
            ELSE Plain(AsArray(Sorted(ValuesIn(words))))

-----------------------------------------------------------------------------
(***************************************************************************)
(* A pair combined.                                                        *)
(***************************************************************************)
SetOf(op, A, B) ==
  CASE op = "or" -> A \cup B [] op = "and" -> A \cap B
    [] op = "andnot" -> A \ B [] op = "xor" -> SymDiff(A, B)

\* make_bitset_container_from_words: a bitset of any size but none.
WordsOrNone(words) == IF PopCount(words) = 0 THEN NoValues ELSE AsWords(words)

\* combine_run_bitset_words.
RunWords(rs, bits, op) ==
  IF op = "or"
  THEN FoldLeft(LAMBDA words, r : RangeInWords(words, r.begin, r.end, "add"), bits, rs)
  ELSE [w \in WordIndex |-> UNION {InWord(rs[n].begin, rs[n].end, w) \cap bits[w] : n \in DOMAIN rs}]

\* combine_bitset_array_words.
ArrayWords(bits, s, op) ==
  FoldLeft(LAMBDA words, v : [words EXCEPT ![WordOf(v)] =
                                IF op = "or" THEN @ \cup {BitOf(v)} ELSE @ \ {BitOf(v)}],
           bits, s)

\* difference_run_values: a value splits one run in two, and runs that do not
\* touch are at most half the domain.
RunsMinusValues(rs, s, limit) ==
  LET left == RunsOf(RunValues(rs) \ ToSet(s))
  IN [handle |-> FromRuns(left, limit), filled |-> Len(left),
      room |-> Least(Len(rs) + Len(s), (LastLow + 1) \div 2)]

\* combine_containers.
CombineContainers(c, d, op, limit) ==
  LET S      == SetOf(op, Holds(c), Holds(d))
      kinds  == {c.kind, d.kind}
      values == Plain(FromValues(Sorted(S), limit))
      runs   == Plain(FromRuns(RunsOf(S), limit))
      of(kind) == IF c.kind = kind THEN c.data ELSE d.data
  IN CASE kinds = {"array"} -> values
       [] kinds = {"array", "run"} ->
            (CASE op = "or" -> runs
               [] op = "andnot" /\ c.kind = "run" -> RunsMinusValues(c.data, d.data, limit)
               [] OTHER -> values)
       [] kinds = {"array", "bitset"} ->
            IF op = "or" \/ (op = "andnot" /\ c.kind = "bitset")
            THEN Plain(WordsOrNone(ArrayWords(of("bitset"), of("array"), op)))
            ELSE values
       [] kinds = {"run", "bitset"} ->
            (CASE op # "andnot" -> Plain(WordsOrNone(RunWords(of("run"), of("bitset"), op)))
               [] op = "andnot" /\ c.kind = "run" -> RunsMinusWords(c.data, d.data, limit)
               [] op = "andnot" /\ c.kind = "bitset" ->
                    Plain(WordsOrNone(FoldLeft(
                      LAMBDA words, r : RangeInWords(words, r.begin, r.end, "remove"), c.data, d.data))))
       [] kinds = {"bitset"} -> Plain(WordsOrNone(WordsOf(S)))
       [] kinds = {"run"} -> IF op # "andnot" THEN runs
                             ELSE [runs EXCEPT !.room = Len(c.data) + Len(d.data),
                                               !.filled = Len(RunsOf(S))]

\* settle_xor_bitset, and xor_into_run_result through settle_run_result.
SettledWords(S, limit) ==
  IF Cardinality(S) <= limit THEN AsArray(Sorted(S)) ELSE AsWords(WordsOf(S))

SettledRuns(S, room, limit) ==
  [handle |-> FromRuns(RunsOf(S), limit + 1), room |-> room, filled |-> Len(RunsOf(S))]

\* xor_containers; `limit` is the largest cardinality an array may have here.
XorContainers(c, d, limit) ==
  LET S     == SetOf("xor", Holds(c), Holds(d))
      kinds == {c.kind, d.kind}
      array == IF c.kind = "array" THEN c ELSE d
      runs  == IF c.kind = "run" THEN c ELSE d
      ofArrays(m, n) == IF m + n <= limit THEN AsArray(Sorted(S)) ELSE SettledWords(S, limit)
  IN CASE c.cardinality = 0 -> Plain(d)
       [] c.cardinality > 0 /\ d.cardinality = 0 -> Plain(c)
       [] c.cardinality > 0 /\ d.cardinality > 0 ->
            (CASE kinds = {"array"} -> Plain(ofArrays(c.cardinality, d.cardinality))
               [] kinds = {"run"}   -> SettledRuns(S, Len(c.data) + Len(d.data), limit)
               [] kinds = {"array", "run"} ->
                    IF array.cardinality < FewValues
                    THEN SettledRuns(S, array.cardinality + Len(runs.data), limit)
                    ELSE IF runs.cardinality <= limit
                    THEN Plain(ofArrays(runs.cardinality, array.cardinality))
                    ELSE Plain(SettledWords(S, limit))
               [] "bitset" \in kinds -> Plain(SettledWords(S, limit)))

CombineWith ==
  \E B \in Partners, form \in {"array", "bitset", "run"}, op \in {"or", "and", "andnot", "xor"} :
    /\ B # {} /\ members # {}
    /\ LET d == InForm(B, form) IN
       /\ Becomes(IF op = "xor" THEN XorContainers(container, d, ArrayLimit)
                  ELSE CombineContainers(container, d, op, ArrayLimit))
       /\ lately' = (CASE op # "xor" -> "change"
                       [] op = "xor" /\ "run" \in {container.kind, form} -> "xor of runs"
                       [] OTHER -> "xor")
    /\ members' = SetOf(op, members, B)

\* remove_many_sorted: container_remove_sorted, then an emptied container is
\* dropped and one that is not of runs is put in its smallest form.
RemoveSorted ==
  \E B \in Partners :
    LET left  == members \ B
        holds == container.data
        away  == \A v \in B : v < holds[1].begin \/ v > holds[Len(holds)].end
        runs  == RunsMinusValues(holds, Sorted(B), ArrayLimit)
        small == IF runs.handle.kind = "run" THEN runs
                 ELSE [runs EXCEPT !.handle = OptimizeForStorage(runs.handle, ArrayLimit).handle]
    IN /\ B # {} /\ members # {}
       /\ Becomes(CASE container.kind = "run" /\ away  -> Plain(container)
                    [] container.kind = "run" /\ ~away ->
                         IF left = {} THEN Plain(NoValues) ELSE small
                    [] container.kind # "run" ->
                         IF left = {} THEN Plain(NoValues)
                         ELSE OptimizeForStorage(InForm(left, container.kind), ArrayLimit))
       /\ lately' = IF container.kind = "run" /\ ~away THEN "removed" ELSE "change"
       /\ members' = left

PairNext == FNext \/ CombineWith \/ RemoveSorted

-----------------------------------------------------------------------------
(***************************************************************************)
(* Questions.                                                              *)
(***************************************************************************)
\* container_contains.
HoldsValue(c, v) ==
  CASE c.kind = "array"  -> SortedArrayContains(c.data, v)
    [] c.kind = "bitset" -> BitOf(v) \in c.data[WordOf(v)]
    [] c.kind = "run"    -> RunContains([n \in DOMAIN c.data |-> c.data[n].begin],
                                        [n \in DOMAIN c.data |-> c.data[n].end], v)

\* bits_in_range of container_intersect_cardinality.
BitsInRange(words, r) ==
  FoldLeft(LAMBDA n, w : n + Cardinality(words[w] \cap InWord(r.begin, r.end, w)), 0,
           Sorted(WordOf(r.begin) .. WordOf(r.end)))

\* container_intersects.
Intersects(c, d) ==
  LET kinds == {c.kind, d.kind}
      runs  == IF c.kind = "run" THEN c.data ELSE d.data
      words == IF c.kind = "bitset" THEN c.data ELSE d.data
  IN CASE c.kind = "array" -> \E n \in DOMAIN c.data : HoldsValue(d, c.data[n])
       [] c.kind # "array" /\ d.kind = "array" -> \E n \in DOMAIN d.data : HoldsValue(c, d.data[n])
       [] kinds = {"run"} -> \E m \in DOMAIN c.data, n \in DOMAIN d.data :
                               c.data[m].end >= d.data[n].begin /\ d.data[n].end >= c.data[m].begin
       [] kinds = {"run", "bitset"} -> \E n \in DOMAIN runs : BitsInRange(words, runs[n]) > 0
       [] kinds = {"bitset"} -> \E w \in WordIndex : c.data[w] \cap d.data[w] # {}

\* container_intersect_cardinality of a pair with a bitset.
Common(c, d) ==
  LET words == IF c.kind = "bitset" THEN c.data ELSE d.data
      other == IF c.kind = "bitset" THEN d ELSE c
  IN CASE other.kind = "array" -> Len(SelectSeq(other.data, LAMBDA v : BitOf(v) \in words[WordOf(v)]))
       [] other.kind = "run" -> FoldLeft(LAMBDA n, r : n + BitsInRange(words, r), 0, other.data)
       [] other.kind = "bitset" -> PopCount([w \in WordIndex |-> words[w] \cap other.data[w]])

\* container_decode_into.
Decoded(c) ==
  CASE c.kind = "array"  -> c.data
    [] c.kind = "run"    -> FlattenSeq([n \in DOMAIN c.data |->
                              [m \in 1 .. c.data[n].end - c.data[n].begin + 1 |-> c.data[n].begin + m - 1]])
    [] c.kind = "bitset" -> FlattenSeq([n \in 1 .. Cardinality(WordIndex) |->
                              [m \in 1 .. Cardinality(c.data[n - 1]) |->
                                 (n - 1) * WordBits + Sorted(c.data[n - 1])[m]]])

\* The questions answer for the values, whatever form either side is in, and the
\* decoded values are as many as the header says.
QuestionsAgree ==
  /\ Decoded(container) = Sorted(members) /\ Len(Decoded(container)) = container.cardinality
  /\ \A B \in Partners, form \in {"array", "bitset", "run"} :
       LET d == InForm(B, form) IN
       /\ Intersects(container, d) <=> members \cap B # {}
       /\ "bitset" \in {container.kind, form} => Common(container, d) = Cardinality(members \cap B)

\* "An array when it holds no more values than array_limit, a bitset above, and
\* runs only where an operand was run-encoded and they are the smallest of the
\* three" (container_ops.hpp).
XorLandsInForm ==
  (lately \in {"xor", "xor of runs"} /\ members # {}) =>
    \/ container.kind = IF Cardinality(members) <= ArrayLimit THEN "array" ELSE "bitset"
    \/ /\ container.kind = "run" /\ lately = "xor of runs"
       /\ \A kind \in {"array", "bitset"} : RunSize(Len(RunsOf(members))) <= Bytes(kind, members)

\* "A run slot that only lost values already has the smallest form, whichever
\* the policy" (remove_many_sorted).
RunsLeftAreSmallest ==
  (lately = "removed" /\ container.kind = "run") =>
    \A kind \in {"array"} \cup (IF Cardinality(members) >= ArrayLimit THEN {"bitset"} ELSE {}) :
      Bytes("run", members) <= Bytes(kind, members)
=============================================================================
