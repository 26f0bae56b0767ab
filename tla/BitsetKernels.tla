--------------------------- MODULE BitsetKernels ---------------------------
(***************************************************************************)
(* The kernels of bitset_ops.hpp: the decoders that write the set bits of  *)
(* words out as values, the fills that intersect runs with a bitset, and   *)
(* the in-place combinations that keep the header's cardinality exact.     *)
(* One step is one word or group of words, one run, or one value.          *)
(*                                                                         *)
(* A result bitset is a retired payload: its words hold whatever its last  *)
(* user left, and a fill has to write every one of them.                   *)
(***************************************************************************)
EXTENDS BitsetWords

CONSTANTS
  ByteBits,       \* the bits of a byte, the lanes a byte's vector stores: 8
  GroupWords,     \* the words the branchless decoder reads at once, 4
  PerWord,        \* the values it writes for each by rising density, <<1, 2, 4, 8>>
  ManyRuns,       \* the runs from which a fill zeroes first, 32
  DecodedWords,   \* how many words are decoded
  FilledWords,    \* the words of the bitsets that are filled and combined
  RunPieces,      \* sets of values whose unions are the runs intersected
  Patterns        \* what a word of an operand may hold

ASSUME KernelAssumption ==
  /\ {ByteBits, GroupWords, ManyRuns, DecodedWords, FilledWords} \subseteq Nat \ {0}
  /\ Patterns \subseteq SUBSET Bit
  /\ \A block \in RunPieces : block \subseteq 0 .. FilledWords * WordBits - 1
  /\ Len(PerWord) = 4 /\ \A n \in 1 .. 4 : PerWord[n] <= WordBits

VARIABLES
  task,        \* which kernel, see below
  source,      \* the words of the bitset
  ranges,      \* a fill: the runs; "clear": the values removed
  other,       \* a combination: the words of the right side
  operation,   \* and the set operation
  stale,       \* whether the header's cardinality was stale on entry
  dest,        \* the words of the result
  slots,       \* the places of a result that is an array
  upto,        \* words, runs or values taken
  fresh,       \* a fill's first word not written, or first value not decided
  count,       \* values written, or the cardinality counted so far
  touched,     \* the places the last step stored to
  phase        \* where the kernel is

bvars == <<task, source, ranges, other, operation, stale, dest, slots, upto, fresh,
           count, touched, phase>>
operands == <<task, source, ranges, other, operation, stale>>

Decoders == {"bytes", "lanes", "exact lanes", "bit by bit", "groups"}
Fills    == {"fill", "recount", "subtract", "sparse"}

BitsetsOf(n) == [0 .. n - 1 -> Patterns]
FilledIndex  == 0 .. FilledWords - 1
LastFilled   == FilledWords * WordBits - 1
Operations   == {"or", "and", "andnot", "xor"}
Empty        == [w \in FilledIndex |-> {}]

BStart(name, words, list, second, o, behind, places, left) ==
  /\ task = name /\ source = words /\ ranges = list /\ other = second
  /\ operation = o /\ stale = behind
  /\ dest = left
  /\ slots = [p \in 1 .. places |-> 0]
  /\ upto = 0 /\ fresh = 0
  /\ count = 0
  /\ touched = {} /\ phase = IF name \in Decoders THEN "vectors" ELSE "begin"

\* A buffer decoded into may go on behind the values of this bitset.
BInit ==
  \/ \E name \in Decoders, words \in BitsetsOf(DecodedWords), spare \in 0 .. WordBits + 1 :
       /\ spare > 0 => name \in {"bytes", "lanes"}
       /\ BStart(name, words, <<>>, Empty, "and", FALSE, PopCount(words) + spare, Empty)
  \/ \E name \in Fills, words \in BitsetsOf(FilledWords),
        blocks \in SUBSET RunPieces, left \in {Empty, [w \in FilledIndex |-> Bit]} :
       BStart(name, words, RunsOf(UNION blocks), Empty, "and", FALSE,
              IF name = "sparse" THEN Min({PopCount(words), Cardinality(UNION blocks)}) ELSE 0, left)
  \/ \E words, second \in BitsetsOf(FilledWords), o \in Operations :
       BStart("combine", words, <<>>, second, o, FALSE, 0, words)
  \/ \E words \in BitsetsOf(FilledWords), v, w \in 0 .. LastFilled, behind \in BOOLEAN :
       BStart("clear", words, Sorted({v, w}), Empty, "andnot", behind, 0, words)

Writes(s) ==
  /\ slots' = [p \in DOMAIN slots |-> IF p \in count + 1 .. count + Len(s)
                                      THEN s[p - count] ELSE slots[p]]
  /\ touched' = count + 1 .. count + Len(s)

WritesNothing == touched' = {} /\ UNCHANGED slots

-----------------------------------------------------------------------------
(***************************************************************************)
(* The decoders.  `card` is the size of the buffer for those that are told *)
(* the cardinality, and out_end for those that share a larger buffer.      *)
(***************************************************************************)
Words     == Cardinality(DOMAIN source)
BitsOf(w) == [n \in 1 .. Cardinality(source[w]) |-> w * WordBits + Sorted(source[w])[n]]
RoomLeft  == Len(slots) - count

\* The bytes of a word store ByteBits lanes each; what the last one's positions
\* do not fill holds the base they are added to.
LastByte(w) == {b \in source[w] : b >= WordBits - ByteBits}
ByteWise(w) ==
  IF source[w] = {} THEN <<>>
  ELSE BitsOf(w) \o [n \in 1 .. ByteBits - Cardinality(LastByte(w)) |->
                         w * WordBits + WordBits - ByteBits]

\* A slip: the lanes behind the last value are not reckoned with.
VectorFitsExact(w) == RoomLeft >= Cardinality(source[w])

VectorFits(w) ==
  CASE task = "bytes" -> RoomLeft >= WordBits
    [] task = "lanes" -> RoomLeft >= Cardinality(source[w])
    [] OTHER          -> TRUE

\* extract_setbits_uint32 and its AVX-512 form, extract_setbits_uint16.
DecodeWord ==
  /\ phase = "vectors" /\ task \in {"bytes", "lanes", "exact lanes"}
  /\ upto < Words /\ VectorFits(upto)
  /\ Writes(IF task = "bytes" THEN ByteWise(upto) ELSE BitsOf(upto))
  /\ count' = count + Cardinality(source[upto])
  /\ upto' = upto + 1
  /\ UNCHANGED <<operands, dest, fresh, phase>>

\* extract_intersection_setbits_portable: how many values a word is given.
Density ==
  PerWord[CASE Len(slots) * 5 < Words * 2 -> 1
            [] Len(slots) * 5 >= Words * 2 /\ Len(slots) * 5 < Words * 4 -> 2
            [] Len(slots) * 5 >= Words * 4 /\ Len(slots) < Words * 3 -> 3
            [] OTHER -> 4]

GroupFits == upto + GroupWords <= Words /\ RoomLeft >= GroupWords * WordBits

\* A word with fewer bits than that writes one place past its values.
DecodeGroup ==
  LET group == [n \in 1 .. GroupWords |-> upto + n - 1]
      past  == IF Cardinality(source[upto + GroupWords - 1]) < Density
               THEN <<(upto + GroupWords) * WordBits - 1>> ELSE <<>>
      found == FoldLeft(LAMBDA s, w : s \o BitsOf(w), <<>>, group)
  IN /\ phase = "vectors" /\ task = "groups" /\ GroupFits
     /\ IF found = <<>> THEN WritesNothing ELSE Writes(found \o past)
     /\ count' = count + Len(found)
     /\ upto' = upto + GroupWords
     /\ UNCHANGED <<operands, dest, fresh, phase>>

VectorsStop ==
  /\ phase = "vectors"
  /\ CASE task = "groups"     -> ~GroupFits
       [] task = "bit by bit" -> TRUE
       [] OTHER               -> IF upto = Words THEN TRUE ELSE ~VectorFits(upto)
  /\ phase' = "tail"
  /\ WritesNothing
  /\ UNCHANGED <<operands, dest, upto, fresh, count>>

\* What is left, bit by bit and never past the buffer.
DecodeTail ==
  /\ phase = "tail"
  /\ IF upto < Words /\ (task = "bit by bit" \/ RoomLeft > 0)
     THEN LET fits == IF task \in {"bytes", "lanes"} THEN Min({RoomLeft, Len(BitsOf(upto))})
                      ELSE Len(BitsOf(upto))
          IN /\ Writes(SubSeq(BitsOf(upto), 1, fits))
             /\ count' = count + fits
             /\ upto' = upto + 1
             /\ UNCHANGED phase
     ELSE WritesNothing /\ phase' = "done" /\ UNCHANGED <<count, upto>>
  /\ UNCHANGED <<operands, dest, fresh>>

-----------------------------------------------------------------------------
(***************************************************************************)
(* The intersections of a run list with a bitset, run by run.              *)
(***************************************************************************)
Many == Len(ranges) > ManyRuns

Begin ==
  /\ phase = "begin" /\ task \in Fills
  /\ phase' = "runs"
  /\ dest' = CASE task = "fill" /\ Many -> Empty
               [] task \in {"recount", "subtract"} -> source
               [] OTHER -> dest
  /\ count' = IF task = "subtract" THEN PopCount(source) ELSE count
  /\ UNCHANGED <<operands, slots, upto, fresh>> /\ WritesNothing

NextRun   == ranges[upto + 1]
RunWord   == WordOf(NextRun.begin)
Masked(w) == source[w] \cap InWord(NextRun.begin, NextRun.end, w)

\* The word a run begins in may hold the end of the run before.
FirstWord ==
  (IF Many \/ RunWord < fresh THEN dest[RunWord] ELSE {}) \cup Masked(RunWord)

\* intersect_run_bitset: few runs zero the words between them, many found all
\* zeroed.
FillRun ==
  LET last == WordOf(NextRun.end)
  IN /\ phase = "runs" /\ task = "fill" /\ upto < Len(ranges)
     /\ dest' = [w \in FilledIndex |->
                   CASE w = RunWord -> FirstWord
                     [] w \in RunWord + 1 .. last -> Masked(w)
                     [] w \in fresh .. RunWord - 1 /\ ~Many -> {}
                     [] OTHER -> dest[w]]
     /\ count' = count + PopCount([w \in RunWord .. last |-> Masked(w)])
     /\ fresh' = IF Many THEN fresh ELSE last + 1
     /\ upto' = upto + 1
     /\ UNCHANGED <<operands, phase>> /\ WritesNothing

FillEnds ==
  /\ phase = "runs" /\ task = "fill" /\ upto = Len(ranges)
  /\ dest' = [w \in FilledIndex |-> IF ~Many /\ w >= fresh THEN {} ELSE dest[w]]
  /\ phase' = "done"
  /\ UNCHANGED <<operands, upto, fresh, count>> /\ WritesNothing

\* clear_bits: the values of a closed range, word by word.
Cleared(first, last) == [w \in FilledIndex |-> dest[w] \ InWord(first, last, w)]

\* The copies with the gaps between the runs cleared: recounted at the end, or
\* counted down by what is cleared.
ClearGap(first, last) ==
  /\ dest' = IF first <= last THEN Cleared(first, last) ELSE dest
  /\ count' = IF task = "subtract" THEN count - (PopCount(dest) - PopCount(dest')) ELSE count

ClearBefore ==
  /\ phase = "runs" /\ task \in {"recount", "subtract"} /\ upto < Len(ranges)
  /\ ClearGap(fresh, NextRun.begin - 1)
  /\ fresh' = NextRun.end + 1
  /\ upto' = upto + 1
  /\ UNCHANGED <<operands, phase>> /\ WritesNothing

ClearBehind ==
  /\ phase = "runs" /\ task \in {"recount", "subtract"} /\ upto = Len(ranges)
  /\ ClearGap(fresh, LastFilled)
  /\ phase' = IF task = "recount" THEN "count" ELSE "done"
  /\ UNCHANGED <<operands, upto, fresh>> /\ WritesNothing

CountWords ==
  /\ phase = "count"
  /\ count' = PopCount(dest)
  /\ phase' = "done"
  /\ UNCHANGED <<operands, dest, slots, upto, fresh>> /\ touched' = {}

\* intersect_run_bitset_sparse: the bits a run covers, straight into an array.
EmitRun ==
  /\ phase = "runs" /\ task = "sparse" /\ upto < Len(ranges)
  /\ Writes(Sorted(ValuesIn([w \in RunWord .. WordOf(NextRun.end) |-> Masked(w)])))
  /\ count' = count + Cardinality(touched')
  /\ upto' = upto + 1
  /\ UNCHANGED <<operands, dest, fresh, phase>>

EmitEnds ==
  /\ phase = "runs" /\ task = "sparse" /\ upto = Len(ranges)
  /\ phase' = "done"
  /\ UNCHANGED <<operands, dest, upto, fresh, count>> /\ WritesNothing

-----------------------------------------------------------------------------
\* combine_words of the operation.
Combine(a, b, o) ==
  [w \in FilledIndex |->
     CASE o = "or"  -> a[w] \cup b[w]  [] o = "and"    -> a[w] \cap b[w]
       [] o = "xor" -> SymDiff(a[w], b[w]) [] o = "andnot" -> a[w] \ b[w]]

\* combine_bitset_bitset.
CombineWords ==
  /\ phase = "begin" /\ task = "combine"
  /\ dest' = Combine(source, other, operation)
  /\ count' = PopCount(dest')
  /\ phase' = "done"
  /\ UNCHANGED <<operands, upto, fresh>> /\ WritesNothing

\* combine_bitset_bitset_inplace: a union into a bitset whose header says that
\* it is full is left as it is.
CombineInPlace ==
  /\ phase = "begin" /\ task = "combine"
  /\ dest' = IF operation = "or" /\ PopCount(source) = LastFilled + 1 THEN dest
             ELSE Combine(dest, other, operation)
  /\ count' = PopCount(dest')
  /\ phase' = "done"
  /\ UNCHANGED <<operands, upto, fresh>> /\ WritesNothing

\* settle_stale_cardinality, before difference_bitset_array_inplace.
Settle ==
  /\ phase = "begin" /\ task = "clear"
  /\ count' = PopCount(source)
  /\ phase' = "values"
  /\ UNCHANGED <<operands, dest, upto, fresh>> /\ WritesNothing

ClearValue ==
  /\ phase = "values"
  /\ IF upto = Len(ranges) THEN phase' = "done" /\ UNCHANGED <<dest, count, upto>>
     ELSE LET v == ranges[upto + 1] IN
          /\ dest' = [dest EXCEPT ![WordOf(v)] = @ \ {BitOf(v)}]
          /\ count' = IF BitOf(v) \in dest[WordOf(v)] THEN count - 1 ELSE count
          /\ upto' = upto + 1
          /\ UNCHANGED phase
  /\ UNCHANGED <<operands, fresh>> /\ WritesNothing

BNext ==
  \/ DecodeWord \/ DecodeGroup \/ VectorsStop \/ DecodeTail
  \/ Begin \/ FillRun \/ FillEnds
  \/ ClearBefore \/ ClearBehind \/ CountWords
  \/ EmitRun \/ EmitEnds
  \/ CombineWords \/ CombineInPlace \/ Settle \/ ClearValue

-----------------------------------------------------------------------------
\* The set a task is to leave.
Asked ==
  LET S == ValuesIn(source) IN
  CASE task \in Decoders -> S
    [] task \in Fills    -> S \cap RunValues(ranges)
    [] task = "combine"  -> ValuesIn(Combine(source, other, operation))
    [] task = "clear"    -> S \ ToSet(ranges)

\* Every kernel returns the set it is asked for and its exact cardinality: as
\* values in order, or as words none of which keeps what a retired payload held.
\* (An empty set is returned as an empty array whatever the words hold.)
WordsAgree ==
  phase = "done" =>
    /\ count = Cardinality(Asked)
    /\ IF task \in Decoders \cup {"sparse"}
       THEN SubSeq(slots, 1, count) = Sorted(Asked)
       ELSE count > 0 => ValuesIn(dest) = Asked
=============================================================================
