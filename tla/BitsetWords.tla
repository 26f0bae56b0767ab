---------------------------- MODULE BitsetWords ----------------------------
(***************************************************************************)
(* A chunk's bitset as its words: a word is the set of its bits that are   *)
(* set, so the bitwise operations are those of sets.                       *)
(***************************************************************************)
EXTENDS RunLists

CONSTANT WordBits   \* the bits of a word, 64

ASSUME WordAssumption == WordBits \in Nat \ {0} /\ (LastLow + 1) % WordBits = 0

Bit       == 0 .. WordBits - 1
WordIndex == 0 .. (LastLow + 1) \div WordBits - 1
WordOf(v) == v \div WordBits
BitOf(v)  == v % WordBits

\* first_mask and last_mask: the bits from v's on, and those up to v's.
BitsFrom(v)   == {b \in Bit : b >= BitOf(v)}
BitsUpTo(v)   == {b \in Bit : b <= BitOf(v)}

\* The part of the closed range [first, last] that lies in word w.
InWord(first, last, w) ==
  IF w \notin WordOf(first) .. WordOf(last) THEN {}
  ELSE (IF w = WordOf(first) THEN BitsFrom(first) ELSE Bit)
         \cap (IF w = WordOf(last) THEN BitsUpTo(last) ELSE Bit)

WordsOf(S) == [w \in WordIndex |-> {b \in Bit : w * WordBits + b \in S}]

\* The values of words numbered by any 0 .. n - 1.
ValuesIn(words) == UNION {{w * WordBits + b : b \in words[w]} : w \in DOMAIN words}

PopCount(words) == Cardinality(ValuesIn(words))

Sorted(S) ==
  [n \in 1 .. Cardinality(S) |-> CHOOSE v \in S : Cardinality({w \in S : w < v}) = n - 1]
=============================================================================
