--------------------------- MODULE SetCombination ---------------------------
(***************************************************************************)
(* What every combination of two containers promises: one set operation,   *)
(* answered once, with the right number of values.                         *)
(***************************************************************************)
EXTENDS FiniteSets, FiniteSetsExt

VARIABLES
  op,      \* the operation
  left,    \* the operands, as sets
  right,
  answer   \* {} until it is decided, then the one answer

vars == <<op, left, right, answer>>

Combined(o, A, B) ==
  CASE o = "union"                    -> A \cup B
    [] o \in {"intersection", "count"} -> A \cap B
    [] o = "difference"               -> A \ B
    [] o = "xor"                      -> SymDiff(A, B)

\* Counting what two sets share builds no set.
AnswerTo(o, A, B) ==
  [values      |-> IF o = "count" THEN {} ELSE Combined(o, A, B),
   cardinality |-> Cardinality(Combined(o, A, B))]

Init == answer = {}

Decide == /\ answer = {}
          /\ answer' = {AnswerTo(op, left, right)}
          /\ UNCHANGED <<op, left, right>>

Spec == Init /\ [][Decide]_vars /\ WF_vars(Decide)
=============================================================================
