----------------------------- MODULE LazyFoldMC -----------------------------
(***************************************************************************)
(* The operands and keys of the runs on LazyFold.                          *)
(***************************************************************************)
EXTENDS LazyFold

\* The operands: a container of each form at the first chunk, one full; chunks
\* at the second and at both.
MCOperands ==
  LET At(k, kind, keys) == [c \in {k} |-> Container(kind, keys)]
  IN  {At(1, "array", {0}), At(1, "array", {1, 2}),
       At(1, "bitset", {0, 1, 2}), At(1, "bitset", Lows),
       At(1, "run", {1, 2, 3}), At(1, "run", Lows),
       At(2, "array", {0}),
       [k \in {1, 2} |-> Container("array", {0})],
       <<>>}

\* Three keys of the first chunk; at the second one is enough: what matters there
\* is whether the chunk is held, and holds anything.
MCKeys == {<<1, 0>>, <<1, 1>>, <<1, 3>>, <<2, 0>>}
=============================================================================
