------------------------------ MODULE SortedMap ------------------------------
(***************************************************************************)
(* What a sorted chunk table promises its owner: it holds a set of keys.   *)
(***************************************************************************)
EXTENDS Integers

CONSTANTS Key, OtherTables, KeptSets

VARIABLE held

Init == held = {}

Add(k)        == k \notin held /\ held' = held \cup {k}
Remove(k)     == k \in held /\ held' = held \ {k}
AddAll(other) == held' = held \cup other
Keep(kept)    == held' = held \cap kept
Clear         == held' = {}

Next ==
  \/ \E k \in Key : Add(k) \/ Remove(k)
  \/ \E other \in OtherTables : AddAll(other)
  \/ \E kept \in KeptSets : Keep(kept)
  \/ Clear

Spec == Init /\ [][Next]_held
=============================================================================
