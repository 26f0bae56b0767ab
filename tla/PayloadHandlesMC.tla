-------------------------- MODULE PayloadHandlesMC --------------------------
\* A small instance of PayloadHandles for TLC.
EXTENDS PayloadHandles, TLC

MCImageKind == [i \in Images |-> IF i = 10 THEN "bitset" ELSE "array"]
MCImageValues == [i \in Images |-> IF i = 10 THEN {0, 2} ELSE {0, 1, 2}]
MCBatches == {{1}, {0, 2}}
Alike == Permutations(Handles)
=============================================================================
