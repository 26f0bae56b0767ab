------------------------------ MODULE ImagesMC ------------------------------
(***************************************************************************)
(* Bitmaps of up to three chunks of chosen forms, and of one chunk with    *)
(* any values in any form: short arrays, arrays of several search blocks,  *)
(* odd tails, runs that touch the ends of the domain, full chunks.         *)
(***************************************************************************)
EXTENDS Images

MCKinds == {"array", "run", "bitset"}
MCLows == {{0, 7}, {1, 2, 3, 5}, 0 .. 7}
MCKeys == {0, 1, 3}

Chunk(key, form) == [key |-> key, kind |-> form[1], low |-> form[2]]
Several ==
  UNION {{[i \in 1 .. Cardinality(K) |->
             Chunk(InOrder(K)[i], forms[InOrder(K)[i]])] :
            forms \in [K -> MCKinds \X MCLows]} : K \in SUBSET MCKeys}
Single ==
  {<<Chunk(1, form)>> : form \in MCKinds \X (SUBSET (0 .. 7) \ {{}})}
MCSources == Several \cup Single
=============================================================================
