--------------------------- MODULE SharedBitmapMC ---------------------------
(***************************************************************************)
(* The instances of shared_bitmap that TLC checks: in one two threads race *)
(* over bitmaps of one key, in the other one call at a time is made on     *)
(* bitmaps of every key, which tells the operators from each other.        *)
(***************************************************************************)
EXTENDS SharedBitmap, TLC

CONSTANT Programs   \* which of "racing" and "alone"
VARIABLE program

mcvars == <<vars, program>>

\* Calls that give blocks away, take them and copy them.
SharingOps == {"make", "assign", "unite", "clear", "edit"}

Symmetric == Permutations(Threads) \cup Permutations(Handles)
               \cup Permutations(Blocks)

OneKey == CHOOSE k \in Keys : TRUE

MCInit == Init /\ program \in Programs

Racing ==
  /\ program = "racing"
  /\ \A t \in Threads : call'[t] # NoCall => call'[t].k = OneKey
  /\ \A b \in Blocks : value'[b] \subseteq {OneKey}

Alone ==
  /\ program = "alone"
  /\ Cardinality({t \in Threads : call'[t] # NoCall}) <= 1

MCNext == Next /\ (Racing \/ Alone) /\ UNCHANGED program
MCSpec == MCInit /\ [][MCNext]_mcvars

\* A thread in a call goes on with it, as in FairSpec.
MCFairSpec == MCSpec /\ \A t \in Threads : WF_vars(Step(t))
=============================================================================
