---------------------------- MODULE HandleCalls ----------------------------
(***************************************************************************)
(* The calls a program makes on handles of shared_bitmap, and what each    *)
(* of them computes.  A bitmap is the set of the keys it holds.            *)
(*                                                                         *)
(* A call names the handle it is made on (h) and the other handle it reads *)
(* (g, h itself when there is none).  The "_raw" forms of the binary       *)
(* operators take a Bitmap const &, here always the bitmap of some handle, *)
(* h's own included (h -= h.get()); the others take a shared_bitmap.       *)
(***************************************************************************)
EXTENDS Naturals

CONSTANTS Threads,   \* the threads of the program
          Handles,   \* the shared_bitmap objects
          Keys,      \* the keys a bitmap may hold
          NoCall,    \* the call of a thread that is between two calls
          Made       \* the operations the program calls

PointOps  == {"add", "remove"}
HandleOps == {"unite", "intersect", "subtract", "xor"}
RawOps    == {"unite_raw", "intersect_raw", "subtract_raw", "xor_raw"}
BinaryOps == HandleOps \cup RawOps
Ops == PointOps \cup BinaryOps
         \cup {"assign", "move", "swap", "make", "clear", "edit"}

\* Every call, and of them the ones that differ in an argument the call uses:
\* a call without a key or without a second handle is enumerated once.
Call == [op : Ops, h : Handles, g : Handles, k : Keys]
DistinctCalls ==
  LET oneKey == CHOOSE k \in Keys : TRUE
  IN  {c \in [op : Made, h : Handles, g : Handles, k : Keys] :
         /\ c.op \notin (PointOps \cup {"make"}) => c.k = oneKey
         /\ c.op \in (PointOps \cup {"make", "clear", "edit"}) => c.g = c.h}

ASSUME CallAssumption == NoCall \notin Call /\ Made \subseteq Ops

(***************************************************************************)
(* The rule the callers keep: a handle that a call may change is used by   *)
(* no other call meanwhile; a handle that calls only read may be read by   *)
(* any number of them.                                                     *)
(***************************************************************************)
Uses(c)   == {c.h, c.g}
Writes(c) == IF c.op \in {"move", "swap"} THEN {c.h, c.g} ELSE {c.h}
Compatible(c, d) == /\ Writes(c) \cap Uses(d) = {}
                    /\ Writes(d) \cap Uses(c) = {}

(***************************************************************************)
(* What a call leaves in h, of the keys a that h and the keys b that g     *)
(* held before it.                                                         *)
(***************************************************************************)
Combined(op, a, b, k) ==
  CASE op = "add"                            -> a \cup {k}
    [] op = "remove"                         -> a \ {k}
    [] op \in {"unite", "unite_raw"}         -> a \cup b
    [] op \in {"intersect", "intersect_raw"} -> a \cap b
    [] op \in {"subtract", "subtract_raw"}   -> a \ b
    [] op \in {"xor", "xor_raw"}             -> (a \ b) \cup (b \ a)
    [] op = "edit"                           -> a
    [] op = "make"                           -> {k}
    [] op = "clear"                          -> {}
    [] OTHER                                 -> b      \* assign, move, swap

\* How a call ends: add and remove answer whether they changed anything.
Outcomes == {"none", "true", "false", "done", "threw"}
Returned(op, changed) ==
  IF op \in PointOps THEN IF changed THEN "true" ELSE "false" ELSE "done"

\* What an in-place change may leave when an allocation of it fails part way:
\* the change applied to part of the bitmap, or, for an exclusive-or, any of
\* the keys either side held.
LeftByFailure(op, a, b, k) ==
  LET c == Combined(op, a, b, k)
  IN  IF op \in {"xor", "xor_raw"} THEN SUBSET (a \cup b)
      ELSE {s \in SUBSET (a \cup c) : a \cap c \subseteq s}
=============================================================================
