---------------------------- MODULE BitmapValues ----------------------------
(***************************************************************************)
(* What bitmap promises of its copies: every bitmap is a set of keys of    *)
(* its own, a call changes the bitmap it is made on and answers for it,    *)
(* and a call that fails leaves a bitmap with the call applied to part of  *)
(* it.                                                                     *)
(***************************************************************************)
EXTENDS Naturals

CONSTANTS Bitmaps, Keys

VARIABLES val,      \* the keys of each bitmap
          answer    \* what the last call returned

vars == <<val, answer>>

Init == val = [b \in Bitmaps |-> {}] /\ answer = "done"

Answers(a) == answer' = a
IfSo(p)    == IF p THEN "true" ELSE "false"
Holds(b, keys) == val' = [val EXCEPT ![b] = keys]

Assign(b, c) == \/ Answers("done") /\ Holds(b, val[c])
                \/ Answers("threw") /\ UNCHANGED val

Swap(b, c) == /\ Answers("done")
              /\ val' = [val EXCEPT ![b] = val[c], ![c] = val[b]]

Clear(b) == Answers("done") /\ Holds(b, {})

Add(b, k) == \/ Answers(IfSo(k \notin val[b])) /\ Holds(b, val[b] \cup {k})
             \/ Answers("threw") /\ (Holds(b, val[b] \cup {k}) \/ UNCHANGED val)

Remove(b, k) == \/ Answers(IfSo(k \in val[b])) /\ Holds(b, val[b] \ {k})
                \/ Answers("threw") /\ UNCHANGED val

Contains(b, k) == Answers(IfSo(k \in val[b])) /\ UNCHANGED val

\* A union that fails holds at least what it held and at most the whole union.
Unite(b, c) == \/ Answers("done") /\ Holds(b, val[b] \cup val[c])
               \/ /\ Answers("threw")
                  /\ \E some \in SUBSET val[c] : Holds(b, val[b] \cup some)

\* A union built in another bitmap leaves a part of it there when it fails.
UniteInto(a, b, s) ==
  \/ Answers("done") /\ Holds(s, val[a] \cup val[b])
  \/ /\ Answers("threw")
     /\ \E some \in SUBSET (val[a] \cup val[b]) : Holds(s, some)

Next == \E b, c \in Bitmaps :
          \/ Assign(b, c) \/ Swap(b, c) \/ Clear(b) \/ Unite(b, c)
          \/ \E k \in Keys : Add(b, k) \/ Remove(b, k) \/ Contains(b, k)
          \/ \E s \in Bitmaps : UniteInto(b, c, s)

Spec == Init /\ [][Next]_vars
=============================================================================
