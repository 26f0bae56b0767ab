--------------------------- MODULE PayloadRaceMC ---------------------------
(***************************************************************************)
(* What must hold of a payload that threads share, and a small instance.   *)
(***************************************************************************)
EXTENDS PayloadRace, TLC

\* Whatever touches the payload is ordered after every step it conflicts with:
\* a holder has seen whoever wrote it, a write in place has seen every read of
\* those who held the payload before, and the one who frees it has seen
\* everything anybody did with it or with its count (cow_policy.hpp:63-67,
\* 73-81).
StepsAreOrdered == \A t \in Threads : \A u \in Threads \ {t} :
  /\ holds[t] > 0 => <<u, "write">> \notin unseen[t] /\ <<u, "free">> \notin unseen[t]
  /\ pc[t] = "write" => <<u, "read">> \notin unseen[t]
  /\ pc[t] = "free" => \A kind \in {"read", "write", "count"} : <<u, kind>> \notin unseen[t]

\* A thread that was told it is alone is alone until it is done: nobody can
\* raise a count that only this handle holds (cow_policy.hpp:73-77), though
\* the value it read may be an old one.
SoleOwnerStaysAlone == \A t \in Threads :
  pc[t] = "write" \/ (pc[t] = "free" /\ holds[t] > 0) =>
    holds[t] = 1 /\ lent = Nobody /\ \A u \in Threads \ {t} : holds[u] = 0 /\ pc[u] = "idle"

\* The payload is freed by the last to let go of it, once, and by nobody while
\* a handle is left (container_handle.hpp:754-767).
FreedByTheLast ==
  LET nobodyHolds == lent = Nobody /\ \A t \in Threads : holds[t] = 0
      letting == {t \in Threads : pc[t] \in {"fence", "free", "freed"}}
  IN
  /\ Cardinality(letting) <= 1
  /\ \A t \in letting : nobodyHolds \/ (pc[t] = "free" /\ holds[t] = 1)
  /\ nobodyHolds => letting # {}

Alike == Permutations(Threads \ {Creator})
-----------------------------------------------------------------------------
(***************************************************************************)
(* What holds of the handles, the count and the views meanwhile, and makes *)
(* the properties above inductive.                                         *)
(***************************************************************************)
View   == SUBSET (Threads \X {"read", "write", "count", "free"})
Places == {"idle", "write", "clone", "let go", "lower", "fence", "free", "freed"}

TypeOK ==
  /\ count \in Seq([value : Int, unseen : View]) /\ count # << >>
  /\ at \in [Threads -> DOMAIN count]
  /\ unseen \in [Threads -> View] /\ pending \in [Threads -> View]
  /\ holds \in [Threads -> Nat]
  /\ lent = Nobody \/ lent \in [owner : Threads, shown : View, back : View, at : DOMAIN count]
  /\ pc \in [Threads -> Places]

\* The handles there are, numbered for each thread; the lent one has number 0.
Held == {h \in Threads \X (0..Handles + 1) : \/ h[2] \in 1..holds[h[1]]
                                             \/ h[2] = 0 /\ lent.owner = h[1]}

\* Lending a handle makes no room for another copy.
HandlesBounded == \A t \in Threads :
  holds[t] <= Handles + (IF lent.owner = t THEN 0 ELSE 1)

Unfreed == \A t \in Threads : pc[t] # "freed"

\* Until the payload is freed, the count is the number of handles.
CountIsHeld == Unfreed => Current.value = Cardinality(Held)

\* A call in progress has its handle.
CallsHold == \A t \in Threads :
  pc[t] \in {"write", "clone", "let go", "lower"} => holds[t] > 0

\* A value of one that a holder may still read is the last value there is: while
\* the count was one, nobody else had a handle to raise it with.
OldOnesAreKnown ==
  /\ \A t \in Threads : holds[t] > 0 =>
        \A i \in at[t]..Len(count) - 1 : count[i].value > 1
  /\ lent # Nobody =>
        \A i \in lent.at..Len(count) - 1 : at[lent.owner] <= i => count[i].value > 1

Letting(t) == pc[t] \in {"fence", "free", "freed"}
Alone(t) == lent = Nobody /\ \A u \in Threads \ {t} : holds[u] = 0 /\ pc[u] = "idle"

\* Who lets go of the payload for good is alone with it, and somebody does.
LettingIsAlone ==
  /\ \A t \in Threads : pc[t] = "write" => Alone(t) /\ holds[t] = 1
  /\ \A t \in Threads : Letting(t) =>
        Alone(t) /\ (holds[t] = 0 \/ (pc[t] = "free" /\ holds[t] = 1))
  /\ Held = {} => \E t \in Threads : Letting(t)

\* A thread has seen its own steps, and nobody has missed a free before it.
OwnStepsSeen == \A t \in Threads : \A kind \in {"read", "write", "count", "free"} :
  <<t, kind>> \notin unseen[t]
FreeIsLast == \A t, u \in Threads : <<u, "free">> \in unseen[t] => pc[u] = "freed"

\* Whoever may come to touch the payload has seen every write, or comes to see
\* it with the handle that it copies or takes back.
WritesSeen ==
  /\ \A t, u \in Threads : holds[t] > 0 \/ pc[t] = "fence" => <<u, "write">> \notin unseen[t]
  /\ lent # Nobody =>
        \A u \in Threads : <<u, "write">> \notin lent.shown /\ <<u, "write">> \notin lent.back

\* A thread that has given up all its handles has released what it did: the
\* last value of the count hands it on.
GivenUpIsReleased == \A u \in Threads :
  holds[u] = 0 /\ lent.owner # u /\ pc[u] # "freed" =>
    <<u, "read">> \notin Current.unseen /\ <<u, "count">> \notin Current.unseen

\* And the one that is told it is alone has acquired it.
AloneHasSeen == \A t \in Threads : \A u \in Threads \ {t} :
  /\ pc[t] = "write" => <<u, "read">> \notin unseen[t]
  /\ pc[t] = "fence" => <<u, "read">> \notin pending[t] /\ <<u, "count">> \notin pending[t]
  /\ pc[t] = "free" => \A kind \in {"read", "write", "count"} : <<u, kind>> \notin unseen[t]

IInv == /\ TypeOK /\ HandlesBounded /\ CallsHold /\ CountIsHeld /\ OldOnesAreKnown
        /\ LettingIsAlone /\ OwnStepsSeen /\ FreeIsLast /\ WritesSeen
        /\ GivenUpIsReleased /\ AloneHasSeen
=============================================================================
