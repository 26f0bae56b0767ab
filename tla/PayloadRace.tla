---------------------------- MODULE PayloadRace ----------------------------
(***************************************************************************)
(* One counted payload and the threads that hold handles on it, under the  *)
(* memory model of C++.  The count of cow_atomic_refcount is raised        *)
(* relaxed, lowered with release and read with acquire; everything else -  *)
(* reading, copying, writing and freeing the payload - is not atomic, and  *)
(* must be ordered by what the count hands from thread to thread.          *)
(*                                                                         *)
(* A view is the set of the steps it has NOT seen: <<u, kind>> is in it    *)
(* when the last step of that kind that u took is not ordered before.      *)
(* Joining two views is the intersection.  The count is the list of the    *)
(* values it ever had, each with the view it releases: a load may read any *)
(* value that is not older than one its thread already knows, and a        *)
(* read-modify-write reads the last one and passes on what it released.    *)
(*                                                                         *)
(* What the library asks of its caller: a handle is changed by one thread  *)
(* at a time, but any number of threads may copy it meanwhile unchanged.   *)
(* Publish and TakeBack are the caller's own synchronization for that.     *)
(***************************************************************************)
EXTENDS Integers, Sequences, FiniteSets

CONSTANTS
  Threads,   \* the threads
  Creator,   \* the one that made the payload
  Handles,   \* bound: the handles a thread holds
  Changes    \* bound: no copy is made once the count had this many values

ASSUME ThreadsAssumption ==
  IsFiniteSet(Threads) /\ "nobody" \notin Threads /\ Creator \in Threads /\ Handles \in Nat \ {0} /\ Changes \in Nat

VARIABLES
  count,    \* the values of the count in modification order
  at,       \* the newest of them each thread knows
  unseen,   \* the view of each thread
  pending,  \* the view a fence would join to it
  holds,    \* the handles of each thread
  lent,     \* the handle its owner lets others copy, if there is one
  pc        \* where each thread is in its call

vars == <<count, at, unseen, pending, holds, lent, pc>>

Nobody == [owner |-> "nobody", shown |-> {}, back |-> {}, at |-> 1]
Current == count[Len(count)]

\* t takes a step of this kind: no view but its own, which becomes mine, has
\* seen it.
Missing(step, S) == S \cup {step}
Step(t, kind, mine) ==
  unseen' = [u \in Threads |-> IF u = t THEN mine ELSE Missing(<<t, kind>>, unseen[u])]
FenceBehind(t, kind, views) == pending' = [u \in Threads |-> Missing(<<t, kind>>, views[u])]
LentBehind(step) ==
  IF lent = Nobody THEN Nobody
  ELSE [lent EXCEPT !.shown = Missing(step, @), !.back = Missing(step, @)]
CountBehind(step) == [i \in DOMAIN count |-> [count[i] EXCEPT !.unseen = Missing(step, @)]]

\* A step on the payload itself.
Touch(t, kind) ==
  /\ Step(t, kind, unseen[t])
  /\ FenceBehind(t, kind, pending)
  /\ count' = CountBehind(<<t, kind>>)
  /\ lent' = LentBehind(<<t, kind>>)
  /\ UNCHANGED at
\* rc_load: acquires what the value it reads releases.
Load(t, i) ==
  /\ i \in at[t]..Len(count)
  /\ at' = [at EXCEPT ![t] = i]
  /\ Step(t, "count", unseen[t] \cap count[i].unseen)
  /\ FenceBehind(t, "count", pending)
  /\ count' = CountBehind(<<t, "count">>)
  /\ lent' = LentBehind(<<t, "count">>)
\* A read-modify-write of t, which has seen mine: it releases that too, or
\* passes on only what the value before it released.
Modify(t, mine, delta, releases) ==
  LET passed == Missing(<<t, "count">>, Current.unseen) IN
  /\ at' = [at EXCEPT ![t] = Len(count) + 1]
  /\ Step(t, "count", mine)
  /\ FenceBehind(t, "count", [pending EXCEPT ![t] = @ \cap Current.unseen])
  /\ count' = Append(CountBehind(<<t, "count">>),
                     [value |-> Current.value + delta,
                      unseen |-> IF releases THEN passed \cap mine ELSE passed])
\* A slip: the count is read, raised and written back, as
\* cow_unsynchronized_refcount does it.
IncrementPlain(t, mine) == Modify(t, mine, count[at[t]].value + 1 - Current.value, FALSE)
Increment(t, mine) == Modify(t, mine, 1, FALSE)
\* A slip: the count is lowered without releasing.
DecrementRelaxed(t) == Modify(t, unseen[t], -1, FALSE)
Decrement(t) == Modify(t, unseen[t], -1, TRUE)

Goto(t, place) == pc' = [pc EXCEPT ![t] = place]
Idle(t) == pc[t] = "idle"
MayCopy(t) == Idle(t) /\ holds[t] < Handles /\ Len(count) < Changes

\* The payload was filled by the thread that made it, which nobody has seen.
Init ==
  LET filled == {<<Creator, "write">>} IN
  /\ count = << [value |-> 1, unseen |-> filled] >>
  /\ at = [t \in Threads |-> 1]
  /\ unseen = [t \in Threads |-> IF t = Creator THEN {} ELSE filled]
  /\ pending = [t \in Threads |-> filled]
  /\ holds = [t \in Threads |-> IF t = Creator THEN 1 ELSE 0]
  /\ lent = Nobody
  /\ pc = [t \in Threads |-> "idle"]

(***************************************************************************)
(* What the caller's threads do with their handles.                        *)
(***************************************************************************)
Publish(t) ==
  /\ Idle(t) /\ holds[t] > 0 /\ lent = Nobody
  /\ lent' = [owner |-> t, shown |-> unseen[t], back |-> unseen[t], at |-> at[t]]
  /\ holds' = [holds EXCEPT ![t] = @ - 1]
  /\ UNCHANGED <<count, at, unseen, pending, pc>>
\* The owner changes the handle again only after every copy from it is done.
TakeBack(t) ==
  /\ Idle(t) /\ lent.owner = t
  /\ unseen' = [unseen EXCEPT ![t] = @ \cap lent.back]
  /\ at' = [at EXCEPT ![t] = IF lent.at > @ THEN lent.at ELSE @]
  /\ holds' = [holds EXCEPT ![t] = @ + 1]
  /\ lent' = Nobody
  /\ UNCHANGED <<count, pending, pc>>
\* clone_from: of a handle of its own, or of the one that is lent.
Copy(t) ==
  /\ MayCopy(t) /\ holds[t] > 0
  /\ Increment(t, unseen[t])
  /\ lent' = LentBehind(<<t, "count">>)
  /\ holds' = [holds EXCEPT ![t] = @ + 1]
  /\ UNCHANGED pc
CopyLent(t) ==
  LET mine == unseen[t] \cap lent.shown IN
  /\ MayCopy(t) /\ lent.owner \in Threads \ {t}
  /\ Increment(t, mine)
  /\ lent' = [LentBehind(<<t, "count">>) EXCEPT !.back = @ \cap mine, !.at = Len(count) + 1]
  /\ holds' = [holds EXCEPT ![t] = @ + 1]
  /\ UNCHANGED pc
Read(t) ==
  /\ Idle(t) /\ holds[t] > 0
  /\ Touch(t, "read")
  /\ UNCHANGED <<holds, pc>>

\* make_payload_unique: the count of one lets the thread write where it is.
Barrier(t, i) ==
  /\ Idle(t) /\ holds[t] > 0
  /\ Load(t, i)
  /\ Goto(t, IF count[i].value = 1 THEN "write" ELSE "clone")
  /\ UNCHANGED holds
WriteInPlace(t) ==
  /\ pc[t] = "write"
  /\ Touch(t, "write")
  /\ Goto(t, "idle")
  /\ UNCHANGED holds
\* clone_shared_payload: the payload is copied and then let go of.
CopyOut(t) ==
  /\ pc[t] = "clone"
  /\ Touch(t, "read")
  /\ Goto(t, "let go")
  /\ UNCHANGED holds
Drop(t) ==
  /\ Idle(t) /\ holds[t] > 0
  /\ Goto(t, "let go")
  /\ UNCHANGED <<count, at, unseen, pending, holds, lent>>

\* rc_decrement_is_last, step by step.
SoleOwner(t, i) ==
  /\ pc[t] = "let go"
  /\ Load(t, i)
  /\ Goto(t, IF count[i].value = 1 THEN "free" ELSE "lower")
  /\ UNCHANGED holds
\* A slip: whoever finds two holders leaves the payload to the other.
LowerWhatWasRead(t) ==
  /\ pc[t] = "lower"
  /\ Decrement(t)
  /\ lent' = LentBehind(<<t, "count">>)
  /\ holds' = [holds EXCEPT ![t] = @ - 1]
  /\ Goto(t, "idle")
Lower(t) ==
  /\ pc[t] = "lower"
  /\ Decrement(t)
  /\ lent' = LentBehind(<<t, "count">>)
  /\ holds' = [holds EXCEPT ![t] = @ - 1]
  /\ Goto(t, IF Current.value = 1 THEN "fence" ELSE "idle")
Fence(t) ==
  /\ pc[t] = "fence"
  /\ unseen' = [unseen EXCEPT ![t] = @ \cap pending[t]]
  /\ Goto(t, "free")
  /\ UNCHANGED <<count, at, pending, holds, lent>>
\* A sole owner still has its handle, the last to lower the count has not.
FreePayload(t) ==
  /\ pc[t] = "free"
  /\ Touch(t, "free")
  /\ holds' = [holds EXCEPT ![t] = 0]
  /\ Goto(t, "freed")

Next == \E t \in Threads :
  \/ Publish(t) \/ TakeBack(t) \/ Copy(t) \/ CopyLent(t) \/ Read(t)
  \/ \E i \in DOMAIN count : Barrier(t, i) \/ SoleOwner(t, i)
  \/ WriteInPlace(t) \/ CopyOut(t) \/ Drop(t)
  \/ Lower(t) \/ Fence(t) \/ FreePayload(t)

Spec == Init /\ [][Next]_vars
=============================================================================
