---------------------------- MODULE SharedBitmap ----------------------------
(***************************************************************************)
(* shared_bitmap.hpp: counted handles that share bitmaps and copy one      *)
(* before they change it.  Several threads call the handles at once; one   *)
(* action is one access to memory another thread may touch (a count or a   *)
(* block) together with the accesses to the call's own handles that        *)
(* surround it.                                                            *)
(*                                                                         *)
(* ref[x] is the counted pointer x holds: x is a handle, or a thread, whose *)
(* pointer is the local one of its call (the temporary of an assignment,   *)
(* the argument of release, the `left_` of change_end).                    *)
(***************************************************************************)
EXTENDS HandleCalls, FiniteSets

CONSTANTS Blocks,    \* the addresses a block may be allocated at
          Null       \* the null pointer

ASSUME BlockAssumption == Null \notin Blocks
ASSUME HolderAssumption == /\ IsFiniteSet(Handles) /\ IsFiniteSet(Threads)
                           /\ Handles \cap Threads = {}
ASSUME KeyAssumption == IsFiniteSet(Keys)

VARIABLES
  live,     \* the blocks allocated and not yet deleted
  count,    \* block::count
  value,    \* block::value
  ref,      \* shared_bitmap::block_ of a handle, the local pointer of a call
  size,     \* shared_bitmap::size_
  pc,       \* where each thread is in its call
  call,     \* the call each thread is in
  arg,      \* the Bitmap const & operand of the call (Null: the empty one)
  outcome   \* what the call will return, "none" until it is decided

vars == <<live, count, value, ref, size, pc, call, arg, outcome>>

Holder  == Handles \cup Threads
Pointer == Blocks \cup {Null}

Pcs == {"idle", "enter", "count", "ask", "own", "copy", "change", "refresh",
        "release", "subtract", "free", "editor", "end"}

Init ==
  /\ live   = {}
  /\ count  = [b \in Blocks |-> 0]
  /\ value  = [b \in Blocks |-> {}]
  /\ ref    = [x \in Holder |-> Null]
  /\ size   = [h \in Handles |-> 0]
  /\ pc     = [t \in Threads |-> "idle"]
  /\ call   = [t \in Threads |-> NoCall]
  /\ arg    = [t \in Threads |-> Null]
  /\ outcome = [t \in Threads |-> "none"]

-----------------------------------------------------------------------------
\* The bitmap read through a pointer: get() reads the static empty one for null.
Read(p) == IF p = Null THEN {} ELSE value[p]

\* is_unique() on a handle that holds a block: one load of its count.
SoleReferent(h) == count[ref[h]] = 1

SharesStorage(h, g) == ref[h] # Null /\ ref[h] = ref[g]

\* A slip: the operands of the subset question exchanged.
AsksTheOtherWay(op, a, b, k) ==
  CASE op = "add"                            -> k \in a
    [] op = "remove"                         -> k \notin a
    [] op \in {"unite", "unite_raw"}         -> b \subseteq a
    [] op \in {"intersect", "intersect_raw"} -> b \subseteq a
    [] OTHER                                 -> a \cap b = {}

\* The bitmap of h already is what the call would leave in it: contains(),
\* is_subset_of() or !intersects(), asked of a bitmap that is shared.
ChangesNothing(op, a, b, k) ==
  CASE op = "add"                            -> k \in a
    [] op = "remove"                         -> k \notin a
    [] op \in {"unite", "unite_raw"}         -> b \subseteq a
    [] op \in {"intersect", "intersect_raw"} -> a \subseteq b
    [] OTHER                                 -> a \cap b = {}   \* subtract

\* new block{...}: at an address that is free.
Allocated(b, keys) == /\ b \in Blocks \ live
                      /\ live'  = live \cup {b}
                      /\ count' = [count EXCEPT ![b] = 1]
                      /\ value' = [value EXCEPT ![b] = keys]

Goto(t, label) == pc' = [pc EXCEPT ![t] = label]
Decide(t, result) == outcome' = [outcome EXCEPT ![t] = result]
Ends(t, result) == Goto(t, "end") /\ Decide(t, result)

-----------------------------------------------------------------------------
Begin(t) ==
  /\ pc[t] = "idle"
  /\ \E c \in DistinctCalls :
        /\ \A u \in Threads : call[u] # NoCall => Compatible(c, call[u])
        /\ call' = [call EXCEPT ![t] = c]
  /\ Goto(t, "enter")
  /\ UNCHANGED <<live, count, value, ref, size, arg, outcome>>

\* Whether a call returns before it looks at a count, with its handle as it is.
ReturnsAtOnce(c) ==
  LET other == IF c.op \in {"unite", "xor"} THEN size[c.g] = 0
               ELSE Read(ref[c.g]) = {}
      same  == c.op \in HandleOps /\ SharesStorage(c.h, c.g)
  IN  \/ c.op = "remove" /\ ref[c.h] = Null
      \/ c.op = "unite" /\ (other \/ same)
      \/ c.op \in {"unite_raw", "xor", "xor_raw"} /\ other
      \/ c.op \in {"intersect", "intersect_raw"} /\ (same \/ size[c.h] = 0)
      \/ c.op \in {"subtract", "subtract_raw"} /\ ~same /\ (size[c.h] = 0 \/ other)

\* Whether it gives its bitmap up instead: clear(), and what comes down to it.
Clears(c) ==
  \/ c.op = "clear"
  \/ c.op \in {"subtract", "xor"} /\ SharesStorage(c.h, c.g)
  \/ c.op \in {"intersect", "intersect_raw"} /\ Read(ref[c.g]) = {}

\* Whether it takes the other handle's bitmap: assignment, and a union or an
\* exclusive-or into a handle that holds nothing.
Shares(c) == c.op = "assign" \/ (c.op \in {"unite", "xor"} /\ size[c.h] = 0)

\* add, remove, unite, intersect and subtract test is_unique() first, edit and
\* the exclusive-or make the bitmap the handle's own whatever it holds.
FirstStep(c) ==
  IF c.op \in {"xor", "xor_raw", "edit"} \/ ref[c.h] = Null THEN "own" ELSE "count"

Enter(t) ==
  LET c == call[t]
  IN  /\ pc[t] = "enter"
      /\ \/ /\ ReturnsAtOnce(c)
            /\ Ends(t, Returned(c.op, FALSE))
            /\ UNCHANGED arg
         \/ /\ ~ReturnsAtOnce(c) /\ ~Clears(c) /\ ~Shares(c)
            /\ c.op \in PointOps \cup BinaryOps \cup {"edit"}
            /\ Goto(t, FirstStep(c))
            /\ arg' = [arg EXCEPT ![t] = IF c.op \in BinaryOps THEN ref[c.g] ELSE Null]
            /\ UNCHANGED outcome
      /\ UNCHANGED <<live, count, value, ref, size, call>>

\* clear(): the pointer is exchanged for null and what it held is released.
\* size_, set after the release, is read by nobody in between.
Clear(t) ==
  LET c == call[t]
  IN  /\ pc[t] = "enter" /\ ~ReturnsAtOnce(c) /\ Clears(c)
      /\ ref'  = [ref EXCEPT ![t] = ref[c.h], ![c.h] = Null]
      /\ size' = [size EXCEPT ![c.h] = 0]
      /\ Goto(t, "release") /\ Decide(t, "done")
      /\ UNCHANGED <<live, count, value, call, arg>>

\* A slip: a handle copied without a count.
ShareUncounted(t) ==
  LET c == call[t]
  IN  /\ pc[t] = "enter" /\ ~ReturnsAtOnce(c) /\ ~Clears(c) /\ Shares(c)
      /\ ref'   = [ref EXCEPT ![t] = ref[c.h], ![c.h] = ref[c.g]]
      /\ size'  = [size EXCEPT ![c.h] = size[c.g]]
      /\ Goto(t, "release") /\ Decide(t, "done")
      /\ UNCHANGED <<live, count, value, call, arg>>

\* shared_bitmap{ other }.swap( *this ): the temporary takes a count on the
\* other's block, and then holds what the handle held.
Share(t) ==
  LET c == call[t]
  IN  /\ pc[t] = "enter" /\ ~ReturnsAtOnce(c) /\ ~Clears(c) /\ Shares(c)
      /\ count' = IF ref[c.g] = Null THEN count
                  ELSE [count EXCEPT ![ref[c.g]] = @ + 1]
      /\ ref'   = [ref EXCEPT ![t] = ref[c.h], ![c.h] = ref[c.g]]
      /\ size'  = [size EXCEPT ![c.h] = size[c.g]]
      /\ Goto(t, "release") /\ Decide(t, "done")
      /\ UNCHANGED <<live, value, call, arg>>

\* A slip: the moved-from handle keeps its pointer.
MoveKeepsSource(t) ==
  LET c == call[t]
  IN  /\ pc[t] = "enter" /\ c.op = "move"
      /\ IF c.g = c.h THEN UNCHANGED <<ref, size>>
         ELSE /\ ref'  = [ref EXCEPT ![t] = ref[c.h], ![c.h] = ref[c.g]]
              /\ size' = [size EXCEPT ![c.h] = size[c.g]]
      /\ Goto(t, "release") /\ Decide(t, "done")
      /\ UNCHANGED <<live, count, value, call, arg>>

\* shared_bitmap{ std::move( other ) }.swap( *this ), and a moved-from self
\* gets its block back by the swap.
Move(t) ==
  LET c == call[t]
  IN  /\ pc[t] = "enter" /\ c.op = "move"
      /\ IF c.g = c.h THEN UNCHANGED <<ref, size>>
         ELSE /\ ref'  = [ref EXCEPT ![t] = ref[c.h], ![c.h] = ref[c.g], ![c.g] = Null]
              /\ size' = [size EXCEPT ![c.h] = size[c.g], ![c.g] = 0]
      /\ Goto(t, "release") /\ Decide(t, "done")
      /\ UNCHANGED <<live, count, value, call, arg>>

Swap(t) ==
  LET c == call[t]
  IN  /\ pc[t] = "enter" /\ c.op = "swap"
      /\ ref'  = [ref  EXCEPT ![c.h] = ref[c.g],  ![c.g] = ref[c.h]]
      /\ size' = [size EXCEPT ![c.h] = size[c.g], ![c.g] = size[c.h]]
      /\ Ends(t, "done")
      /\ UNCHANGED <<live, count, value, call, arg>>

\* h = shared_bitmap{ bitmap }: a block is made for the bitmap, and the handle
\* moved into; or the allocation fails before the handle is touched.
Make(t) ==
  LET c == call[t]
  IN  /\ pc[t] = "enter" /\ c.op = "make"
      /\ \/ \E b \in Blocks :
               /\ Allocated(b, {c.k})
               /\ ref'  = [ref EXCEPT ![t] = ref[c.h], ![c.h] = b]
               /\ size' = [size EXCEPT ![c.h] = 1]
               /\ Goto(t, "release") /\ Decide(t, "done")
         \/ /\ Ends(t, "threw")
            /\ UNCHANGED <<live, count, value, ref, size>>
      /\ UNCHANGED <<call, arg>>

-----------------------------------------------------------------------------
\* The first is_unique() of a change: a shared bitmap is asked first.
TestUnique(t) ==
  /\ pc[t] = "count"
  /\ Goto(t, IF SoleReferent(call[t].h) THEN "own" ELSE "ask")
  /\ UNCHANGED <<live, count, value, ref, size, call, arg, outcome>>

\* The question itself, which reads the bitmap and the operand.
Ask(t) ==
  LET c == call[t]
  IN  /\ pc[t] = "ask"
      /\ IF ChangesNothing(c.op, Read(ref[c.h]), Read(arg[t]), c.k)
         THEN Ends(t, Returned(c.op, FALSE))
         ELSE Goto(t, "own") /\ UNCHANGED outcome
      /\ UNCHANGED <<live, count, value, ref, size, call, arg>>

\* What follows take_own(): edit() lets the old block go and makes its editor,
\* any other change is applied to the bitmap.
AfterOwn(c) == IF c.op = "edit" THEN "release" ELSE "change"

\* take_own() on a handle that holds no block: an empty one is made for it.
OwnNew(t) ==
  LET c == call[t]
  IN  /\ pc[t] = "own" /\ ref[c.h] = Null
      /\ \/ \E b \in Blocks :
               /\ Allocated(b, {})
               /\ ref' = [ref EXCEPT ![c.h] = b]
               /\ Goto(t, AfterOwn(c))
               /\ UNCHANGED outcome
         \/ /\ Ends(t, "threw")
            /\ UNCHANGED <<live, count, value, ref>>
      /\ UNCHANGED <<size, call, arg>>

\* A slip: a shared block taken for the handle's own.
OwnUntested(t) ==
  LET c == call[t]
  IN  /\ pc[t] = "own" /\ ref[c.h] # Null
      /\ Goto(t, AfterOwn(c))
      /\ UNCHANGED <<live, count, value, ref, size, call, arg, outcome>>

\* take_own() on a block: its second is_unique().
OwnTest(t) ==
  LET c == call[t]
  IN  /\ pc[t] = "own" /\ ref[c.h] # Null
      /\ Goto(t, IF SoleReferent(c.h) THEN AfterOwn(c) ELSE "copy")
      /\ UNCHANGED <<live, count, value, ref, size, call, arg, outcome>>

\* take_own() on a shared block: the handle gets a copy, the call the pointer
\* (and with it the count) to the old one; when the copy fails nothing changes.
OwnCopy(t) ==
  LET c == call[t]
  IN  /\ pc[t] = "copy"
      /\ \/ \E b \in Blocks :
               /\ Allocated(b, value[ref[c.h]])
               /\ ref' = [ref EXCEPT ![t] = ref[c.h], ![c.h] = b]
               /\ Goto(t, AfterOwn(c))
               /\ UNCHANGED outcome
         \/ /\ Ends(t, "threw")
            /\ UNCHANGED <<live, count, value, ref>>
      /\ UNCHANGED <<size, call, arg>>

\* change( block_->value ), which may fail part way.
Change(t) ==
  LET c    == call[t]
      own  == ref[c.h]
      keys == Combined(c.op, value[own], Read(arg[t]), c.k)
  IN  /\ pc[t] = "change"
      /\ \/ /\ value'  = [value EXCEPT ![own] = keys]
            /\ Decide(t, Returned(c.op, keys # value[own]))
         \/ /\ \E s \in LeftByFailure(c.op, value[own], Read(arg[t]), c.k) :
                  value' = [value EXCEPT ![own] = s]
            /\ Decide(t, "threw")
      /\ Goto(t, "refresh")
      /\ UNCHANGED <<live, count, ref, size, call, arg>>

\* A slip: a change that throws leaves without the refresh.
RefreshUnlessThrown(t) ==
  LET h == call[t].h
  IN  /\ pc[t] = "refresh"
      /\ size' = IF outcome[t] = "threw" THEN size
                 ELSE [size EXCEPT ![h] = Cardinality(Read(ref[h]))]
      /\ Goto(t, IF call[t].op = "edit" THEN "end" ELSE "release")
      /\ UNCHANGED <<live, count, value, ref, call, arg, outcome>>

\* refresh(), from the destructor of change_end or of the editor.
Refresh(t) ==
  LET h == call[t].h
  IN  /\ pc[t] = "refresh"
      /\ size' = [size EXCEPT ![h] = Cardinality(Read(ref[h]))]
      /\ Goto(t, IF call[t].op = "edit" THEN "end" ELSE "release")
      /\ UNCHANGED <<live, count, value, ref, call, arg, outcome>>

\* A write through a live editor, and the end of the editor's life.
EditorWrite(t) ==
  /\ pc[t] = "editor"
  /\ \E k \in Keys, op \in PointOps :
        value' = [value EXCEPT ![ref[call[t].h]] = Combined(op, @, {}, k)]
  /\ UNCHANGED <<live, count, ref, size, pc, call, arg, outcome>>

EditorEnd(t) ==
  /\ pc[t] = "editor"
  /\ Goto(t, "refresh") /\ Decide(t, "done")
  /\ UNCHANGED <<live, count, value, ref, size, call, arg>>

-----------------------------------------------------------------------------
AfterRelease(t) == IF call[t].op = "edit" THEN "editor" ELSE "end"

\* rc_decrement_is_last: a count of one is not decremented at all.
Release(t) ==
  /\ pc[t] = "release"
  /\ Goto(t, IF ref[t] = Null THEN AfterRelease(t)
             ELSE IF count[ref[t]] = 1 THEN "free" ELSE "subtract")
  /\ UNCHANGED <<live, count, value, ref, size, call, arg, outcome>>

\* A slip: only the load decides who is last.
SubtractNeverLast(t) ==
  /\ pc[t] = "subtract"
  /\ count' = [count EXCEPT ![ref[t]] = @ - 1]
  /\ ref'   = [ref EXCEPT ![t] = Null]
  /\ Goto(t, AfterRelease(t))
  /\ UNCHANGED <<live, value, size, call, arg, outcome>>

\* Otherwise fetch_sub: the call that takes the count from one to zero is last.
Subtract(t) ==
  /\ pc[t] = "subtract"
  /\ count' = [count EXCEPT ![ref[t]] = @ - 1]
  /\ IF count[ref[t]] = 1
     THEN Goto(t, "free") /\ UNCHANGED ref
     ELSE Goto(t, AfterRelease(t)) /\ ref' = [ref EXCEPT ![t] = Null]
  /\ UNCHANGED <<live, value, size, call, arg, outcome>>

\* delete held.
Free(t) ==
  /\ pc[t] = "free"
  /\ live'  = live \ {ref[t]}
  /\ count' = [count EXCEPT ![ref[t]] = 0]
  /\ value' = [value EXCEPT ![ref[t]] = {}]
  /\ ref'   = [ref EXCEPT ![t] = Null]
  /\ Goto(t, AfterRelease(t))
  /\ UNCHANGED <<size, call, arg, outcome>>

Return(t) ==
  /\ pc[t] = "end"
  /\ Goto(t, "idle")
  /\ call'   = [call EXCEPT ![t] = NoCall]
  /\ arg'    = [arg EXCEPT ![t] = Null]
  /\ outcome' = [outcome EXCEPT ![t] = "none"]
  /\ UNCHANGED <<live, count, value, ref, size>>

-----------------------------------------------------------------------------
\* Every step of a call but its start and the writes through an editor.
Step(t) == \/ Enter(t) \/ Clear(t) \/ Share(t) \/ Move(t) \/ Swap(t) \/ Make(t)
           \/ TestUnique(t) \/ Ask(t) \/ OwnNew(t) \/ OwnTest(t) \/ OwnCopy(t)
           \/ Change(t) \/ Refresh(t) \/ EditorEnd(t)
           \/ Release(t) \/ Subtract(t) \/ Free(t) \/ Return(t)

Next == \E t \in Threads : Begin(t) \/ EditorWrite(t) \/ Step(t)

Spec == Init /\ [][Next]_vars

\* A thread in a call goes on with it.
FairSpec == Spec /\ \A t \in Threads : WF_vars(Step(t))

-----------------------------------------------------------------------------
(* What must hold of the handles, and the inductive invariants it is proved from. *)

\* The blocks, handles and calls hold values of their types; so size_ never goes
\* below zero and no count below none (shared_bitmap.hpp, cow_policy.hpp).
TypeOK ==
  /\ live    \subseteq Blocks
  /\ count   \in [Blocks -> Nat]
  /\ value   \in [Blocks -> SUBSET Keys]
  /\ ref     \in [Holder -> Pointer]
  /\ size    \in [Handles -> Nat]
  /\ pc      \in [Threads -> Pcs]
  /\ call    \in [Threads -> Call \cup {NoCall}]
  /\ arg     \in [Threads -> Pointer]
  /\ outcome \in [Threads -> Outcomes]

\* A block a call has decided to delete.
Doomed == {ref[t] : t \in {u \in Threads : pc[u] = "free"}}
Holders(b) == {x \in Holder : ref[x] = b}

\* The count of every bitmap is the number of pointers that hold it, until a
\* call has found it is the last to let it go (rc_construct, rc_increment and
\* rc_decrement_is_last, in every order the calls of the threads give).
CountsHolders ==
  \A b \in live \ Doomed : count[b] = Cardinality(Holders(b))

\* A block is deleted once, by a call that nobody else reaches it from: a load
\* of a count of one decides the same as a decrement from one would.
FreedByTheLast ==
  \A t \in Threads : pc[t] = "free" => Holders(ref[t]) = {t}

\* Calls that still need the operand they were given.
Reading(t) == pc[t] \in {"count", "ask", "own", "copy", "change"}

\* Nobody keeps or reads a block that is deleted: every pointer held, and the
\* operand a call was given, points to a live block.
NoDangling ==
  /\ \A x \in Holder : ref[x] # Null => ref[x] \in live
  /\ \A t \in Threads : Reading(t) /\ arg[t] # Null => arg[t] \in live

\* No block is lost: one that no handle and no call holds has been deleted.
NoLeak == \A b \in live : Holders(b) # {}

Writing(t) == pc[t] \in {"change", "editor"}

\* Who may be looking at a block: the holders of a pointer to it, and the calls
\* that were given it as their operand.
Reaches(b) == Holders(b) \cup {t \in Threads : Reading(t) /\ arg[t] = b}

\* A bitmap is written by a call only while nothing else can reach it but that
\* call and its handle: not another handle, not a thread that is copying it,
\* asking it or reading it as its operand.
WritesOwnBitmapOnly ==
  \A t \in Threads : Writing(t) =>
     Reaches(ref[call[t].h]) \subseteq {t, call[t].h}

\* size() and empty() of a handle no call is changing agree with its bitmap.
SizeIsCardinality ==
  \A h \in Handles :
     (\A t \in Threads : call[t] # NoCall => h \notin Writes(call[t]))
        => size[h] = Cardinality(Read(ref[h]))

\* What a handle holds changes only by a call made on that handle: a change
\* through one handle never shows through another.
ChangedByOwnCall ==
  \A h \in Handles : Read(ref[h])' # Read(ref[h]) =>
     \E t \in Threads : call[t] # NoCall /\ h \in Writes(call[t])
ChangedByOwnCallOnly == [][ChangedByOwnCall]_vars

\* The calls have the results, and the handles the keys, they would have if
\* every handle were a set of its own.
Values == INSTANCE HandleValues WITH val <- [h \in Handles |-> Read(ref[h])]
ImplementsHandleValues == Values!Spec

\* A bitmap that no handle holds is deleted, whoever was the last to let it go.
LetGoIsFreed ==
  \A b \in Blocks : (b \in live /\ \A h \in Handles : ref[h] # b) ~> b \notin live
(***************************************************************************)
(* What holds of the calls in progress, and makes the properties above     *)
(* inductive.                                                              *)
(***************************************************************************)
InCall(t) == pc[t] # "idle"

\* The calls in progress keep the rule of their callers.
CallsCompatible ==
  \A t, u \in Threads : t # u /\ InCall(t) /\ InCall(u) => Compatible(call[t], call[u])

\* What each point of a call knows of its pointers.
CallShape ==
  \A t \in Threads :
     /\ call[t] = NoCall <=> pc[t] = "idle"
     /\ ref[t] # Null => pc[t] \in {"change", "refresh", "release", "subtract", "free"}
     /\ pc[t] \in {"subtract", "free"} => ref[t] # Null
     /\ pc[t] \in {"count", "ask", "copy"} => ref[call[t].h] # Null
     /\ pc[t] \in {"count", "ask", "own", "copy", "change", "refresh", "editor"}
           => call[t].op \notin {"move", "swap", "make", "clear"}
     /\ pc[t] = "refresh" /\ call[t].op = "edit" => ref[t] = Null
     /\ pc[t] \in {"count", "ask", "change"} => call[t].op # "edit"

\* From take_own() on, the handle of a call is the only holder of its block.
OwnsItsBlock(t) == \/ pc[t] \in {"change", "editor"}
                   \/ pc[t] \in {"release", "subtract", "free"} /\ call[t].op = "edit"
SoleHolder ==
  \A t \in Threads : OwnsItsBlock(t) =>
     ref[call[t].h] # Null /\ Holders(ref[call[t].h]) = {call[t].h}

\* The operand of a call is held by the handle it came from or, when that is
\* the handle being changed, by the call itself.
OperandHeld ==
  \A t \in Threads : Reading(t) /\ arg[t] # Null =>
     \/ arg[t] = ref[call[t].g]
     \/ call[t].g = call[t].h /\ arg[t] = ref[t]

CountPositive == \A b \in live \ Doomed : count[b] >= 1

HeldIsLive == \A x \in Holder : ref[x] # Null => ref[x] \in live

IInv == /\ TypeOK /\ CallsCompatible /\ CallShape /\ SoleHolder /\ OperandHeld
        /\ CountPositive /\ HeldIsLive /\ CountsHolders /\ FreedByTheLast

(***************************************************************************)
(* What holds of the values besides, and makes a call take effect in one   *)
(* step.                                                                   *)
(***************************************************************************)
\* The operations that come to each point of a call.
CallOps ==
  \A t \in Threads :
     /\ pc[t] \in {"count", "ask", "own", "copy", "change", "refresh"}
           => call[t].op \in PointOps \cup BinaryOps \cup {"edit"}
     /\ pc[t] \in {"count", "ask"} => call[t].op \notin {"xor", "xor_raw"}
     /\ pc[t] = "editor" => call[t].op = "edit"

\* The result of a call is decided when it has taken effect: an edit when its
\* editor ends, any other call before it lets go of a block.
Undecided(t) ==
  \/ pc[t] \in {"idle", "enter", "count", "ask", "own", "copy", "change", "editor"}
  \/ pc[t] \in {"release", "subtract", "free"} /\ call[t].op = "edit"
DecidedOnce == \A t \in Threads : outcome[t] = "none" <=> Undecided(t)

\* A size is stale only between a change of the bitmap and the refresh.
Stale(t) == pc[t] \in {"editor", "refresh"}
SizesFresh ==
  \A h \in Handles :
     (\A t \in Threads : Stale(t) => call[t].h # h) => size[h] = Cardinality(Read(ref[h]))

\* The operand of a call keeps the keys of the handle it came from, though that
\* handle may be given a copy of its own meanwhile.
OperandIsRead ==
  \A t \in Threads : Reading(t) /\ call[t].op \in BinaryOps =>
     Read(arg[t]) = Read(ref[call[t].g])

VInv == IInv /\ CallOps /\ DecidedOnce /\ SizesFresh /\ OperandIsRead
=============================================================================
