------------------------- MODULE SharedBitmapProofs -------------------------
(***************************************************************************)
(* The invariants of SharedBitmap for every set of threads, handles, keys  *)
(* and addresses.                                                          *)
(***************************************************************************)
EXTENDS SharedBitmap, FiniteSetTheorems, TLAPS

\* The actions that allocate, free or move a counted pointer.
Moving(t) == \/ Clear(t) \/ Share(t) \/ Move(t) \/ Swap(t) \/ Make(t)
             \/ OwnNew(t) \/ OwnCopy(t) \/ Subtract(t) \/ Free(t)

\* The actions that neither allocate, nor free, nor move a counted pointer.
Still(t) == \/ Begin(t) \/ Enter(t) \/ TestUnique(t) \/ Ask(t) \/ OwnTest(t)
            \/ Change(t) \/ Refresh(t) \/ EditorWrite(t) \/ EditorEnd(t)
            \/ Release(t) \/ Return(t)

-----------------------------------------------------------------------------
\* A call that is made (on an operand of its own or on its handle's) is a call
\* of the model.
LEMMA DistinctCallsAreCalls == DistinctCalls \subseteq Call
  BY CallAssumption DEF DistinctCalls, Call

\* What a change computes is a set of keys, whole or half done.
LEMMA CombinedType ==
  ASSUME NEW op \in Ops, NEW a \in SUBSET Keys, NEW b \in SUBSET Keys, NEW k \in Keys
  PROVE  /\ Combined(op, a, b, k) \subseteq Keys
         /\ \A s \in LeftByFailure(op, a, b, k) : s \subseteq Keys
<1>1. Combined(op, a, b, k) \subseteq Keys
  BY DEF Combined
<1>2. QED
  BY <1>1 DEF LeftByFailure

\* The keys read through a pointer, the null pointer included.
LEMMA ReadType ==
  ASSUME TypeOK, NEW p \in Pointer
  PROVE  Read(p) \subseteq Keys
  BY DEF TypeOK, Read, Pointer

-----------------------------------------------------------------------------
\* A handle starts with a null pointer and a size of zero (the default
\* constructor): every variable has its type.
LEMMA TypeInit == Init => TypeOK
  BY DEF Init, TypeOK, Pointer, Pcs, Outcomes

\* The steps that change no pointer keep the types: the counts, the values, the
\* sizes and the places in the code of add, remove, the set operations and edit.
LEMMA TypeStill ==
  ASSUME TypeOK, CallShape, NEW t \in Threads, Still(t)
  PROVE  TypeOK'
<1> USE DEF TypeOK, Goto, Decide, Ends
<1>1. CASE Begin(t)
  BY <1>1, DistinctCallsAreCalls DEF Begin, Pcs
<1>2. CASE Enter(t)
  <2>1. call[t] \in Call
    BY <1>2 DEF Enter, CallShape
  <2>2. call[t].g \in Handles
    BY <2>1 DEF Call
  <2>3. FirstStep(call[t]) \in Pcs /\ Returned(call[t].op, FALSE) \in Outcomes
    BY DEF FirstStep, Pcs, Returned, Outcomes
  <2>4. pc' \in [Threads -> Pcs] /\ outcome' \in [Threads -> Outcomes] /\ arg' \in [Threads -> Pointer]
    BY <1>2, <2>2, <2>3 DEF Enter, Pcs, Pointer, Holder
  <2>5. QED
    BY <1>2, <2>4 DEF Enter
<1>3. CASE TestUnique(t)
  BY <1>3 DEF TestUnique, Pcs
<1>4. CASE Ask(t)
  BY <1>4 DEF Ask, Pcs, Returned, Outcomes
<1>5. CASE OwnTest(t)
  BY <1>5 DEF OwnTest, Pcs, AfterOwn
<1>6. CASE Change(t)
  <2>1. call[t] \in Call /\ arg[t] \in Pointer
    BY <1>6 DEF Change, CallShape
  <2> DEFINE own == ref[call[t].h]
  <2>2. own \in Pointer
    BY <2>1 DEF Call, Holder
  <2>3. CASE own \in Blocks
    <3>1. value[own] \in SUBSET Keys /\ Read(arg[t]) \in SUBSET Keys
      BY <2>1, <2>3, ReadType
    <3>2. call[t].op \in Ops /\ call[t].k \in Keys
      BY <2>1 DEF Call
    <3>3. /\ Combined(call[t].op, value[own], Read(arg[t]), call[t].k) \in SUBSET Keys
          /\ LeftByFailure(call[t].op, value[own], Read(arg[t]), call[t].k)
                \subseteq SUBSET Keys
      BY <3>1, <3>2, CombinedType
    <3>4. \E s \in SUBSET Keys : value' = [value EXCEPT ![own] = s]
      BY <1>6, <3>3 DEF Change
    <3>5. QED
      BY <1>6, <2>3, <3>4 DEF Change, Pcs, Returned, Outcomes
  <2>4. CASE own \notin Blocks
    <3>1. value' = value
      BY <1>6, <2>4 DEF Change
    <3>2. QED
      BY <1>6, <3>1 DEF Change, Pcs, Returned, Outcomes
  <2>5. QED
    BY <2>3, <2>4
<1>7. CASE Refresh(t)
  <2>1. call[t].h \in Handles
    BY <1>7 DEF Refresh, CallShape, Call
  <2>2. Read(ref[call[t].h]) \subseteq Keys
    BY <2>1, ReadType DEF Holder
  <2>3. Cardinality(Read(ref[call[t].h])) \in Nat
    BY <2>2, KeyAssumption, FS_Subset, FS_CardinalityType
  <2>4. QED
    BY <1>7, <2>3 DEF Refresh, Pcs
<1>8. CASE EditorWrite(t)
  <2> DEFINE own == ref[call[t].h]
  <2>1. ASSUME own \in Blocks
        PROVE  \E s \in SUBSET Keys : value' = [value EXCEPT ![own] = s]
    <3>1. PICK k \in Keys, op \in PointOps :
             value' = [value EXCEPT ![own] = Combined(op, value[own], {}, k)]
      BY <1>8 DEF EditorWrite
    <3>2. Combined(op, value[own], {}, k) \in SUBSET Keys
      BY <2>1, CombinedType DEF PointOps, Ops
    <3>3. QED
      BY <3>1, <3>2
  <2>2. value' \in [Blocks -> SUBSET Keys]
    BY <1>8, <2>1 DEF EditorWrite
  <2>3. QED
    BY <1>8, <2>2 DEF EditorWrite
<1>9. CASE EditorEnd(t)
  BY <1>9 DEF EditorEnd, Pcs, Outcomes
<1>10. CASE Release(t)
  BY <1>10 DEF Release, Pcs, AfterRelease
<1>11. CASE Return(t)
  BY <1>11 DEF Return, Pcs, Outcomes, Pointer
<1>12. QED
  BY <1>1, <1>2, <1>3, <1>4, <1>5, <1>6, <1>7, <1>8, <1>9, <1>10, <1>11 DEF Still
-----------------------------------------------------------------------------
\* A block is held by finitely many handles and calls.
LEMMA HoldersFinite ==
  ASSUME NEW b
  PROVE  IsFiniteSet(Holders(b)) /\ Cardinality(Holders(b)) \in Nat
<1>1. IsFiniteSet(Holder)
  BY HolderAssumption, FS_Union DEF Holder
<1>2. Holders(b) \in SUBSET Holder
  BY DEF Holders
<1>3. QED
  BY <1>1, <1>2, FS_Subset, FS_CardinalityType

\* A pointer that is not being deleted points to a block that is counted; and
\* when the count is one, its holder is the only one.
LEMMA HeldIsCounted ==
  ASSUME IInv, NEW x \in Holder, ref[x] # Null, x \in Threads => pc[x] # "free"
  PROVE  /\ ref[x] \in live \ Doomed
         /\ count[ref[x]] = Cardinality(Holders(ref[x])) /\ count[ref[x]] >= 1
         /\ count[ref[x]] = 1 => Holders(ref[x]) = {x}
<1>1. ref[x] \in live
  BY DEF IInv, HeldIsLive
<1>2. x \in Holders(ref[x])
  BY DEF Holders
<1>3. ref[x] \notin Doomed
  <2>1. SUFFICES ASSUME NEW u \in Threads, pc[u] = "free", ref[u] = ref[x]
                 PROVE  FALSE
    BY DEF Doomed
  <2>2. Holders(ref[u]) = {u}
    BY <2>1 DEF IInv, FreedByTheLast
  <2>3. QED
    BY <1>2, <2>1, <2>2
<1>4. count[ref[x]] = Cardinality(Holders(ref[x])) /\ count[ref[x]] >= 1
  BY <1>1, <1>3 DEF IInv, CountsHolders, CountPositive
<1>5. ASSUME count[ref[x]] = 1 PROVE Holders(ref[x]) = {x}
  <2>1. PICK y : Holders(ref[x]) = {y}
    BY <1>4, <1>5, HoldersFinite, FS_Singleton
  <2>2. QED
    BY <1>2, <2>1
<1>6. QED
  BY <1>1, <1>3, <1>4, <1>5

\* The steps that move pointers (copy, move, swap, release, make_block) keep the
\* types.
LEMMA TypeMoving ==
  ASSUME IInv, NEW t \in Threads, Moving(t)
  PROVE  TypeOK'
<1> USE DEF TypeOK, Goto, Decide, Ends
<1>1. TypeOK /\ call[t] \in Call /\ t \in Holder
  <2>1. TypeOK /\ pc[t] # "idle"
    BY DEF IInv, Moving, Clear, Share, Move, Swap, Make, OwnNew, OwnCopy, Subtract, Free
  <2>2. QED
    BY <2>1 DEF IInv, CallShape, Holder
<1>2. /\ call[t].h \in Handles /\ call[t].g \in Handles /\ call[t].k \in Keys
      /\ call[t].h \in Holder  /\ call[t].g \in Holder
  BY <1>1 DEF Call, Holder
<1>3. CASE Clear(t)
  BY <1>1, <1>2, <1>3 DEF Clear, Pcs, Outcomes, Pointer
<1>4. CASE Share(t)
  BY <1>1, <1>2, <1>4 DEF Share, Pcs, Outcomes, Pointer
<1>5. CASE Move(t)
  BY <1>1, <1>2, <1>5 DEF Move, Pcs, Outcomes, Pointer
<1>6. CASE Swap(t)
  BY <1>1, <1>2, <1>6 DEF Swap, Pcs, Outcomes, Pointer
<1>7. CASE Make(t)
  BY <1>1, <1>2, <1>7 DEF Make, Allocated, Pcs, Outcomes, Pointer
<1>8. CASE OwnNew(t)
  BY <1>1, <1>2, <1>8 DEF OwnNew, Allocated, AfterOwn, Pcs, Outcomes, Pointer
<1>9. CASE OwnCopy(t)
  <2>1. ref[call[t].h] \in Blocks
    BY <1>1, <1>2, <1>9 DEF OwnCopy, IInv, CallShape, Pointer
  <2>2. value[ref[call[t].h]] \in SUBSET Keys
    BY <1>1, <2>1
  <2>3. QED
    BY <1>1, <1>2, <2>2, <1>9 DEF OwnCopy, Allocated, AfterOwn, Pcs, Outcomes, Pointer
<1>10. CASE Subtract(t)
  <2>1. ref[t] \in live /\ count[ref[t]] >= 1
    BY <1>1, <1>10, HeldIsCounted DEF Subtract, IInv, CallShape
  <2>2. QED
    BY <1>1, <2>1, <1>10 DEF Subtract, AfterRelease, Pcs, Pointer
<1>11. CASE Free(t)
  BY <1>1, <1>11 DEF Free, AfterRelease, Pcs, Pointer
<1>12. QED
  BY <1>3, <1>4, <1>5, <1>6, <1>7, <1>8, <1>9, <1>10, <1>11 DEF Moving
-----------------------------------------------------------------------------
\* Only a call that starts joins those in progress, and its guard compares it
\* with every one of them.
LEMMA CompatibleStep ==
  ASSUME IInv, NEW t \in Threads, Begin(t) \/ EditorWrite(t) \/ Step(t)
  PROVE  CallsCompatible'
<1>1. TypeOK /\ CallsCompatible /\ CallShape
  BY DEF IInv
<1>2. CASE Begin(t)
  <2>1. PICK c \in DistinctCalls :
           /\ \A u \in Threads : call[u] # NoCall => Compatible(c, call[u])
           /\ call' = [call EXCEPT ![t] = c]
    BY <1>2 DEF Begin
  <2>2. pc' = [pc EXCEPT ![t] = "enter"]
    BY <1>2 DEF Begin, Goto
  <2>3. SUFFICES ASSUME NEW u \in Threads, NEW v \in Threads, u # v, InCall(u)', InCall(v)'
                 PROVE  Compatible(call[u], call[v])'
    BY DEF CallsCompatible
  <2>4. \A w \in Threads \ {t} : InCall(w)' => InCall(w) /\ call[w] # NoCall /\ call'[w] = call[w]
    BY <1>1, <2>1, <2>2 DEF InCall, CallShape, TypeOK
  <2>5. call'[t] = c
    BY <1>1, <2>1 DEF TypeOK
  <2>6. CASE u = t
    BY <2>1, <2>3, <2>4, <2>5, <2>6 DEF Compatible
  <2>7. CASE v = t
    BY <2>1, <2>3, <2>4, <2>5, <2>7 DEF Compatible
  <2>8. CASE u # t /\ v # t
    BY <1>1, <2>3, <2>4, <2>8 DEF CallsCompatible
  <2>9. QED
    BY <2>6, <2>7, <2>8
<1>3. CASE Return(t)
  BY <1>1, <1>3 DEF Return, Goto, CallsCompatible, InCall, TypeOK
<1>4. CASE EditorWrite(t) \/ (Step(t) /\ ~Return(t))
  <2>1. UNCHANGED call
    BY <1>4 DEF EditorWrite, Step, Enter, Clear, Share, Move, Swap, Make, TestUnique, Ask,
                OwnNew, OwnTest, OwnCopy, Change, Refresh, EditorEnd, Release, Subtract, Free
  <2>2. InCall(t)
    BY <1>4 DEF EditorWrite, Step, Enter, Clear, Share, Move, Swap, Make, TestUnique, Ask,
                OwnNew, OwnTest, OwnCopy, Change, Refresh, EditorEnd, Release, Subtract, Free,
                InCall
  <2>3. \A u \in Threads \ {t} : pc'[u] = pc[u]
    BY <1>1, <1>4
       DEF EditorWrite, Step, Enter, Clear, Share, Move, Swap, Make, TestUnique, Ask,
           OwnNew, OwnTest, OwnCopy, Change, Refresh, EditorEnd, Release, Subtract, Free,
           Goto, Ends, TypeOK
  <2>4. QED
    BY <1>1, <2>1, <2>2, <2>3 DEF CallsCompatible, InCall
<1>5. QED
  BY <1>2, <1>3, <1>4

\* A call changes the pointer of no handle but the ones it writes, and the
\* place in the program of no other call.
LEMMA Frame ==
  ASSUME IInv, NEW t \in Threads, Begin(t) \/ EditorWrite(t) \/ Step(t)
  PROVE  /\ \A x \in Holder \ {t} : ref'[x] # ref[x] =>
                InCall(t) /\ x \in Writes(call[t])
         /\ \A u \in Threads \ {t} :
                pc'[u] = pc[u] /\ call'[u] = call[u] /\ arg'[u] = arg[u]
<1> USE DEF Goto, Decide, Ends
<1>1. TypeOK /\ CallShape
  BY DEF IInv
<1>2. \A u \in Threads \ {t} : pc'[u] = pc[u] /\ call'[u] = call[u] /\ arg'[u] = arg[u]
  BY <1>1 DEF Begin, EditorWrite, Step, Enter, Clear, Share, Move, Swap, Make, TestUnique,
              Ask, OwnNew, OwnTest, OwnCopy, Change, Refresh, EditorEnd, Release, Subtract,
              Free, Return, TypeOK
<1>3. ASSUME NEW x \in Holder \ {t}, ref'[x] # ref[x]
      PROVE  InCall(t) /\ x \in Writes(call[t])
  BY <1>1, <1>3 DEF Begin, EditorWrite, Step, Enter, Clear, Share, Move, Swap, Make, TestUnique,
              Ask, OwnNew, OwnTest, OwnCopy, Change, Refresh, EditorEnd, Release, Subtract,
              Free, Return, TypeOK, InCall, Writes
<1>4. QED
  BY <1>2, <1>3

\* So what another call uses stays as it is.
LEMMA OthersUntouched ==
  ASSUME IInv, NEW t \in Threads, Begin(t) \/ EditorWrite(t) \/ Step(t),
         NEW u \in Threads \ {t}, InCall(u)
  PROVE  /\ call[u] \in Call
         /\ ref'[u] = ref[u] /\ ref'[call[u].h] = ref[call[u].h] /\ ref'[call[u].g] = ref[call[u].g]
<1>1. call[u] \in Call
  BY DEF IInv, TypeOK, CallShape, InCall
<1>2. call[u].h \in Handles /\ call[u].g \in Handles
  BY <1>1 DEF Call
<1>3. ref'[u] = ref[u]
  <2>1. InCall(t) => call[t] \in Call
    BY DEF IInv, TypeOK, CallShape, InCall
  <2>2. InCall(t) => Writes(call[t]) \subseteq Handles
    BY <2>1 DEF Writes, Call
  <2>3. QED
    BY <2>2, Frame, HolderAssumption DEF Holder
<1>4. ASSUME NEW x \in Handles, x \in Uses(call[u]) PROVE ref'[x] = ref[x]
  <2>1. x \in Holder \ {t}
    BY HolderAssumption DEF Holder
  <2>2. InCall(t) => x \notin Writes(call[t])
    BY <1>4 DEF IInv, CallsCompatible, Compatible
  <2>3. QED
    BY <2>1, <2>2, Frame
<1>5. QED
  BY <1>1, <1>2, <1>3, <1>4 DEF Uses

\* Every action leaves its call at a point whose pointers are as that point
\* expects them, and the other calls at theirs.
LEMMA ShapeStep ==
  ASSUME IInv, NEW t \in Threads, Begin(t) \/ EditorWrite(t) \/ Step(t)
  PROVE  CallShape'
<1> USE DEF Goto, Decide, Ends
<1>1. TypeOK /\ CallShape
  BY DEF IInv
<1>2. TypeOK'
  BY TypeStill, TypeMoving DEF IInv, Step, Still, Moving
<1> DEFINE Shape(u) ==
       /\ call[u] = NoCall <=> pc[u] = "idle"
       /\ ref[u] # Null => pc[u] \in {"change", "refresh", "release", "subtract", "free"}
       /\ pc[u] \in {"subtract", "free"} => ref[u] # Null
       /\ pc[u] \in {"count", "ask", "copy"} => ref[call[u].h] # Null
       /\ pc[u] \in {"count", "ask", "own", "copy", "change", "refresh", "editor"}
             => call[u].op \notin {"move", "swap", "make", "clear"}
       /\ pc[u] = "refresh" /\ call[u].op = "edit" => ref[u] = Null
       /\ pc[u] \in {"count", "ask", "change"} => call[u].op # "edit"
<1>3. Shape(t)
  BY <1>1 DEF CallShape
<1>4. ASSUME NEW u \in Threads \ {t} PROVE Shape(u)'
  <2>1. Shape(u)
    BY <1>1 DEF CallShape
  <2>2. pc'[u] = pc[u] /\ call'[u] = call[u]
    BY Frame
  <2>3. CASE InCall(u)
    BY <2>1, <2>2, <2>3, OthersUntouched
  <2>4. CASE ~InCall(u)
    <3>1. ref'[u] = ref[u]
      <4>1. InCall(t) => call[t] \in Call
        BY <1>1 DEF TypeOK, CallShape, InCall
      <4>2. InCall(t) => Writes(call[t]) \subseteq Handles
        BY <4>1 DEF Writes, Call
      <4>3. QED
        BY <4>2, Frame, HolderAssumption DEF Holder
    <3>2. QED
      BY <2>1, <2>2, <2>4, <3>1 DEF InCall
  <2>5. QED
    BY <2>3, <2>4
<1>5. Shape(t)'
  <2>1. CASE Begin(t)
    BY <1>1, <1>2, <1>3, <2>1, DistinctCallsAreCalls, CallAssumption DEF Begin, TypeOK, Holder, Call, DistinctCalls
  <2>2. CASE Enter(t)
    BY <1>1, <1>2, <1>3, <2>2 DEF Enter, TypeOK, Holder, Call, FirstStep, PointOps, BinaryOps, HandleOps, RawOps
  <2>3. CASE Clear(t)
    BY <1>1, <1>2, <1>3, <2>3 DEF Clear, TypeOK, Holder, Call, Clears, HandleOps, RawOps
  <2>4. CASE Share(t)
    BY <1>1, <1>2, <1>3, <2>4 DEF Share, TypeOK, Holder, Call, Shares
  <2>5. CASE Move(t)
    BY <1>1, <1>2, <1>3, <2>5 DEF Move, TypeOK, Holder, Call
  <2>6. CASE Swap(t)
    BY <1>1, <1>2, <1>3, <2>6, HolderAssumption DEF Swap, TypeOK, Holder, Call
  <2>7. CASE Make(t)
    BY <1>1, <1>2, <1>3, <2>7 DEF Make, TypeOK, Holder, Call, Allocated
  <2>8. CASE TestUnique(t)
    BY <1>1, <1>2, <1>3, <2>8 DEF TestUnique, TypeOK, Holder, Call
  <2>9. CASE Ask(t)
    BY <1>1, <1>2, <1>3, <2>9 DEF Ask, TypeOK, Holder, Call
  <2>10. CASE OwnNew(t)
    BY <1>1, <1>2, <1>3, <2>10 DEF OwnNew, TypeOK, Holder, Call, Allocated, AfterOwn
  <2>11. CASE OwnTest(t)
    BY <1>1, <1>2, <1>3, <2>11 DEF OwnTest, TypeOK, Holder, Call, AfterOwn
  <2>12. CASE OwnCopy(t)
    BY <1>1, <1>2, <1>3, <2>12 DEF OwnCopy, TypeOK, Holder, Call, Allocated, AfterOwn
  <2>13. CASE Change(t)
    BY <1>1, <1>2, <1>3, <2>13 DEF Change, TypeOK, Holder, Call
  <2>14. CASE Refresh(t)
    BY <1>1, <1>2, <1>3, <2>14 DEF Refresh, TypeOK, Holder, Call
  <2>15. CASE EditorWrite(t)
    BY <1>1, <1>2, <1>3, <2>15 DEF EditorWrite, TypeOK, Holder, Call
  <2>16. CASE EditorEnd(t)
    BY <1>1, <1>2, <1>3, <2>16 DEF EditorEnd, TypeOK, Holder, Call
  <2>17. CASE Release(t)
    BY <1>1, <1>2, <1>3, <2>17 DEF Release, TypeOK, Holder, Call, AfterRelease
  <2>18. CASE Subtract(t)
    BY <1>1, <1>2, <1>3, <2>18 DEF Subtract, TypeOK, Holder, Call, AfterRelease
  <2>19. CASE Free(t)
    BY <1>1, <1>2, <1>3, <2>19 DEF Free, TypeOK, Holder, Call, AfterRelease
  <2>20. CASE Return(t)
    BY <1>1, <1>2, <1>3, <2>20 DEF Return, TypeOK, Holder, Call
  <2>21. QED
    BY <2>1, <2>2, <2>3, <2>4, <2>5, <2>6, <2>7, <2>8, <2>9, <2>10, <2>11, <2>12, <2>13, <2>14, <2>15, <2>16, <2>17, <2>18, <2>19, <2>20 DEF Step
<1>6. QED
  BY <1>4, <1>5 DEF CallShape
-----------------------------------------------------------------------------
\* Where the pointer a holder has after a step comes from: it had it, a handle
\* of the call had it, or it is null or fresh from the allocator.
LEMMA MovedFrom ==
  ASSUME IInv, NEW t \in Threads, Begin(t) \/ EditorWrite(t) \/ Step(t), NEW x \in Holder
  PROVE  \/ ref'[x] = ref[x] \/ ref'[x] = Null \/ ref'[x] \notin live
         \/ InCall(t) /\ \E y \in Uses(call[t]) : ref'[x] = ref[y]
<1> USE DEF InCall, Uses, Allocated
<1>1. ref \in [Holder -> Pointer]
  BY DEF IInv, TypeOK
<1>2. CASE Still(t)
  BY <1>2 DEF Still, Begin, EditorWrite, Enter, TestUnique, Ask, OwnTest, Change, Refresh,
              EditorEnd, Release, Return
<1>3. CASE Clear(t) \/ Share(t) \/ Move(t) \/ Swap(t)
  BY <1>1, <1>3 DEF Clear, Share, Move, Swap
<1>4. CASE Make(t) \/ OwnNew(t) \/ OwnCopy(t)
  BY <1>1, <1>4 DEF Make, OwnNew, OwnCopy
<1>5. CASE Subtract(t) \/ Free(t)
  BY <1>1, <1>5 DEF Subtract, Free
<1>6. QED
  BY <1>2, <1>3, <1>4, <1>5 DEF Step, Still

\* A block that only x holds, where x is neither the thread that steps nor used
\* by its call, is held by x alone after the step.
LEMMA KeptAlone ==
  ASSUME IInv, NEW t \in Threads, Begin(t) \/ EditorWrite(t) \/ Step(t),
         NEW x \in Holder, ref[x] # Null, Holders(ref[x]) = {x},
         x # t, InCall(t) => x \notin Uses(call[t])
  PROVE  ref'[x] = ref[x] /\ Holders(ref[x])' = {x}
<1>1. ref'[x] = ref[x]
  <2>1. InCall(t) => Writes(call[t]) \subseteq Uses(call[t])
    BY DEF Writes, Uses
  <2>2. QED
    BY <2>1, Frame
<1>2. ref[x] \in live
  BY DEF IInv, HeldIsLive
<1>3. ASSUME NEW y \in Holder, ref'[y] = ref[x] PROVE y = x
  <2>1. CASE ref'[y] = ref[y]
    BY <1>3, <2>1 DEF Holders
  <2>2. CASE InCall(t) /\ \E z \in Uses(call[t]) : ref'[y] = ref[z]
    <3>1. PICK z \in Uses(call[t]) : ref'[y] = ref[z]
      BY <2>2
    <3>2. z \in Holder
      BY <2>2, <3>1 DEF IInv, TypeOK, CallShape, InCall, Uses, Call, Holder
    <3>3. z = x
      BY <1>3, <3>1, <3>2 DEF Holders
    <3>4. QED
      BY <2>2, <3>1, <3>3
  <2>3. QED
    BY <1>2, <1>3, <2>1, <2>2, MovedFrom
<1>4. Holders(ref[x])' = {y \in Holder : ref'[y] = ref'[x]}
  BY DEF Holders
<1>5. QED
  BY <1>1, <1>3, <1>4

-----------------------------------------------------------------------------
\* An address from the allocator is held by whoever it was given to, alone.
LEMMA FreshAlone ==
  ASSUME IInv, NEW b \in Blocks \ live, NEW x \in Holder, NEW y \in Holder,
         \/ ref' = [ref EXCEPT ![x] = b]
         \/ x # y /\ ref' = [ref EXCEPT ![y] = ref[x], ![x] = b]
  PROVE  ref'[x] = b /\ Holders(ref[x])' = {x}
<1>1. ref \in [Holder -> Pointer] /\ \A z \in Holder : ref[z] # b
  BY BlockAssumption DEF IInv, TypeOK, HeldIsLive
<1>2. ref'[x] = b /\ \A z \in Holder : ref'[z] = b => z = x
  BY <1>1
<1>3. Holders(ref[x])' = {z \in Holder : ref'[z] = ref'[x]}
  BY DEF Holders
<1>4. QED
  BY <1>2, <1>3

\* The handle of a call that makes its bitmap its own stays its only holder.
LEMMA SoleHolderStep ==
  ASSUME IInv, NEW t \in Threads, Begin(t) \/ EditorWrite(t) \/ Step(t)
  PROVE  SoleHolder'
<1> USE DEF Goto, Decide, Ends
<1>1. TypeOK /\ CallShape /\ SoleHolder
  BY DEF IInv
<1> DEFINE Alone(u) == ref[call[u].h] # Null /\ Holders(ref[call[u].h]) = {call[u].h}
<1>2. ASSUME NEW u \in Threads \ {t}, OwnsItsBlock(u)' PROVE Alone(u)'
  <2>1. pc'[u] = pc[u] /\ call'[u] = call[u]
    BY Frame
  <2>2. OwnsItsBlock(u) /\ InCall(u)
    BY <1>2, <2>1 DEF OwnsItsBlock, InCall
  <2>3. call[u] \in Call /\ call[u].h \in Handles /\ call[u].h \in Holder /\ call[u].h # t
    BY <2>2, OthersUntouched, HolderAssumption DEF Call, Holder
  <2>4. Alone(u)
    BY <1>1, <2>2 DEF SoleHolder
  <2>5. InCall(t) => call[u].h \notin Uses(call[t])
    BY <2>2 DEF IInv, CallsCompatible, Compatible, Writes
  <2>6. ref'[call[u].h] = ref[call[u].h] /\ Holders(ref[call[u].h])' = {call[u].h}
    <3> DEFINE x == call[u].h
    <3>1. ref'[x] = ref[x] /\ {y \in Holder : ref'[y] = ref'[x]} = {x}
      <4>1. ref[x] # Null /\ Holders(ref[x]) = {x}
        BY <2>4
      <4> HIDE DEF x
      <4>2. x \in Holder /\ x # t /\ (InCall(t) => x \notin Uses(call[t]))
        BY <2>3, <2>5 DEF x
      <4>3. QED
        BY <4>1, <4>2, KeptAlone DEF Holders
    <3>2. QED
      BY <2>1, <3>1 DEF Holders
  <2>7. QED
    BY <2>1, <2>4, <2>6
<1>3. ASSUME OwnsItsBlock(t)' PROVE Alone(t)'
  <2>1. InCall(t) /\ call'[t] = call[t] /\ call[t] \in Call
    BY <1>1, <1>3 DEF OwnsItsBlock, Begin, EditorWrite, Step, Enter, Clear, Share, Move, Swap,
       Make, TestUnique, Ask, OwnNew, OwnTest, OwnCopy, Change, Refresh, EditorEnd, Release,
       Subtract, Free, Return, TypeOK, CallShape, InCall
  <2>2. call[t].h \in Handles /\ call[t].h \in Holder /\ t \in Holder /\ call[t].h # t
    BY <2>1, HolderAssumption DEF Call, Holder
  <2> DEFINE h == call[t].h
  <2>3. CASE OwnNew(t)
    <3>1. PICK b \in Blocks : Allocated(b, {}) /\ ref' = [ref EXCEPT ![h] = b]
      BY <1>1, <1>3, <2>3 DEF OwnNew, OwnsItsBlock, TypeOK
    <3>2. b \in Blocks \ live
      BY <3>1 DEF Allocated
    <3> HIDE DEF h
    <3>3. ref'[h] = b /\ {y \in Holder : ref'[y] = ref'[h]} = {h}
      BY <2>2, <3>1, <3>2, FreshAlone DEF h, Holders
    <3>4. QED
      BY <2>1, <3>2, <3>3, BlockAssumption DEF h, Holders
  <2>4. CASE OwnCopy(t)
    <3>1. PICK b \in Blocks \ live : ref' = [ref EXCEPT ![t] = ref[h], ![h] = b]
      BY <1>1, <1>3, <2>4 DEF OwnCopy, OwnsItsBlock, TypeOK, Allocated
    <3> HIDE DEF h
    <3>2. ref'[h] = b /\ {y \in Holder : ref'[y] = ref'[h]} = {h}
      BY <2>2, <3>1, FreshAlone DEF h, Holders
    <3>3. QED
      BY <2>1, <3>1, <3>2, BlockAssumption DEF h, Holders
  <2>5. CASE OwnTest(t)
    <3>1. ref[h] # Null /\ count[ref[h]] = 1 /\ ref' = ref
      BY <1>1, <1>3, <2>5 DEF OwnTest, SoleReferent, OwnsItsBlock, TypeOK
    <3>2. Holders(ref[h]) = {h}
      BY <2>2, <3>1, HeldIsCounted, HolderAssumption
    <3>3. QED
      BY <2>1, <3>1, <3>2 DEF Holders
  <2>6. CASE EditorWrite(t) \/ Release(t)
    <3>1. OwnsItsBlock(t) /\ ref' = ref
      BY <1>1, <1>3, <2>1, <2>6 DEF EditorWrite, Release, OwnsItsBlock, TypeOK, AfterRelease
    <3>2. QED
      BY <1>1, <2>1, <3>1 DEF SoleHolder, Holders
  <2>7. CASE Subtract(t) \/ Free(t)
    <3>1. OwnsItsBlock(t) /\ (ref' = ref \/ ref' = [ref EXCEPT ![t] = Null])
      BY <1>1, <1>3, <2>1, <2>7 DEF Subtract, Free, OwnsItsBlock, TypeOK, AfterRelease
    <3>2. Alone(t)
      BY <1>1, <3>1 DEF SoleHolder
    <3>3. QED
      BY <1>1, <2>1, <2>2, <3>1, <3>2 DEF Holders, TypeOK
  <2>8. CASE \/ Begin(t) \/ Enter(t) \/ Clear(t) \/ Share(t) \/ Move(t) \/ Swap(t) \/ Make(t)
             \/ TestUnique(t) \/ Ask(t) \/ Change(t) \/ Refresh(t) \/ EditorEnd(t) \/ Return(t)
    BY <1>1, <1>3, <2>1, <2>8 DEF OwnsItsBlock, Begin, Enter, FirstStep, Clear, Clears, Share, Shares,
       Move, Swap, Make, TestUnique, Ask, Change, Refresh, EditorEnd, Return, TypeOK, CallShape
  <2>9. QED
    BY <2>3, <2>4, <2>5, <2>6, <2>7, <2>8 DEF Step
<1>4. QED
  BY <1>2, <1>3 DEF SoleHolder

\* The operand of a call stays held until the call has used it.
LEMMA OperandStep ==
  ASSUME IInv, NEW t \in Threads, Begin(t) \/ EditorWrite(t) \/ Step(t)
  PROVE  OperandHeld'
<1> USE DEF Goto, Decide, Ends
<1>1. TypeOK /\ CallShape /\ OperandHeld
  BY DEF IInv
<1> DEFINE Held(u) == \/ arg[u] = ref[call[u].g]
                      \/ call[u].g = call[u].h /\ arg[u] = ref[u]
<1>2. ASSUME NEW u \in Threads \ {t}, Reading(u)', arg'[u] # Null PROVE Held(u)'
  <2>1. pc'[u] = pc[u] /\ call'[u] = call[u] /\ arg'[u] = arg[u]
    BY Frame
  <2>2. Reading(u) /\ InCall(u) /\ Held(u)
    BY <1>1, <1>2, <2>1 DEF OperandHeld, Reading, InCall
  <2>3. QED
    BY <2>1, <2>2, OthersUntouched
<1>3. ASSUME Reading(t)', arg'[t] # Null PROVE Held(t)'
  <2>1. CASE Enter(t)
    BY <1>1, <1>3, <2>1 DEF Enter, Reading, TypeOK
  <2>2. CASE TestUnique(t) \/ Ask(t) \/ OwnTest(t)
    BY <1>1, <1>3, <2>2 DEF TestUnique, Ask, OwnTest, Reading, OperandHeld, TypeOK
  <2>3. CASE OwnNew(t) \/ OwnCopy(t)
    <3>1. Reading(t) /\ Held(t) /\ call' = call /\ arg' = arg /\ ref[t] = Null
      BY <1>1, <1>3, <2>3 DEF OwnNew, OwnCopy, Reading, OperandHeld, TypeOK, CallShape
    <3>2. call[t] \in Call /\ call[t].h \in Handles /\ call[t].g \in Handles
      BY <1>1, <2>3 DEF OwnNew, OwnCopy, TypeOK, CallShape, Call
    <3>3. QED
      BY <1>1, <1>3, <2>3, <3>1, <3>2, HolderAssumption
         DEF OwnNew, OwnCopy, Allocated, Reading, TypeOK, Holder
  <2>4. CASE ~(Enter(t) \/ TestUnique(t) \/ Ask(t) \/ OwnTest(t) \/ OwnNew(t) \/ OwnCopy(t))
    BY <1>1, <1>3, <2>4 DEF Step, Begin, Clear, Share, Move, Swap, Make, Change, Refresh, EditorEnd,
       EditorWrite, Return, Release, Subtract, Free, AfterRelease, Reading, TypeOK
  <2>5. QED
    BY <2>1, <2>2, <2>3, <2>4
<1>4. QED
  BY <1>2, <1>3 DEF OperandHeld

-----------------------------------------------------------------------------
\* Who deletes a block after a step: a thread that did before, or the one that
\* has just found the count of its pointer to be one.
LEMMA DeleterStep ==
  ASSUME IInv, NEW t \in Threads, Begin(t) \/ EditorWrite(t) \/ Step(t),
         NEW u \in Threads, pc'[u] = "free"
  PROVE  \/ u # t /\ pc[u] = "free" /\ ref'[u] = ref[u]
         \/ /\ u = t /\ (Release(t) \/ Subtract(t)) /\ ref' = ref
            /\ ref[t] # Null /\ pc[t] # "free" /\ count[ref[t]] = 1
<1>1. TypeOK /\ CallShape
  BY DEF IInv
<1>2. CASE u # t
  <2>1. pc[u] = "free"
    BY <1>2, Frame
  <2>2. QED
    BY <1>2, <2>1, OthersUntouched DEF InCall
<1>3. CASE u = t
  BY <1>1, <1>3 DEF Goto, Ends, Step, Begin, Enter, FirstStep, Clear, Share, Move, Swap, Make,
     TestUnique, Ask, OwnNew, OwnTest, OwnCopy, AfterOwn, Change, Refresh, EditorEnd, EditorWrite,
     Return, Release, Subtract, Free, AfterRelease, TypeOK, CallShape
<1>4. QED
  BY <1>2, <1>3

\* release() frees what it alone held: FreedByTheLast is kept by every step.
LEMMA FreedStep ==
  ASSUME IInv, NEW t \in Threads, Begin(t) \/ EditorWrite(t) \/ Step(t)
  PROVE  FreedByTheLast'
<1> SUFFICES ASSUME NEW u \in Threads, pc'[u] = "free"
             PROVE  {x \in Holder : ref'[x] = ref'[u]} = {u}
  BY DEF FreedByTheLast, Holders
<1>1. u \in Holder
  BY DEF Holder
<1>2. CASE u # t /\ pc[u] = "free"
  <2>1. Holders(ref[u]) = {u} /\ ref[u] # Null
    BY <1>2 DEF IInv, FreedByTheLast, CallShape
  <2>2. InCall(t) => u \notin Uses(call[t])
    BY HolderAssumption DEF IInv, TypeOK, CallShape, InCall, Call, Uses
  <2>3. QED
    BY <1>1, <1>2, <2>1, <2>2, KeptAlone DEF Holders
<1>3. CASE u = t /\ ref' = ref /\ ref[t] # Null /\ pc[t] # "free" /\ count[ref[t]] = 1
  BY <1>1, <1>3, HeldIsCounted DEF Holders
<1>4. QED
  BY <1>2, <1>3, DeleterStep

\* A block that survives a step and is not being deleted after it was not being
\* deleted before it.
LEMMA NotDoomedBefore ==
  ASSUME IInv, NEW t \in Threads, Begin(t) \/ EditorWrite(t) \/ Step(t),
         NEW b \in live, b \in live', b \notin Doomed'
  PROVE  b \notin Doomed
<1> SUFFICES ASSUME NEW u \in Threads, pc[u] = "free", ref[u] = b
             PROVE  FALSE
  BY DEF Doomed
<1>1. CASE u = t
  <2>1. Free(t)
    BY <1>1 DEF Step, Begin, Enter, Clear, Share, Move, Swap, Make, TestUnique, Ask, OwnNew, OwnTest,
       OwnCopy, Change, Refresh, EditorEnd, EditorWrite, Return, Release, Subtract
  <2>2. QED
    BY <1>1, <2>1 DEF Free
<1>2. CASE u # t
  <2>1. pc'[u] = "free" /\ ref'[u] = b
    BY <1>2, Frame, OthersUntouched DEF InCall
  <2>2. QED
    BY <2>1 DEF Doomed
<1>3. QED
  BY <1>1, <1>2

\* Every pointer points to a live block after a step: a block is freed only by
\* the call that holds it alone, and a new pointer is one somebody held or fresh.
LEMMA LiveStep ==
  ASSUME IInv, NEW t \in Threads, Begin(t) \/ EditorWrite(t) \/ Step(t)
  PROVE  HeldIsLive'
<1>1. TypeOK /\ HeldIsLive
  BY DEF IInv
<1>2. CASE Still(t)
  BY <1>1, <1>2 DEF HeldIsLive, Still, Begin, Enter, TestUnique, Ask, OwnTest, Change, Refresh,
     EditorEnd, EditorWrite, Return, Release
<1>3. CASE Clear(t) \/ Share(t) \/ Move(t) \/ Swap(t) \/ Subtract(t)
  <2>1. live' = live /\ \A x \in Holder : ref'[x] # Null => \E y \in Holder : ref'[x] = ref[y]
    <3>1. t \in Holder /\ call[t].h \in Holder /\ call[t].g \in Holder
      BY <1>1, <1>3 DEF Clear, Share, Move, Swap, Subtract, IInv, TypeOK, CallShape, Call, Holder
    <3>2. QED
      BY <1>1, <1>3, <3>1 DEF Clear, Share, Move, Swap, Subtract, TypeOK
  <2>2. QED
    BY <1>1, <2>1 DEF HeldIsLive
<1>4. CASE Make(t) \/ OwnNew(t) \/ OwnCopy(t)
  <2>1. t \in Holder /\ call[t].h \in Holder
    BY <1>1, <1>4 DEF Make, OwnNew, OwnCopy, IInv, TypeOK, CallShape, Call, Holder
  <2>2. QED
    BY <1>1, <1>4, <2>1 DEF Make, OwnNew, OwnCopy, Allocated, TypeOK, HeldIsLive
<1>5. CASE Free(t)
  <2>1. \A x \in Holder : ref[x] = ref[t] => x = t
    BY <1>5 DEF IInv, FreedByTheLast, Free, Holders
  <2>2. QED
    BY <1>1, <1>5, <2>1 DEF HeldIsLive, Free, TypeOK
<1>6. QED
  BY <1>2, <1>3, <1>4, <1>5 DEF Step, Still

-----------------------------------------------------------------------------
\* The number of holders when one of them is replaced, added or removed.
LEMMA CardReplace ==
  ASSUME NEW S, IsFiniteSet(S), NEW x \in S, NEW y, y \notin S
  PROVE  Cardinality((S \ {x}) \cup {y}) = Cardinality(S)
<1>1. IsFiniteSet(S \ {x}) /\ Cardinality(S \ {x}) = Cardinality(S) - 1
  BY FS_RemoveElement
<1>2. Cardinality((S \ {x}) \cup {y}) = Cardinality(S \ {x}) + 1
  BY <1>1, FS_AddElement
<1>3. Cardinality(S) \in Nat
  BY FS_CardinalityType
<1>4. QED
  BY <1>1, <1>2, <1>3

\* A block that was there before a step and outlives it is counted after it.
LEMMA CountsStep ==
  ASSUME IInv, NEW t \in Threads, Begin(t) \/ EditorWrite(t) \/ Step(t),
         NEW b \in live, b \in live', b \notin Doomed'
  PROVE  count'[b] = Cardinality(Holders(b)') /\ count'[b] >= 1
<1> DEFINE H  == Holders(b)
           H2 == {x \in Holder : ref'[x] = b}
           h  == call[t].h
           g  == call[t].g
           Same == \A x \in Holder : ref'[x] = b <=> ref[x] = b
<1> USE DEF Goto, Decide, Ends
<1>1. TypeOK /\ CallShape /\ b \in Blocks /\ b # Null /\ t \in Holder
  BY BlockAssumption DEF IInv, TypeOK, Holder
<1>2. count[b] = Cardinality(H) /\ count[b] >= 1 /\ count[b] \in Nat
  BY <1>1, NotDoomedBefore DEF IInv, CountsHolders, CountPositive, TypeOK
<1>3. IsFiniteSet(H) /\ \A x : x \in H <=> x \in Holder /\ ref[x] = b
  BY HoldersFinite DEF Holders
<1>4. Holders(b)' = H2
  BY DEF Holders
<1>5. SUFFICES count'[b] = Cardinality(H2) /\ count'[b] >= 1
  BY <1>4
<1>6. \A x : x \in H2 <=> x \in Holder /\ ref'[x] = b
  OBVIOUS
<1>7. InCall(t) => h \in Handles /\ g \in Handles /\ h \in Holder /\ g \in Holder /\ h # t /\ g # t
  BY <1>1, HolderAssumption DEF TypeOK, CallShape, InCall, Call, Holder
<1> HIDE DEF H, H2
<1>8. ASSUME count'[b] = count[b], Same PROVE count'[b] = Cardinality(H2) /\ count'[b] >= 1
  <2>1. H2 = H
    BY <1>3, <1>6, <1>8
  <2>2. QED
    BY <1>2, <1>8, <2>1
<1>9. ASSUME count'[b] = count[b], NEW x \in H, NEW y, y \notin H, H2 = (H \ {x}) \cup {y}
      PROVE  count'[b] = Cardinality(H2) /\ count'[b] >= 1
  BY <1>2, <1>3, <1>9, CardReplace
<1>10. CASE Still(t)
  <2>1. count' = count /\ ref' = ref
    BY <1>10 DEF Still, Begin, Enter, TestUnique, Ask, OwnTest, Change, Refresh,
       EditorEnd, EditorWrite, Return, Release
  <2>2. Same
    BY <1>3, <1>6, <2>1
  <2>3. QED
    BY <1>8, <2>1, <2>2
<1>11. CASE Clear(t)
  <2>1. /\ count' = count /\ ref' = [ref EXCEPT ![t] = ref[h], ![h] = Null]
        /\ ref[t] = Null /\ InCall(t)
    BY <1>1, <1>11 DEF Clear, CallShape, InCall
  <2>2. CASE ref[h] = b
    <3>1. h \in H /\ t \notin H
      BY <1>1, <1>3, <1>7, <2>1, <2>2
    <3>2. H2 = (H \ {h}) \cup {t}
      BY <1>1, <1>3, <1>6, <1>7, <2>1, <2>2 DEF TypeOK
    <3>3. QED
      BY <1>9, <2>1, <3>1, <3>2
  <2>3. CASE ref[h] # b
    <3>1. Same
      BY <1>1, <1>3, <1>6, <1>7, <2>1, <2>3 DEF TypeOK
    <3>2. QED
      BY <1>8, <2>1, <3>1
  <2>4. QED
    BY <2>2, <2>3
<1>12. CASE Share(t)
  <2>1. /\ ref' = [ref EXCEPT ![t] = ref[h], ![h] = ref[g]]
        /\ ref[t] = Null /\ InCall(t)
        /\ count' = IF ref[g] = Null THEN count ELSE [count EXCEPT ![ref[g]] = @ + 1]
    BY <1>1, <1>12 DEF Share, CallShape, InCall
  <2>2. ASSUME NEW x, x \notin H, H2 = H \cup {x}, ref[g] = b
        PROVE  count'[b] = Cardinality(H2) /\ count'[b] >= 1
    <3>1. count'[b] = count[b] + 1
      BY <1>1, <2>1, <2>2 DEF TypeOK
    <3>2. Cardinality(H2) = Cardinality(H) + 1
      BY <1>3, <2>2, FS_AddElement
    <3>3. QED
      BY <1>2, <3>1, <3>2
  <2>3. CASE ref[g] = b /\ ref[h] = b
    <3>1. t \notin H /\ H2 = H \cup {t}
      BY <1>1, <1>3, <1>6, <1>7, <2>1, <2>3 DEF TypeOK
    <3>2. QED
      BY <2>2, <2>3, <3>1
  <2>4. CASE ref[g] = b /\ ref[h] # b
    <3>1. h \notin H /\ H2 = H \cup {h}
      BY <1>1, <1>3, <1>6, <1>7, <2>1, <2>4 DEF TypeOK
    <3>2. QED
      BY <2>2, <2>4, <3>1
  <2>5. CASE ref[g] # b
    <3>1. count'[b] = count[b]
      BY <1>1, <2>1, <2>5 DEF TypeOK
    <3>2. CASE ref[h] = b
      <4>1. h \in H /\ t \notin H /\ H2 = (H \ {h}) \cup {t}
        BY <1>1, <1>3, <1>6, <1>7, <2>1, <2>5, <3>2 DEF TypeOK
      <4>2. QED
        BY <1>9, <3>1, <4>1
    <3>3. CASE ref[h] # b
      <4>1. Same
        BY <1>1, <1>3, <1>6, <1>7, <2>1, <2>5, <3>3 DEF TypeOK
      <4>2. QED
        BY <1>8, <3>1, <4>1
    <3>4. QED
      BY <3>2, <3>3
  <2>6. QED
    BY <2>3, <2>4, <2>5
<1>13. CASE Move(t)
  <2>1. /\ count' = count /\ ref[t] = Null /\ InCall(t)
        /\ \/ ref' = ref
           \/ g # h /\ ref' = [ref EXCEPT ![t] = ref[h], ![h] = ref[g], ![g] = Null]
    BY <1>1, <1>13 DEF Move, CallShape, InCall
  <2>2. CASE ref' = ref
    BY <1>3, <1>6, <1>8, <2>1, <2>2
  <2>3. CASE g # h /\ ref' = [ref EXCEPT ![t] = ref[h], ![h] = ref[g], ![g] = Null]
    <3>1. CASE ref[h] = b /\ ref[g] = b
      <4>1. g \in H /\ t \notin H /\ H2 = (H \ {g}) \cup {t}
        BY <1>1, <1>3, <1>6, <1>7, <2>1, <2>3, <3>1 DEF TypeOK
      <4>2. QED
        BY <1>9, <2>1, <4>1
    <3>2. CASE ref[h] = b /\ ref[g] # b
      <4>1. h \in H /\ t \notin H /\ H2 = (H \ {h}) \cup {t}
        BY <1>1, <1>3, <1>6, <1>7, <2>1, <2>3, <3>2 DEF TypeOK
      <4>2. QED
        BY <1>9, <2>1, <4>1
    <3>3. CASE ref[h] # b /\ ref[g] = b
      <4>1. g \in H /\ h \notin H /\ H2 = (H \ {g}) \cup {h}
        BY <1>1, <1>3, <1>6, <1>7, <2>1, <2>3, <3>3 DEF TypeOK
      <4>2. QED
        BY <1>9, <2>1, <4>1
    <3>4. CASE ref[h] # b /\ ref[g] # b
      <4>1. Same
        BY <1>1, <1>3, <1>6, <1>7, <2>1, <2>3, <3>4 DEF TypeOK
      <4>2. QED
        BY <1>8, <2>1, <4>1
    <3>5. QED
      BY <3>1, <3>2, <3>3, <3>4
  <2>4. QED
    BY <2>1, <2>2, <2>3
<1>14. CASE Swap(t)
  <2>1. /\ count' = count /\ InCall(t)
        /\ ref' = [ref EXCEPT ![h] = ref[g], ![g] = ref[h]]
    BY <1>14 DEF Swap, InCall
  <2>2. CASE ref[h] = ref[g]
    <3>1. Same
      BY <1>1, <1>3, <1>6, <1>7, <2>1, <2>2 DEF TypeOK
    <3>2. QED
      BY <1>8, <2>1, <3>1
  <2>3. CASE ref[h] # ref[g] /\ ref[h] = b
    <3>1. h \in H /\ g \notin H /\ H2 = (H \ {h}) \cup {g}
      BY <1>1, <1>3, <1>6, <1>7, <2>1, <2>3 DEF TypeOK
    <3>2. QED
      BY <1>9, <2>1, <3>1
  <2>4. CASE ref[h] # ref[g] /\ ref[g] = b
    <3>1. g \in H /\ h \notin H /\ H2 = (H \ {g}) \cup {h}
      BY <1>1, <1>3, <1>6, <1>7, <2>1, <2>4 DEF TypeOK
    <3>2. QED
      BY <1>9, <2>1, <3>1
  <2>5. CASE ref[h] # b /\ ref[g] # b
    <3>1. Same
      BY <1>1, <1>3, <1>6, <1>7, <2>1, <2>5 DEF TypeOK
    <3>2. QED
      BY <1>8, <2>1, <3>1
  <2>6. QED
    BY <2>2, <2>3, <2>4, <2>5
<1>15. CASE Make(t) \/ OwnNew(t) \/ OwnCopy(t)
  <2>1. /\ InCall(t) /\ ref[t] = Null /\ count'[b] = count[b]
        /\ \/ ref' = ref
           \/ \E f \in Blocks \ live :
                 \/ ref' = [ref EXCEPT ![t] = ref[h], ![h] = f]
                 \/ ref[h] = Null /\ ref' = [ref EXCEPT ![h] = f]
    BY <1>1, <1>15 DEF Make, OwnNew, OwnCopy, Allocated, CallShape, InCall, TypeOK
  <2>2. CASE ref' = ref
    BY <1>3, <1>6, <1>8, <2>1, <2>2
  <2>3. ASSUME NEW f \in Blocks \ live, ref' = [ref EXCEPT ![t] = ref[h], ![h] = f]
        PROVE  count'[b] = Cardinality(H2) /\ count'[b] >= 1
    <3>1. CASE ref[h] = b
      <4>1. h \in H /\ t \notin H /\ H2 = (H \ {h}) \cup {t}
        BY <1>1, <1>3, <1>6, <1>7, <2>1, <2>3, <3>1 DEF TypeOK
      <4>2. QED
        BY <1>9, <2>1, <4>1
    <3>2. CASE ref[h] # b
      <4>1. Same
        BY <1>1, <1>3, <1>6, <1>7, <2>1, <2>3, <3>2 DEF TypeOK
      <4>2. QED
        BY <1>8, <2>1, <4>1
    <3>3. QED
      BY <3>1, <3>2
  <2>4. ASSUME NEW f \in Blocks \ live, ref[h] = Null, ref' = [ref EXCEPT ![h] = f]
        PROVE  count'[b] = Cardinality(H2) /\ count'[b] >= 1
    <3>1. Same
      BY <1>1, <1>3, <1>6, <1>7, <2>1, <2>4 DEF TypeOK
    <3>2. QED
      BY <1>8, <2>1, <3>1
  <2>5. QED
    BY <2>1, <2>2, <2>3, <2>4
<1>16. CASE Subtract(t)
  <2>1. ref[t] # Null /\ pc[t] # "free" /\ ref[t] \in Blocks
    BY <1>1, <1>16 DEF Subtract, CallShape, TypeOK, Pointer
  <2>2. count[ref[t]] # 1 \/ b # ref[t]
    <3>1. ASSUME count[ref[t]] = 1 PROVE b # ref[t]
      <4>1. pc'[t] = "free" /\ ref'[t] = ref[t]
        BY <1>1, <1>16, <3>1 DEF Subtract, TypeOK
      <4>2. QED
        BY <4>1 DEF Doomed
    <3>2. QED
      BY <3>1
  <2>3. CASE b = ref[t]
    <3>1. ref' = [ref EXCEPT ![t] = Null] /\ count'[b] = count[b] - 1
      BY <1>1, <1>16, <2>2, <2>3 DEF Subtract, TypeOK
    <3>2. t \in H /\ H2 = H \ {t}
      BY <1>1, <1>3, <1>6, <2>3, <3>1 DEF TypeOK
    <3>3. Cardinality(H2) = Cardinality(H) - 1
      BY <1>3, <3>2, FS_RemoveElement
    <3>4. QED
      BY <1>2, <2>2, <2>3, <3>1, <3>3
  <2>4. CASE b # ref[t]
    <3>1. count'[b] = count[b]
      BY <1>1, <1>16, <2>4 DEF Subtract, TypeOK
    <3>2. Same
      <4>1. ref' = ref \/ ref' = [ref EXCEPT ![t] = Null]
        BY <1>16 DEF Subtract
      <4>2. QED
        BY <1>1, <2>4, <4>1 DEF TypeOK
    <3>3. QED
      BY <1>8, <3>1, <3>2
  <2>5. QED
    BY <2>3, <2>4
<1>17. CASE Free(t)
  <2>1. b # ref[t] /\ count'[b] = count[b] /\ ref' = [ref EXCEPT ![t] = Null]
    BY <1>1, <1>17 DEF Free, TypeOK
  <2>2. Same
    BY <1>1, <1>3, <1>6, <2>1 DEF TypeOK
  <2>3. QED
    BY <1>8, <2>1, <2>2
<1>18. QED
  BY <1>10, <1>11, <1>12, <1>13, <1>14, <1>15, <1>16, <1>17 DEF Step, Still

\* A block a step allocates has one holder and a count of one.
LEMMA FreshCounted ==
  ASSUME IInv, NEW t \in Threads, Begin(t) \/ EditorWrite(t) \/ Step(t),
         NEW b \in live', b \notin live
  PROVE  count'[b] = 1 /\ Cardinality(Holders(b)') = 1
<1>1. TypeOK /\ CallShape
  BY DEF IInv
<1>2. Make(t) \/ OwnNew(t) \/ OwnCopy(t)
  BY DEF Step, Begin, Enter, Clear, Share, Move, Swap, TestUnique, Ask, OwnTest,
         Change, Refresh, EditorEnd, EditorWrite, Return, Release, Subtract, Free
<1> DEFINE h == call[t].h
<1>3. h \in Holder /\ t \in Holder /\ h # t
  BY <1>1, <1>2, HolderAssumption DEF Make, OwnNew, OwnCopy, TypeOK, CallShape, Call, Holder
<1>4. b \in Blocks /\ count'[b] = 1
  BY <1>1, <1>2 DEF Make, OwnNew, OwnCopy, Allocated, TypeOK
<1>5. \/ ref' = [ref EXCEPT ![t] = ref[h], ![h] = b]
      \/ ref' = [ref EXCEPT ![h] = b]
  BY <1>1, <1>2 DEF Make, OwnNew, OwnCopy, Allocated, TypeOK
<1> HIDE DEF h
<1>6. ref'[h] = b /\ {x \in Holder : ref'[x] = ref'[h]} = {h}
  BY <1>3, <1>4, <1>5, FreshAlone DEF Holders
<1>7. Holders(b)' = {h}
  BY <1>6 DEF Holders
<1>8. QED
  BY <1>4, <1>7, FS_Singleton

\* rc_increment and rc_decrement_is_last keep the count the number of holders.
LEMMA CountingStep ==
  ASSUME IInv, NEW t \in Threads, Begin(t) \/ EditorWrite(t) \/ Step(t)
  PROVE  CountPositive' /\ CountsHolders'
<1> SUFFICES ASSUME NEW b \in live', b \notin Doomed'
             PROVE  count'[b] = Cardinality(Holders(b)') /\ count'[b] >= 1
  <2>1. \A b \in live' \ Doomed' : count'[b] = Cardinality({x \in Holder : ref'[x] = b}) /\ count'[b] >= 1
    BY DEF Holders
  <2>2. QED
    BY <2>1 DEF CountPositive, CountsHolders, Holders
<1>1. CASE b \in live
  BY <1>1, CountsStep
<1>2. CASE b \notin live
  BY <1>2, FreshCounted
<1>3. QED
  BY <1>1, <1>2

-----------------------------------------------------------------------------
\* With no block and no call, the inductive invariant holds.
LEMMA InitIInv == Init => IInv
<1> SUFFICES ASSUME Init PROVE IInv
  OBVIOUS
<1>1. TypeOK
  BY TypeInit
<1>2. \A t \in Threads : pc[t] = "idle" /\ call[t] = NoCall /\ arg[t] = Null
  BY DEF Init
<1>3. \A x \in Holder : ref[x] = Null
  BY DEF Init
<1>4. live = {}
  BY DEF Init
<1>5. CallsCompatible /\ SoleHolder /\ OperandHeld /\ FreedByTheLast
  BY <1>2 DEF CallsCompatible, InCall, SoleHolder, OwnsItsBlock, OperandHeld, Reading, FreedByTheLast
<1>6. CallShape
  BY <1>2, <1>3 DEF CallShape, Holder
<1>7. CountPositive /\ HeldIsLive /\ CountsHolders
  BY <1>3, <1>4 DEF CountPositive, HeldIsLive, CountsHolders
<1>8. QED
  BY <1>1, <1>5, <1>6, <1>7 DEF IInv

\* Every step of shared_bitmap keeps the inductive invariant.
LEMMA NextIInv == IInv /\ [Next]_vars => IInv'
<1> SUFFICES ASSUME IInv, [Next]_vars PROVE IInv'
  OBVIOUS
<1>1. CASE UNCHANGED vars
  BY <1>1 DEF vars, IInv, TypeOK, CallsCompatible, InCall, CallShape, SoleHolder, OwnsItsBlock, Holders,
     OperandHeld, Reading, CountPositive, Doomed, HeldIsLive, CountsHolders, FreedByTheLast
<1>2. ASSUME NEW t \in Threads, Begin(t) \/ EditorWrite(t) \/ Step(t) PROVE IInv'
  <2>1. Still(t) \/ Moving(t)
    BY <1>2 DEF Step, Still, Moving
  <2>2. TypeOK'
    BY <2>1, TypeStill, TypeMoving DEF IInv
  <2>3. QED
    BY <1>2, <2>2, CompatibleStep, ShapeStep, SoleHolderStep, OperandStep, CountingStep, LiveStep,
       FreedStep DEF IInv
<1>3. QED
  BY <1>1, <1>2 DEF Next

\* The inductive invariant holds throughout: the counts, the holders and the
\* places of the calls of shared_bitmap fit together.
THEOREM Invariant == Spec => []IInv
  BY InitIInv, NextIInv, PTL DEF Spec

\* Every variable keeps its type.
THEOREM TypeCorrect == Spec => []TypeOK
  BY Invariant, PTL DEF IInv

\* The count of a shared bitmap (rc_increment, rc_decrement_is_last) is the
\* number of handles and calls that hold it, until the last lets it go.
THEOREM CountIsHolders == Spec => []CountsHolders
  BY Invariant, PTL DEF IInv

\* release() deletes a block once, and nobody else can reach it by then.
THEOREM DeletedByTheLast == Spec => []FreedByTheLast
  BY Invariant, PTL DEF IInv

\* No pointer and no operand of a call outlives the block it points to: the
\* block a change copied is kept until the change has ended.
THEOREM NothingDangles == Spec => []NoDangling
<1>1. IInv => NoDangling
  <2> SUFFICES ASSUME IInv PROVE NoDangling
    OBVIOUS
  <2>1. HeldIsLive /\ TypeOK /\ CallShape /\ OperandHeld
    BY DEF IInv
  <2>2. ASSUME NEW t \in Threads, Reading(t), arg[t] # Null PROVE arg[t] \in live
    <3>1. call[t] \in Call
      BY <2>1, <2>2 DEF Reading, CallShape, TypeOK
    <3>2. t \in Holder /\ call[t].g \in Holder
      BY <3>1 DEF Call, Holder
    <3>3. QED
      BY <2>1, <2>2, <3>2 DEF OperandHeld, HeldIsLive
  <2>3. QED
    BY <2>1, <2>2 DEF NoDangling, HeldIsLive
<1>2. QED
  BY <1>1, Invariant, PTL

\* A block nobody holds has been deleted, in whatever order its holders let go.
THEOREM NothingLeaks == Spec => []NoLeak
<1>1. IInv => NoLeak
  <2> SUFFICES ASSUME IInv, NEW b \in live, Holders(b) = {} PROVE FALSE
    BY DEF NoLeak
  <2>1. CASE b \in Doomed
    <3>1. PICK t \in Threads : pc[t] = "free" /\ ref[t] = b
      BY <2>1 DEF Doomed
    <3>2. QED
      BY <3>1 DEF IInv, FreedByTheLast
  <2>2. CASE b \notin Doomed
    BY <2>2, FS_EmptySet DEF IInv, CountPositive, CountsHolders
  <2>3. QED
    BY <2>1, <2>2
<1>2. QED
  BY <1>1, Invariant, PTL

\* The write barrier of the handles: a bitmap is changed, by change_own or
\* through an editor, only while no other handle and no other call reaches it.
THEOREM OwnBitmapWritten == Spec => []WritesOwnBitmapOnly
<1>1. IInv => WritesOwnBitmapOnly
  <2> SUFFICES ASSUME IInv, NEW t \in Threads, Writing(t), NEW x \in Reaches(ref[call[t].h])
               PROVE  x \in {t, call[t].h}
    BY DEF WritesOwnBitmapOnly
  <2> DEFINE h == call[t].h
  <2>1. /\ TypeOK /\ CallShape /\ CallsCompatible /\ OperandHeld
        /\ ref[h] # Null /\ Holders(ref[h]) = {h}
    BY DEF IInv, SoleHolder, OwnsItsBlock, Writing
  <2>2. CASE x \in Holders(ref[h])
    BY <2>1, <2>2
  <2>3. CASE x \in Threads /\ Reading(x) /\ arg[x] = ref[h]
    <3>1. call[x] \in Call /\ InCall(x) /\ InCall(t) /\ call[t] \in Call
      BY <2>1, <2>3 DEF Reading, Writing, CallShape, TypeOK, InCall
    <3>2. x \in Holder /\ call[x].g \in Holder /\ h \in Handles
      BY <2>3, <3>1 DEF Call, Holder
    <3>3. call[x].g = h \/ x = h
      BY <2>1, <2>3, <3>2 DEF OperandHeld, Holders
    <3>4. x = t
      BY <2>1, <2>3, <3>1, <3>2, <3>3, HolderAssumption
         DEF CallsCompatible, Compatible, Writes, Uses
    <3>5. QED
      BY <3>4
  <2>4. QED
    BY <2>2, <2>3 DEF Reaches
<1>2. QED
  BY <1>1, Invariant, PTL

\* Copy on write, seen from the handles: what one holds is changed by a call on
\* it and by nothing else, whoever shares its bitmap.
THEOREM CopiesAreIndependent == Spec => ChangedByOwnCallOnly
<1>1. ASSUME IInv, NEW t \in Threads, Begin(t) \/ EditorWrite(t) \/ Step(t),
             NEW x \in Handles, ~(InCall(t) /\ x \in Writes(call[t]))
      PROVE  Read(ref[x])' = Read(ref[x])
  <2>1. TypeOK /\ CallShape /\ HeldIsLive /\ SoleHolder
    BY <1>1 DEF IInv
  <2>2. x \in Holder \ {t}
    BY HolderAssumption DEF Holder
  <2>3. ref'[x] = ref[x]
    BY <1>1, <2>2, Frame
  <2>4. CASE ref[x] = Null
    BY <2>3, <2>4 DEF Read
  <2>5. CASE ref[x] # Null
    <3>1. ref[x] \in live /\ ref[x] \in Blocks
      BY <2>1, <2>2, <2>5 DEF HeldIsLive, TypeOK
    <3>2. CASE Change(t) \/ EditorWrite(t)
      <4>1. OwnsItsBlock(t) /\ InCall(t) /\ call[t].h \in Writes(call[t])
        BY <3>2 DEF Change, EditorWrite, OwnsItsBlock, InCall, Writes
      <4>2. ref[x] # ref[call[t].h]
        BY <1>1, <2>1, <2>2, <4>1 DEF SoleHolder, Holders
      <4>3. value'[ref[x]] = value[ref[x]]
        BY <2>1, <3>1, <3>2, <4>2 DEF Change, EditorWrite, TypeOK
      <4>4. QED
        BY <2>3, <4>3 DEF Read
    <3>3. CASE Make(t) \/ OwnNew(t) \/ OwnCopy(t)
      BY <2>1, <2>3, <3>1, <3>3 DEF Make, OwnNew, OwnCopy, Allocated, TypeOK, Read
    <3>4. CASE Free(t)
      <4>1. ref[x] # ref[t]
        BY <1>1, <2>2, <3>4 DEF IInv, FreedByTheLast, Free, Holders
      <4>2. QED
        BY <2>1, <2>3, <3>1, <3>4, <4>1 DEF Free, TypeOK, Read
    <3>5. CASE ~(Change(t) \/ EditorWrite(t) \/ Make(t) \/ OwnNew(t) \/ OwnCopy(t) \/ Free(t))
      <4>1. value' = value
        BY <1>1, <3>5 DEF Step, Begin, Enter, Clear, Share, Move, Swap, TestUnique, Ask, OwnTest,
           Refresh, EditorEnd, Return, Release, Subtract
      <4>2. QED
        BY <2>3, <4>1 DEF Read
    <3>6. QED
      BY <3>2, <3>3, <3>4, <3>5
  <2>6. QED
    BY <2>4, <2>5
<1>2. IInv /\ [Next]_vars => [ChangedByOwnCall]_vars
  <2> SUFFICES ASSUME IInv, Next, NEW x \in Handles, Read(ref[x])' # Read(ref[x])
               PROVE  \E t \in Threads : call[t] # NoCall /\ x \in Writes(call[t])
    BY DEF ChangedByOwnCall
  <2>1. PICK t \in Threads : Begin(t) \/ EditorWrite(t) \/ Step(t)
    BY DEF Next
  <2>2. InCall(t) /\ x \in Writes(call[t])
    BY <1>1, <2>1
  <2>3. QED
    BY <2>2 DEF IInv, CallShape, InCall
<1>3. QED
  BY <1>2, Invariant, PTL DEF Spec, ChangedByOwnCallOnly
=============================================================================
