------------------------ MODULE SharedBitmapRefinement ------------------------
(***************************************************************************)
(* shared_bitmap implements HandleValues, and its sizes are the sizes of   *)
(* its bitmaps, for every set of threads, handles, keys and addresses.     *)
(***************************************************************************)
EXTENDS SharedBitmapProofs

\* The step of one thread.
Steps(t) == Begin(t) \/ EditorWrite(t) \/ Step(t)

-----------------------------------------------------------------------------
\* What a handle and a call that is not the one that steps hold stays the same,
\* pointer and keys, unless the call is one that changes that handle.
LEMMA HeldIsKept ==
  ASSUME IInv, NEW t \in Threads, Steps(t), NEW x \in Holder \ {t},
         ~(InCall(t) /\ x \in Writes(call[t]))
  PROVE  ref'[x] = ref[x] /\ Read(ref[x])' = Read(ref[x])
<1>1. TypeOK /\ CallShape /\ HeldIsLive /\ SoleHolder
  BY DEF IInv
<1>2. Begin(t) \/ EditorWrite(t) \/ Step(t)
  BY DEF Steps
<1>3. ref'[x] = ref[x]
  BY <1>2, Frame
<1>4. CASE ref[x] = Null
  BY <1>3, <1>4 DEF Read
<1>5. CASE ref[x] # Null
  <2>1. ref[x] \in live /\ ref[x] \in Blocks
    BY <1>1, <1>5 DEF HeldIsLive, TypeOK
  <2>2. CASE Change(t) \/ EditorWrite(t)
    <3>1. OwnsItsBlock(t) /\ InCall(t) /\ call[t].h \in Writes(call[t])
      BY <2>2 DEF Change, EditorWrite, OwnsItsBlock, InCall, Writes
    <3>2. ref[x] # ref[call[t].h]
      BY <1>1, <3>1 DEF SoleHolder, Holders
    <3>3. value'[ref[x]] = value[ref[x]]
      BY <1>1, <2>1, <2>2, <3>2 DEF Change, EditorWrite, TypeOK
    <3>4. QED
      BY <1>3, <3>3 DEF Read
  <2>3. CASE Make(t) \/ OwnNew(t) \/ OwnCopy(t)
    BY <1>1, <1>3, <2>1, <2>3 DEF Make, OwnNew, OwnCopy, Allocated, TypeOK, Read
  <2>4. CASE Free(t)
    <3>1. ref[x] # ref[t]
      BY <2>4 DEF IInv, FreedByTheLast, Free, Holders
    <3>2. QED
      BY <1>1, <1>3, <2>1, <2>4, <3>1 DEF Free, TypeOK, Read
  <2>5. CASE ~(Change(t) \/ EditorWrite(t) \/ Make(t) \/ OwnNew(t) \/ OwnCopy(t) \/ Free(t))
    <3>1. value' = value
      BY <1>2, <2>5 DEF Step, Begin, Enter, Clear, Share, Move, Swap, TestUnique, Ask, OwnTest,
         Refresh, EditorEnd, Return, Release, Subtract
    <3>2. QED
      BY <1>3, <3>1 DEF Read
  <2>6. QED
    BY <2>2, <2>3, <2>4, <2>5
<1>6. QED
  BY <1>4, <1>5

\* What can be read through a pointer that is null or live is not changed by an
\* allocation.
LEMMA AllocationKeeps ==
  ASSUME TypeOK, NEW b, NEW keys, Allocated(b, keys), NEW p, p = Null \/ p \in live
  PROVE  Read(p)' = Read(p)
BY DEF Allocated, Read, TypeOK

\* The handles of a call are handles.
LEMMA CallOfStep ==
  ASSUME IInv, NEW t \in Threads, InCall(t)
  PROVE  /\ call[t] \in Call /\ call[t].op \in Ops /\ call[t].k \in Keys
         /\ call[t].h \in Handles /\ call[t].g \in Handles
         /\ call[t].h \in Holder \ {t} /\ call[t].g \in Holder \ {t}
         /\ Read(ref[call[t].h]) \in SUBSET Keys /\ Read(ref[call[t].g]) \in SUBSET Keys
<1>1. call[t] \in Call /\ TypeOK
  BY DEF IInv, TypeOK, CallShape, InCall
<1>2. /\ call[t].op \in Ops /\ call[t].k \in Keys
      /\ call[t].h \in Handles /\ call[t].g \in Handles
  BY <1>1 DEF Call
<1>3. call[t].h \in Holder \ {t} /\ call[t].g \in Holder \ {t}
  BY <1>2, HolderAssumption DEF Holder
<1>4. ref[call[t].h] \in Pointer /\ ref[call[t].g] \in Pointer
  BY <1>1, <1>3 DEF TypeOK
<1>5. QED
  BY <1>1, <1>2, <1>3, <1>4, ReadType

\* The invariant survives the step.
LEMMA IInvStep == ASSUME IInv, NEW t \in Threads, Steps(t) PROVE IInv'
BY NextIInv DEF Next, Steps

-----------------------------------------------------------------------------
\* The code tells the operations apart before it comes to the points they share.
LEMMA CallOpsStep ==
  ASSUME IInv, CallOps, NEW t \in Threads, Steps(t)
  PROVE  CallOps'
<1> USE DEF Goto, Decide, Ends
<1>1. TypeOK /\ CallShape
  BY DEF IInv
<1>2. \A u \in Threads \ {t} : pc'[u] = pc[u] /\ call'[u] = call[u]
  BY Frame DEF Steps
<1> DEFINE Fits(u) ==
       /\ pc[u] \in {"count", "ask", "own", "copy", "change", "refresh"}
             => call[u].op \in PointOps \cup BinaryOps \cup {"edit"}
       /\ pc[u] \in {"count", "ask"} => call[u].op \notin {"xor", "xor_raw"}
       /\ pc[u] = "editor" => call[u].op = "edit"
<1>3. Fits(t)
  BY DEF CallOps
<1>4. Fits(t)'
  <2>1. CASE Begin(t) \/ Return(t)
    BY <1>1, <2>1 DEF Begin, Return, TypeOK
  <2>2. CASE Enter(t)
    BY <1>1, <2>2 DEF Enter, FirstStep, TypeOK
  <2>3. CASE Clear(t) \/ Share(t) \/ Move(t) \/ Swap(t) \/ Make(t)
    BY <1>1, <2>3 DEF Clear, Share, Move, Swap, Make, TypeOK
  <2>4. CASE TestUnique(t) \/ Ask(t)
    BY <1>1, <1>3, <2>4 DEF TestUnique, Ask, TypeOK
  <2>5. CASE OwnNew(t) \/ OwnTest(t) \/ OwnCopy(t)
    BY <1>1, <1>3, <2>5 DEF OwnNew, OwnTest, OwnCopy, AfterOwn, TypeOK
  <2>6. CASE Change(t) \/ Refresh(t) \/ EditorWrite(t) \/ EditorEnd(t)
    BY <1>1, <1>3, <2>6 DEF Change, Refresh, EditorWrite, EditorEnd, TypeOK
  <2>7. CASE Release(t) \/ Subtract(t) \/ Free(t)
    BY <1>1, <1>3, <2>7 DEF Release, Subtract, Free, AfterRelease, TypeOK
  <2>8. QED
    BY <2>1, <2>2, <2>3, <2>4, <2>5, <2>6, <2>7 DEF Steps, Step
<1>5. \A u \in Threads \ {t} : Fits(u)'
  BY <1>2 DEF CallOps
<1>6. QED
  BY <1>4, <1>5 DEF CallOps

\* No call decides its result twice, and none returns before it has.
LEMMA DecidedStep ==
  ASSUME IInv, CallOps, DecidedOnce, NEW t \in Threads, Steps(t)
  PROVE  DecidedOnce'
<1> USE DEF Goto, Decide, Ends, Undecided
<1>1. TypeOK /\ CallShape
  BY DEF IInv
<1>2. \A u \in Threads \ {t} : pc'[u] = pc[u] /\ call'[u] = call[u]
  BY Frame DEF Steps
<1>3. \A u \in Threads \ {t} : outcome'[u] = outcome[u]
  BY <1>1 DEF Steps, Step, Begin, Enter, Clear, Share, Move, Swap, Make, TestUnique, Ask, OwnNew,
              OwnTest, OwnCopy, Change, Refresh, EditorWrite, EditorEnd, Release, Subtract, Free,
              Return, TypeOK
<1>4. outcome[t] = "none" <=> Undecided(t)
  BY DEF DecidedOnce
<1>5. \A op, changed : Returned(op, changed) # "none"
  BY DEF Returned
<1>6. (outcome[t] = "none" <=> Undecided(t))'
  <2>1. CASE Begin(t) \/ Return(t)
    BY <1>1, <1>4, <2>1 DEF Begin, Return, TypeOK
  <2>2. CASE Enter(t)
    <3>1. call'[t] = call[t] /\ pc[t] = "enter"
      BY <2>2 DEF Enter
    <3>2. CASE ReturnsAtOnce(call[t])
      <4>1. pc'[t] = "end" /\ outcome'[t] = Returned(call[t].op, FALSE)
        BY <1>1, <2>2, <3>2 DEF Enter, TypeOK
      <4>2. QED
        BY <1>5, <4>1
    <3>3. CASE ~ReturnsAtOnce(call[t])
      <4>1. pc'[t] \in {"own", "count"} /\ outcome'[t] = outcome[t]
        BY <1>1, <2>2, <3>3 DEF Enter, FirstStep, TypeOK
      <4>2. QED
        BY <1>4, <3>1, <4>1
    <3>4. QED
      BY <3>2, <3>3
  <2>3. CASE Clear(t)
    BY <1>1, <1>4, <2>3 DEF Clear, Clears, HandleOps, TypeOK
  <2>4. CASE Share(t)
    BY <1>1, <1>4, <2>4 DEF Share, Shares, TypeOK
  <2>5. CASE Move(t) \/ Swap(t) \/ Make(t)
    BY <1>1, <1>4, <2>5 DEF Move, Swap, Make, TypeOK
  <2>6. CASE TestUnique(t) \/ Ask(t)
    <3>1. outcome[t] = "none"
      BY <1>4, <2>6 DEF TestUnique, Ask
    <3>2. \/ pc'[t] \in {"own", "ask"} /\ outcome'[t] = outcome[t]
          \/ pc'[t] = "end" /\ outcome'[t] = Returned(call[t].op, FALSE)
      BY <1>1, <2>6 DEF TestUnique, Ask, TypeOK
    <3>3. call'[t] = call[t]
      BY <2>6 DEF TestUnique, Ask
    <3>4. QED
      BY <1>5, <3>1, <3>2, <3>3
  <2>7. CASE OwnNew(t) \/ OwnTest(t) \/ OwnCopy(t)
    BY <1>1, <1>4, <2>7 DEF OwnNew, OwnTest, OwnCopy, AfterOwn, TypeOK
  <2>8. CASE Change(t)
    BY <1>1, <1>4, <1>5, <2>8 DEF Change, TypeOK
  <2>9. CASE Refresh(t) \/ EditorWrite(t) \/ EditorEnd(t)
    BY <1>1, <1>4, <2>9 DEF Refresh, EditorWrite, EditorEnd, TypeOK
  <2>10. CASE Release(t) \/ Subtract(t) \/ Free(t)
    BY <1>1, <1>4, <2>10 DEF Release, Subtract, Free, AfterRelease, TypeOK
  <2>11. QED
    BY <2>1, <2>2, <2>3, <2>4, <2>5, <2>6, <2>7, <2>8, <2>9, <2>10 DEF Steps, Step
<1>7. QED
  BY <1>2, <1>3, <1>6 DEF DecidedOnce

\* What a step leaves in the handles of its call, which only it changes.
LEMMA SizesStep ==
  ASSUME VInv, NEW t \in Threads, Steps(t)
  PROVE  SizesFresh'
<1> USE DEF Goto, Decide, Ends
<1>1. IInv /\ TypeOK /\ CallShape /\ SizesFresh /\ CallsCompatible /\ CallOps
  BY DEF VInv, IInv
<1>2. /\ \A u \in Threads \ {t} : pc'[u] = pc[u] /\ call'[u] = call[u]
      /\ Begin(t) \/ EditorWrite(t) \/ Step(t)
  BY <1>1, Frame DEF Steps
<1>3. SUFFICES ASSUME NEW x \in Handles, \A u \in Threads : (Stale(u) => call[u].h # x)'
               PROVE  size'[x] = Cardinality(Read(ref[x])')
  BY DEF SizesFresh, Read
\* The other threads: one that edits x is the same after the step.
<1>4. \A u \in Threads \ {t} : Stale(u) => call[u].h # x
  BY <1>2, <1>3 DEF Stale
<1>5. CASE ~(InCall(t) /\ x \in Writes(call[t]))
  <2>1. x \in Holder \ {t}
    BY HolderAssumption DEF Holder
  <2>2. Read(ref[x])' = Read(ref[x])
    BY <1>1, <1>5, <2>1, HeldIsKept
  <2>3. size'[x] = size[x]
    BY <1>1, <1>2, <1>5
       DEF Step, Begin, Enter, Clear, Share, Move, Swap, Make, TestUnique, Ask, OwnNew, OwnTest,
           OwnCopy, Change, Refresh, EditorWrite, EditorEnd, Release, Subtract, Free, Return,
           TypeOK, InCall, Writes
  <2>4. Stale(t) => call[t].h # x
    BY <1>5 DEF Stale, InCall, Writes
  <2>5. QED
    BY <1>1, <1>4, <2>2, <2>3, <2>4 DEF SizesFresh
<1>6. CASE InCall(t) /\ x \in Writes(call[t])
  <2> DEFINE h == call[t].h
             g == call[t].g
  <2>1. /\ h \in Handles /\ g \in Handles /\ h \in Holder \ {t} /\ g \in Holder \ {t}
        /\ x \in {h, g} /\ x \in Uses(call[t])
    BY <1>1, <1>6, CallOfStep DEF Writes, Uses
  \* So nobody else edits the handles of this call.
  <2>2. \A u \in Threads \ {t} : Stale(u) => call[u].h # h /\ call[u].h # g
    <3>1. SUFFICES ASSUME NEW u \in Threads \ {t}, Stale(u)
                   PROVE  call[u].h \notin Uses(call[t])
      BY DEF Uses
    <3>2. InCall(u)
      BY <3>1 DEF Stale, InCall
    <3>3. QED
      BY <1>1, <1>6, <3>2 DEF CallsCompatible, Compatible, Writes
  <2>3. ~Stale(t) => /\ size[h] = Cardinality(Read(ref[h]))
                     /\ size[g] = Cardinality(Read(ref[g]))
    BY <1>1, <2>1, <2>2 DEF SizesFresh
  <2>4. ref \in [Holder -> Pointer] /\ size \in [Handles -> Nat] /\ Null \notin Blocks
    BY <1>1, BlockAssumption DEF TypeOK
  <2>5. CASE Enter(t) \/ TestUnique(t) \/ Ask(t) \/ OwnTest(t) \/ Release(t) \/ Return(t) \/ Subtract(t)
    <3>1. size'[x] = size[x] /\ value' = value /\ ref'[x] = ref[x] /\ ~Stale(t)
      BY <2>1, <2>4, <2>5
         DEF Enter, TestUnique, Ask, OwnTest, Release, Return, Subtract, Stale
    <3>2. QED
      BY <2>1, <2>3, <3>1 DEF Read
  <2>6. CASE Free(t)
    <3>1. Holders(ref[t]) = {t} /\ ~Stale(t)
      BY <1>1, <2>6 DEF IInv, FreedByTheLast, Free, Stale
    <3>2. ref[x] # ref[t] /\ ref'[x] = ref[x] /\ size'[x] = size[x]
      BY <2>1, <2>4, <2>6, <3>1 DEF Free, Holders
    <3>3. Read(ref[x])' = Read(ref[x])
      BY <1>1, <2>6, <3>2 DEF Free, Read, TypeOK
    <3>4. QED
      BY <2>1, <2>3, <3>1, <3>2, <3>3
  <2>7. CASE Clear(t)
    <3>1. x = h
      BY <1>6, <2>7 DEF Clear, Clears, HandleOps, Writes
    <3>2. ref'[h] = Null /\ size'[h] = 0
      BY <2>1, <2>4, <2>7 DEF Clear
    <3>3. QED
      BY <3>1, <3>2, FS_EmptySet DEF Read
  <2>8. CASE Share(t)
    <3>1. x = h /\ ~Stale(t)
      BY <1>6, <2>8 DEF Share, Shares, Writes, Stale
    <3>2. ref'[h] = ref[g] /\ size'[h] = size[g] /\ value' = value
      BY <2>1, <2>4, <2>8 DEF Share
    <3>3. QED
      BY <2>3, <3>1, <3>2 DEF Read
  <2>9. CASE Move(t)
    <3>1. ~Stale(t) /\ value' = value
      BY <2>9 DEF Move, Stale
    <3>2. CASE g = h
      BY <2>1, <2>3, <2>9, <3>1, <3>2 DEF Move, Read
    <3>3. CASE g # h
      <4>1. ref'[h] = ref[g] /\ ref'[g] = Null /\ size'[h] = size[g] /\ size'[g] = 0
        BY <2>1, <2>4, <2>9, <3>3 DEF Move
      <4>2. QED
        BY <2>1, <2>3, <3>1, <4>1, FS_EmptySet DEF Read
    <3>4. QED
      BY <3>2, <3>3
  <2>10. CASE Swap(t)
    <3>1. ~Stale(t) /\ value' = value
      BY <2>10 DEF Swap, Stale
    <3>2. ref'[h] = ref[g] /\ ref'[g] = ref[h] /\ size'[h] = size[g] /\ size'[g] = size[h]
      BY <2>1, <2>4, <2>10 DEF Swap
    <3>3. QED
      BY <2>1, <2>3, <3>1, <3>2 DEF Read
  <2>11. CASE Make(t)
    <3>1. x = h /\ ~Stale(t)
      BY <1>6, <2>11 DEF Make, Writes, Stale
    <3>2. CASE UNCHANGED <<live, count, value, ref, size>>
      BY <2>3, <3>1, <3>2 DEF Read
    <3>3. ASSUME NEW b \in Blocks, Allocated(b, {call[t].k}),
                 ref' = [ref EXCEPT ![t] = ref[h], ![h] = b], size' = [size EXCEPT ![h] = 1]
          PROVE  size'[x] = Cardinality(Read(ref[x])')
      <4>1. ref'[x] = b /\ size'[x] = 1
        BY <2>1, <2>4, <3>1, <3>3
      <4>2. b # Null /\ value'[b] = {call[t].k}
        BY <1>1, <2>4, <3>3 DEF Allocated, TypeOK
      <4>3. Read(ref[x])' = {call[t].k}
        BY <4>1, <4>2 DEF Read
      <4>4. QED
        BY <4>1, <4>3, FS_Singleton
    <3>4. QED
      BY <2>11, <3>1, <3>2, <3>3 DEF Make
  <2>12. CASE OwnNew(t)
    <3>1. x = h /\ ~Stale(t) /\ ref[h] = Null /\ size' = size
      BY <1>1, <1>6, <2>12 DEF OwnNew, Writes, Stale, CallShape
    <3>2. Read(ref[x])' = {} \/ (ref' = ref /\ value' = value)
      BY <1>1, <2>1, <2>4, <2>12, <3>1 DEF OwnNew, Allocated, Read, TypeOK
    <3>3. Read(ref[x]) = {} /\ size[x] = Cardinality(Read(ref[x]))
      BY <2>3, <3>1 DEF Read
    <3>4. QED
      BY <3>1, <3>2, <3>3 DEF Read
  <2>13. CASE OwnCopy(t)
    <3>1. x = h /\ ~Stale(t) /\ ref[h] # Null /\ size' = size
      BY <1>1, <1>6, <2>13 DEF OwnCopy, Writes, Stale, CallShape
    <3>2. Read(ref[x])' = Read(ref[x])
      BY <1>1, <2>1, <2>4, <2>13, <3>1 DEF OwnCopy, Allocated, Read, TypeOK
    <3>3. QED
      BY <2>3, <3>1, <3>2
  <2>14. CASE Change(t) \/ EditorWrite(t) \/ EditorEnd(t)
    <3>1. x = h
      BY <1>1, <1>6, <2>14 DEF Change, EditorWrite, EditorEnd, CallShape, Writes
    <3>2. Stale(t)' /\ call'[t].h = h
      BY <1>1, <2>14 DEF Change, EditorWrite, EditorEnd, Stale, TypeOK
    <3>3. QED
      BY <1>3, <3>1, <3>2
  <2>15. CASE Refresh(t)
    <3>1. x = h
      BY <1>1, <1>6, <2>15 DEF Refresh, CallShape, Writes
    <3>2. size'[x] = Cardinality(Read(ref[x])) /\ Read(ref[x])' = Read(ref[x])
      BY <2>1, <2>4, <2>15, <3>1 DEF Refresh, Read
    <3>3. QED
      BY <3>1, <3>2
  <2>16. CASE Begin(t)
    BY <1>1, <1>6, <2>16 DEF Begin, InCall
  <2>17. QED
    BY <1>2, <2>5, <2>6, <2>7, <2>8, <2>9, <2>10, <2>11, <2>12, <2>13, <2>14, <2>15, <2>16 DEF Step
<1>7. QED
  BY <1>5, <1>6

\* The operand of a binary operator still has the keys its handle has: a copy is
\* made of them, and the block they are in is held until the call has read it.
LEMMA OperandReadStep ==
  ASSUME VInv, NEW t \in Threads, Steps(t)
  PROVE  OperandIsRead'
<1> USE DEF Goto, Decide, Ends
<1>1. /\ IInv /\ TypeOK /\ CallShape /\ CallsCompatible /\ CallOps /\ OperandIsRead /\ HeldIsLive
      /\ OperandHeld
  BY DEF VInv, IInv
<1>2. /\ \A u \in Threads \ {t} : pc'[u] = pc[u] /\ call'[u] = call[u] /\ arg'[u] = arg[u]
      /\ Begin(t) \/ EditorWrite(t) \/ Step(t)
  BY <1>1, Frame DEF Steps
<1>3. ASSUME NEW u \in Threads \ {t}, Reading(u)', call'[u].op \in BinaryOps
      PROVE  Read(arg[u])' = Read(ref[call[u].g])'
  <2>1. Reading(u) /\ InCall(u) /\ call[u].op \in BinaryOps /\ call'[u] = call[u] /\ arg'[u] = arg[u]
    BY <1>2, <1>3 DEF Reading, InCall
  <2> DEFINE g == call[u].g
  <2>2. g \in Holder /\ g # t /\ u \in Holder \ {t} /\ g \in Handles
    BY <1>1, <2>1, CallOfStep, HolderAssumption DEF Holder
  <2>3. InCall(t) => g \notin Writes(call[t]) /\ u \notin Writes(call[t])
    <3>1. InCall(t) => g \notin Writes(call[t])
      BY <1>1, <2>1 DEF CallsCompatible, Compatible, Uses
    <3>2. InCall(t) => Writes(call[t]) \subseteq Handles
      BY <1>1, CallOfStep DEF Writes
    <3>3. QED
      BY <3>1, <3>2, HolderAssumption
  <2>4. ref'[g] = ref[g] /\ Read(ref[g])' = Read(ref[g])
    <3>1. \A x \in Holder \ {t} : x = g => ref'[x] = ref[x] /\ Read(ref[x])' = Read(ref[x])
      BY <1>1, <2>3, HeldIsKept
    <3>2. QED
      BY <2>1, <2>2, <3>1 DEF Read
  <2>5. ref'[u] = ref[u] /\ Read(ref[u])' = Read(ref[u])
    BY <1>1, <2>2, <2>3, HeldIsKept
  <2>6. Read(arg[u]) = Read(ref[g])
    BY <1>1, <2>1 DEF OperandIsRead
  <2>7. Read(arg[u])' = Read(arg[u])
    <3>1. CASE arg[u] = Null
      BY <2>1, <3>1 DEF Read
    <3>2. CASE arg[u] = ref[g]
      BY <2>1, <2>4, <3>2 DEF Read
    <3>3. CASE arg[u] = ref[u]
      BY <2>1, <2>5, <3>3 DEF Read
    <3>4. QED
      BY <1>1, <2>1, <3>1, <3>2, <3>3 DEF OperandHeld
  <2>8. QED
    BY <2>4, <2>6, <2>7
<1>4. ASSUME Reading(t)', call'[t].op \in BinaryOps
      PROVE  Read(arg[t])' = Read(ref[call[t].g])'
  <2>1. Enter(t) \/ TestUnique(t) \/ Ask(t) \/ OwnNew(t) \/ OwnTest(t) \/ OwnCopy(t)
    BY <1>1, <1>2, <1>4
       DEF Step, Begin, Clear, Share, Move, Swap, Make, Change, Refresh, EditorWrite, EditorEnd,
           Release, AfterRelease, Subtract, Free, Return, Reading, TypeOK
  <2>2. InCall(t) /\ call'[t] = call[t] /\ call[t].op \in BinaryOps
    BY <1>4, <2>1 DEF Enter, TestUnique, Ask, OwnNew, OwnTest, OwnCopy, InCall
  <2> DEFINE h == call[t].h
             g == call[t].g
  <2>3. h \in Holder \ {t} /\ g \in Holder \ {t} /\ ref \in [Holder -> Pointer] /\ Null \notin Blocks
    BY <1>1, <2>2, CallOfStep, BlockAssumption DEF TypeOK
  <2>4. CASE Enter(t)
    <3>1. ~ReturnsAtOnce(call[t])
      BY <1>1, <1>4, <2>4 DEF Enter, Reading, TypeOK
    <3>2. arg'[t] = ref[g] /\ ref' = ref /\ value' = value
      BY <1>1, <2>2, <2>4, <3>1 DEF Enter, TypeOK
    <3>3. QED
      BY <2>2, <3>2 DEF Read
  <2>5. ASSUME ~Enter(t) PROVE Reading(t) /\ arg' = arg /\ Read(arg[t]) = Read(ref[g])
    <3>1. Reading(t) /\ arg' = arg
      BY <2>1, <2>5 DEF TestUnique, Ask, OwnNew, OwnTest, OwnCopy, Reading
    <3>2. QED
      BY <1>1, <2>2, <3>1 DEF OperandIsRead
  <2>6. CASE TestUnique(t) \/ Ask(t) \/ OwnTest(t)
    <3>1. ref' = ref /\ value' = value /\ ~Enter(t)
      BY <2>6 DEF TestUnique, Ask, OwnTest, Enter
    <3>2. QED
      BY <2>2, <2>5, <3>1 DEF Read
  <2>7. CASE OwnNew(t) \/ OwnCopy(t)
    <3>1. ~Enter(t) /\ pc[t] \in {"own", "copy"}
      BY <2>7 DEF OwnNew, OwnCopy, Enter
    <3>2. ref[t] = Null
      BY <1>1, <2>3, <3>1 DEF CallShape
    <3>3. arg[t] = Null \/ arg[t] = ref[g]
      BY <1>1, <2>5, <3>1, <3>2 DEF OperandHeld
    <3>4. PICK b \in Blocks, keys \in SUBSET Keys :
            /\ Allocated(b, keys) /\ keys = Read(ref[h])
            /\ ref' = [ref EXCEPT ![h] = b] \/ ref' = [ref EXCEPT ![t] = ref[h], ![h] = b]
      <4>1. Read(ref[h]) \in SUBSET Keys
        BY <1>1, <2>2, CallOfStep
      <4>2. pc'[t] # "end"
        BY <1>4 DEF Reading
      <4>3. CASE OwnNew(t)
        <5>1. Read(ref[h]) = {}
          BY <4>3 DEF OwnNew, Read
        <5>2. PICK b \in Blocks : Allocated(b, {}) /\ ref' = [ref EXCEPT ![h] = b]
          BY <1>1, <4>2, <4>3 DEF OwnNew, TypeOK
        <5>3. QED
          BY <4>1, <5>1, <5>2
      <4>4. CASE OwnCopy(t)
        <5>1. Read(ref[h]) = value[ref[h]]
          BY <1>1, <4>4 DEF OwnCopy, Read, CallShape
        <5>2. PICK b \in Blocks :
                Allocated(b, value[ref[h]]) /\ ref' = [ref EXCEPT ![t] = ref[h], ![h] = b]
          BY <1>1, <4>2, <4>4 DEF OwnCopy, TypeOK
        <5>3. QED
          BY <4>1, <5>1, <5>2
      <4>5. QED
        BY <2>7, <4>3, <4>4
    <3>5. Read(arg[t])' = Read(arg[t])
      <4>1. arg[t] = Null \/ arg[t] \in live
        BY <1>1, <2>3, <3>3 DEF HeldIsLive
      <4>2. \A p : p = Null \/ p \in live => Read(p)' = Read(p)
        BY <1>1, <3>4, AllocationKeeps
      <4>3. QED
        BY <1>1, <2>5, <3>1, <4>1, <3>4 DEF Allocated, Read, TypeOK
    <3>6. CASE g = h
      <4>1. ref'[g] = b /\ value'[b] = keys
        BY <1>1, <2>3, <3>4, <3>6 DEF Allocated, TypeOK
      <4>2. Read(ref[g])' = keys
        BY <2>2, <2>3, <4>1 DEF Read
      <4>3. QED
        BY <2>2, <2>5, <3>1, <3>4, <3>5, <3>6, <4>2
    <3>7. CASE g # h
      <4>1. ref'[g] = ref[g] /\ (ref[g] = Null \/ ref[g] \in live)
        BY <1>1, <2>3, <3>4, <3>7 DEF HeldIsLive
      <4>2. Read(ref[g])' = Read(ref[g])
        BY <1>1, <2>2, <3>4, <4>1 DEF Allocated, Read, TypeOK
      <4>3. QED
        BY <2>5, <3>1, <3>5, <4>2
    <3>8. QED
      BY <3>6, <3>7
  <2>8. QED
    BY <2>1, <2>4, <2>6, <2>7
<1>5. QED
  <2>1. \A u \in Threads : (Reading(u) /\ call[u].op \in BinaryOps)' =>
            Read(arg[u])' = Read(ref[call[u].g])'
    BY <1>3, <1>4
  <2>2. QED
    BY <2>1 DEF OperandIsRead, Read, Reading

-----------------------------------------------------------------------------
(***************************************************************************)
(* The values of the handles, and the steps of HandleValues they take.     *)
(***************************************************************************)
HandleKeys == [x \in Handles |-> Read(ref[x])]

\* A call of one handle changes the keys of that handle only.
LEMMA OneHandle ==
  ASSUME IInv, NEW t \in Threads, Steps(t), InCall(t), call[t].op \notin {"move", "swap"}
  PROVE  /\ HandleKeys' = [HandleKeys EXCEPT ![call[t].h] = HandleKeys'[call[t].h]]
         /\ HandleKeys[call[t].h] = Read(ref[call[t].h])
         /\ HandleKeys[call[t].g] = Read(ref[call[t].g])
<1>1. call[t].h \in Handles /\ call[t].g \in Handles
  BY CallOfStep
<1>2. \A x \in Handles : x # call[t].h => Read(ref[x])' = Read(ref[x])
  <2>1. \A x \in Handles : x \in Holder \ {t}
    BY HolderAssumption DEF Holder
  <2>2. \A x \in Handles : x # call[t].h => x \notin Writes(call[t])
    BY DEF Writes
  <2>3. QED
    BY <2>1, <2>2, HeldIsKept
<1>3. \A x \in Handles : x # call[t].h => HandleKeys'[x] = HandleKeys[x]
  BY <1>2 DEF HandleKeys
<1>4. QED
  BY <1>1, <1>3 DEF HandleKeys

\* The calls of HandleValues and what they compute are those of SharedBitmap.
LEMMA SameOperators ==
  /\ Values!PointOps = PointOps /\ Values!BinaryOps = BinaryOps
  /\ \A op, a, b, k : Values!LeftByFailure(op, a, b, k) = LeftByFailure(op, a, b, k)
<1>1. Values!PointOps = PointOps
  BY DEF Values!PointOps, PointOps
<1>2. Values!BinaryOps = BinaryOps
  BY DEF Values!BinaryOps, BinaryOps, Values!HandleOps, HandleOps, Values!RawOps, RawOps
<1>3. ASSUME NEW op, NEW a, NEW b, NEW k
      PROVE  Values!Combined(op, a, b, k) = Combined(op, a, b, k)
  BY DEF Values!Combined, Combined
<1>4. ASSUME NEW op, NEW a, NEW b, NEW k
      PROVE  Values!LeftByFailure(op, a, b, k) = LeftByFailure(op, a, b, k)
  BY <1>3 DEF Values!LeftByFailure, LeftByFailure
<1>5. QED
  BY <1>1, <1>2, <1>4

\* A change of the keys as the call computes them is its one step.
LEMMA Applied ==
  ASSUME NEW t \in Threads, call[t] \in Call, outcome[t] = "none", call' = call,
         call[t].op \notin {"move", "swap"},
         HandleKeys' = [HandleKeys EXCEPT ![call[t].h] =
            Combined(call[t].op, HandleKeys[call[t].h], HandleKeys[call[t].g], call[t].k)],
         outcome' = [outcome EXCEPT ![t] = Returned(call[t].op, HandleKeys' # HandleKeys)]
  PROVE  Values!Next
<1>1. call[t] # NoCall
  BY CallAssumption
<1>2. Values!After(call[t]) = HandleKeys'
  BY DEF Values!After, Values!Combined, Combined, HandleKeys
<1>3. Values!Apply(t)
  BY <1>1, <1>2
     DEF Values!Apply, Values!Returned, Returned, HandleKeys, Values!PointOps, PointOps
<1>4. QED
  BY <1>3 DEF Values!Next

\* And one that has no effect leaves them.
LEMMA AppliedInVain ==
  ASSUME NEW t \in Threads, call[t] \in Call, outcome[t] = "none", call' = call,
         call[t].op \notin {"move", "swap"}, HandleKeys' = HandleKeys,
         Combined(call[t].op, HandleKeys[call[t].h], HandleKeys[call[t].g], call[t].k)
            = HandleKeys[call[t].h],
         outcome' = [outcome EXCEPT ![t] = Returned(call[t].op, FALSE)]
  PROVE  Values!Next
<1>1. HandleKeys' = [HandleKeys EXCEPT ![call[t].h] =
            Combined(call[t].op, HandleKeys[call[t].h], HandleKeys[call[t].g], call[t].k)]
  BY DEF HandleKeys
<1>2. Returned(call[t].op, HandleKeys' # HandleKeys) = Returned(call[t].op, FALSE)
  BY DEF Returned
<1>3. QED
  BY <1>1, <1>2, Applied

\* A failure leaves the handle as it was, or with a change half done.
LEMMA Thrown ==
  ASSUME NEW t \in Threads, call[t] \in Call, outcome[t] = "none", call' = call,
         outcome' = [outcome EXCEPT ![t] = "threw"],
         \/ /\ call[t].op \in PointOps \cup BinaryOps
            /\ \E s \in LeftByFailure(call[t].op, HandleKeys[call[t].h], HandleKeys[call[t].g], call[t].k) :
                  HandleKeys' = [HandleKeys EXCEPT ![call[t].h] = s]
         \/ call[t].op \in {"make", "edit"} /\ HandleKeys' = HandleKeys
  PROVE  Values!Next
<1>1. call[t] # NoCall
  BY CallAssumption
<1>2. /\ Values!PointOps = PointOps /\ Values!BinaryOps = BinaryOps
      /\ \A op, a, b, k : Values!LeftByFailure(op, a, b, k) = LeftByFailure(op, a, b, k)
  BY SameOperators
<1>3. Values!Throw(t)
  BY <1>1, <1>2 DEF Values!Throw, HandleKeys
<1>4. QED
  BY <1>3 DEF Values!Next

\* Nothing to be seen of it at the handles.
LEMMA Unseen ==
  ASSUME HandleKeys' = HandleKeys, call' = call, outcome' = outcome
  PROVE  UNCHANGED Values!vars
BY DEF Values!vars, HandleKeys

\* Nothing changed half way is one of the ways a failure may leave a handle.
LEMMA FailureMayLeaveAll ==
  ASSUME NEW op, NEW a, NEW b, NEW k
  PROVE  a \in LeftByFailure(op, a, b, k)
BY DEF LeftByFailure

\* The facts of the invariant a step of a call starts from.
LEMMA AtStep ==
  ASSUME VInv, NEW t \in Threads, pc[t] # "idle"
  PROVE  /\ InCall(t) /\ call[t] \in Call
         /\ outcome[t] = "none" <=> Undecided(t)
         /\ outcome \in [Threads -> Outcomes]
         /\ HandleKeys[call[t].h] = Read(ref[call[t].h])
         /\ HandleKeys[call[t].g] = Read(ref[call[t].g])
         /\ (Reading(t) /\ call[t].op \in BinaryOps) => Read(arg[t]) = HandleKeys[call[t].g]
<1>1. InCall(t) /\ IInv
  BY DEF InCall, VInv
<1>2. call[t] \in Call /\ call[t].h \in Handles /\ call[t].g \in Handles
  BY <1>1, CallOfStep
<1>3. outcome[t] = "none" <=> Undecided(t)
  BY DEF VInv, DecidedOnce
<1>4. QED
  BY <1>1, <1>2, <1>3 DEF HandleKeys, VInv, IInv, TypeOK, OperandIsRead

\* A call starts and returns as HandleValues has it.
LEMMA CallSteps ==
  ASSUME VInv, NEW t \in Threads, Begin(t) \/ Return(t)
  PROVE  Values!Next
<1> USE DEF Goto, Decide
<1>1. CallShape /\ DecidedOnce /\ TypeOK
  BY DEF VInv, IInv
<1>2. HandleKeys' = HandleKeys
  BY DEF Begin, Return, HandleKeys, Read
<1>3. CASE Begin(t)
  <2>1. call[t] = NoCall /\ outcome' = outcome
    BY <1>1, <1>3 DEF Begin, CallShape
  <2>2. PICK c \in DistinctCalls :
          /\ \A u \in Threads : call[u] # NoCall => Compatible(c, call[u])
          /\ call' = [call EXCEPT ![t] = c]
    BY <1>3 DEF Begin
  <2>3. Values!DistinctCalls = DistinctCalls
    BY DEF Values!DistinctCalls, DistinctCalls, Values!PointOps, PointOps
  <2>4. \A u \in Threads : call[u] # NoCall => Values!Compatible(c, call[u])
    BY <2>2 DEF Values!Compatible, Compatible, Values!Writes, Writes, Values!Uses, Uses
  <2>5. Values!Begin(t)
    BY <1>2, <2>1, <2>2, <2>3, <2>4 DEF Values!Begin, HandleKeys
  <2>6. QED
    BY <2>5 DEF Values!Next
<1>4. CASE Return(t)
  <2>1. pc[t] = "end"
    BY <1>4 DEF Return
  <2>2. call[t] # NoCall /\ outcome[t] # "none"
    BY <1>1, <2>1 DEF CallShape, DecidedOnce, Undecided
  <2>3. Values!Return(t)
    BY <1>2, <1>4, <2>2 DEF Values!Return, HandleKeys, Return
  <2>4. QED
    BY <2>3 DEF Values!Next
<1>5. QED
  BY <1>3, <1>4

\* A call that returns at once leaves what it would have computed: a test of
\* size_ or of a shared block stands for the operation.
LEMMA EnterStep ==
  ASSUME VInv, NEW t \in Threads, Enter(t)
  PROVE  Values!Next \/ UNCHANGED Values!vars
<1> USE DEF Goto, Decide, Ends
<1>1. pc[t] = "enter" /\ call' = call /\ ref' = ref /\ value' = value
  BY DEF Enter
<1>2. HandleKeys' = HandleKeys
  BY <1>1 DEF HandleKeys, Read
<1>3. /\ InCall(t) /\ call[t] \in Call /\ outcome[t] = "none"
      /\ HandleKeys[call[t].h] = Read(ref[call[t].h])
      /\ HandleKeys[call[t].g] = Read(ref[call[t].g])
  BY <1>1, AtStep DEF Undecided
<1> DEFINE c == call[t]
           a == Read(ref[c.h])
           b == Read(ref[c.g])
<1>4. CASE ~ReturnsAtOnce(c)
  BY <1>1, <1>2, <1>4, Unseen DEF Enter
<1>5. CASE ReturnsAtOnce(c)
  <2>1. outcome' = [outcome EXCEPT ![t] = Returned(c.op, FALSE)]
    BY <1>5 DEF Enter
  <2>2. c.h \in Handles /\ c.g \in Handles /\ IInv /\ a \in SUBSET Keys /\ b \in SUBSET Keys
    BY <1>3, CallOfStep DEF VInv
  <2>3. size[c.h] = 0 => a = {}
    <3>1. \A u \in Threads : Stale(u) => call[u].h # c.h
      BY <1>1, <1>3, <2>2 DEF IInv, CallsCompatible, Compatible, Writes, Uses, Stale, InCall
    <3>2. size[c.h] = Cardinality(a)
      BY <2>2, <3>1 DEF VInv, SizesFresh
    <3>3. IsFiniteSet(a)
      BY <2>2, KeyAssumption, FS_Subset
    <3>4. QED
      BY <3>2, <3>3, FS_EmptySet
  <2>4. size[c.g] = 0 => b = {}
    <3>1. \A u \in Threads : Stale(u) => call[u].h # c.g
      BY <1>1, <1>3, <2>2 DEF IInv, CallsCompatible, Compatible, Writes, Uses, Stale, InCall
    <3>2. size[c.g] = Cardinality(b)
      BY <2>2, <3>1 DEF VInv, SizesFresh
    <3>3. IsFiniteSet(b)
      BY <2>2, KeyAssumption, FS_Subset
    <3>4. QED
      BY <3>2, <3>3, FS_EmptySet
  <2>5. SharesStorage(c.h, c.g) => a = b
    BY DEF SharesStorage
  <2>6. ref[c.h] = Null => a = {}
    BY DEF Read
  <2> HIDE DEF a, b, c
  <2>7. /\ c.op \notin {"move", "swap"}
        /\ Combined(c.op, a, b, c.k) = a
    <3> DEFINE other == IF c.op \in {"unite", "xor"} THEN size[c.g] = 0 ELSE b = {}
               same  == c.op \in HandleOps /\ SharesStorage(c.h, c.g)
    <3>1. \/ c.op = "remove" /\ ref[c.h] = Null
          \/ c.op = "unite" /\ (other \/ same)
          \/ c.op \in {"unite_raw", "xor", "xor_raw"} /\ other
          \/ c.op \in {"intersect", "intersect_raw"} /\ (same \/ size[c.h] = 0)
          \/ c.op \in {"subtract", "subtract_raw"} /\ ~same /\ (size[c.h] = 0 \/ other)
      BY <1>5 DEF ReturnsAtOnce, b, c
    <3>2. /\ other => b = {}
          /\ same => a = b
      BY <2>4, <2>5
    <3> HIDE DEF other, same
    <3>3. CASE c.op = "remove" /\ ref[c.h] = Null
      BY <2>6, <3>3 DEF Combined
    <3>4. CASE c.op = "unite" /\ (other \/ same)
      BY <3>2, <3>4 DEF Combined
    <3>5. CASE c.op \in {"unite_raw", "xor", "xor_raw"} /\ other
      BY <3>2, <3>5 DEF Combined
    <3>6. CASE c.op \in {"intersect", "intersect_raw"} /\ (same \/ size[c.h] = 0)
      BY <2>3, <3>2, <3>6 DEF Combined
    <3>7. CASE c.op \in {"subtract", "subtract_raw"} /\ ~same /\ (size[c.h] = 0 \/ other)
      BY <2>3, <3>2, <3>7 DEF Combined
    <3>8. QED
      BY <3>1, <3>3, <3>4, <3>5, <3>6, <3>7
  <2>8. QED
    BY <1>1, <1>2, <1>3, <2>1, <2>7, AppliedInVain DEF a, b, c
<1>6. QED
  BY <1>4, <1>5
\* A handle with a size_ of zero holds no keys, at the start of a call on it.
LEMMA SizeZero ==
  ASSUME VInv, NEW t \in Threads, pc[t] = "enter", NEW x \in {call[t].h, call[t].g}, size[x] = 0
  PROVE  Read(ref[x]) = {}
<1>1. InCall(t) /\ IInv
  BY DEF InCall, VInv
<1>2. x \in Handles /\ Read(ref[x]) \in SUBSET Keys
  BY <1>1, CallOfStep
<1>3. \A u \in Threads : Stale(u) => call[u].h # x
  BY <1>1 DEF IInv, CallsCompatible, Compatible, Writes, Uses, Stale, InCall
<1>4. size[x] = Cardinality(Read(ref[x]))
  BY <1>2, <1>3 DEF VInv, SizesFresh
<1>5. IsFiniteSet(Read(ref[x]))
  BY <1>2, KeyAssumption, FS_Subset
<1>6. QED
  BY <1>4, <1>5, FS_EmptySet

\* A call on one handle that leaves in it the keys h, and returns "done".
LEMMA AppliedTo ==
  ASSUME VInv, NEW t \in Threads, Steps(t), pc[t] # "idle", outcome[t] = "none", call' = call,
         call[t].op \notin {"move", "swap"}, call[t].op \notin PointOps,
         Read(ref[call[t].h])' =
            Combined(call[t].op, HandleKeys[call[t].h], HandleKeys[call[t].g], call[t].k),
         outcome' = [outcome EXCEPT ![t] = "done"]
  PROVE  Values!Next
<1>1. InCall(t) /\ IInv /\ call[t] \in Call
  BY AtStep DEF VInv
<1>2. call[t].h \in Handles
  BY <1>1, CallOfStep
<1>3. HandleKeys'[call[t].h] =
            Combined(call[t].op, HandleKeys[call[t].h], HandleKeys[call[t].g], call[t].k)
  BY <1>2 DEF HandleKeys
<1>4. HandleKeys' = [HandleKeys EXCEPT ![call[t].h] =
            Combined(call[t].op, HandleKeys[call[t].h], HandleKeys[call[t].g], call[t].k)]
  BY <1>1, <1>3, OneHandle
<1>5. Returned(call[t].op, HandleKeys' # HandleKeys) = "done"
  BY DEF Returned
<1>6. QED
  BY <1>1, <1>4, <1>5, Applied

\* clear(), and the calls that come down to it, empty the handle.
LEMMA ClearStep ==
  ASSUME VInv, NEW t \in Threads, Clear(t)
  PROVE  Values!Next
<1> USE DEF Goto, Decide, Ends
<1>1. pc[t] = "enter" /\ call' = call /\ Clears(call[t])
      /\ ref' = [ref EXCEPT ![t] = ref[call[t].h], ![call[t].h] = Null]
      /\ outcome' = [outcome EXCEPT ![t] = "done"]
  BY DEF Clear
<1>2. /\ InCall(t) /\ IInv /\ TypeOK /\ outcome[t] = "none" /\ Steps(t)
      /\ HandleKeys[call[t].h] = Read(ref[call[t].h])
      /\ HandleKeys[call[t].g] = Read(ref[call[t].g])
  BY <1>1, AtStep DEF Undecided, VInv, IInv, Steps, Step
<1>3. call[t].h \in Holder \ {t}
  BY <1>2, CallOfStep
<1>4. call[t].op \in {"clear", "subtract", "xor", "intersect", "intersect_raw"}
  BY <1>1 DEF Clears
<1>5. Combined(call[t].op, HandleKeys[call[t].h], HandleKeys[call[t].g], call[t].k) = {}
  BY <1>1, <1>2, <1>4 DEF Clears, SharesStorage, Combined
<1>6. ref'[call[t].h] = Null
  BY <1>1, <1>2, <1>3 DEF TypeOK
<1>7. Read(ref[call[t].h])' = {}
  BY <1>1, <1>6 DEF Read
<1>8. QED
  BY <1>1, <1>2, <1>4, <1>5, <1>7, AppliedTo DEF PointOps

\* An assignment gives the handle the other's keys, and so do a union and an
\* exclusive-or into a handle that holds nothing.
LEMMA ShareStep ==
  ASSUME VInv, NEW t \in Threads, Share(t)
  PROVE  Values!Next
<1> USE DEF Goto, Decide, Ends
<1>1. pc[t] = "enter" /\ call' = call /\ Shares(call[t]) /\ value' = value
      /\ ref' = [ref EXCEPT ![t] = ref[call[t].h], ![call[t].h] = ref[call[t].g]]
      /\ outcome' = [outcome EXCEPT ![t] = "done"]
  BY DEF Share
<1>2. /\ InCall(t) /\ IInv /\ TypeOK /\ outcome[t] = "none" /\ Steps(t)
      /\ HandleKeys[call[t].h] = Read(ref[call[t].h])
      /\ HandleKeys[call[t].g] = Read(ref[call[t].g])
  BY <1>1, AtStep DEF Undecided, VInv, IInv, Steps, Step
<1>3. call[t].h \in Holder \ {t}
  BY <1>2, CallOfStep
<1>4. call[t].op \in {"assign", "unite", "xor"}
  BY <1>1 DEF Shares
<1>5. Combined(call[t].op, HandleKeys[call[t].h], HandleKeys[call[t].g], call[t].k)
         = Read(ref[call[t].g])
  <2>1. CASE call[t].op = "assign"
    BY <1>2, <2>1 DEF Combined
  <2>2. CASE call[t].op \in {"unite", "xor"}
    <3>1. Read(ref[call[t].h]) = {}
      BY <1>1, <2>2, SizeZero DEF Shares
    <3>2. QED
      BY <1>2, <2>2, <3>1 DEF Combined
  <2>3. QED
    BY <1>4, <2>1, <2>2
<1>6. ref'[call[t].h] = ref[call[t].g]
  BY <1>1, <1>2, <1>3 DEF TypeOK
<1>7. Read(ref[call[t].h])' = Read(ref[call[t].g])
  BY <1>1, <1>6 DEF Read
<1>8. QED
  BY <1>1, <1>2, <1>4, <1>5, <1>7, AppliedTo DEF PointOps

\* A handle made from a bitmap holds its keys, or what it held when the
\* allocation fails.
LEMMA MakeStep ==
  ASSUME VInv, NEW t \in Threads, Make(t)
  PROVE  Values!Next
<1> USE DEF Goto, Decide, Ends
<1>1. pc[t] = "enter" /\ call' = call /\ call[t].op = "make"
  BY DEF Make
<1>2. /\ InCall(t) /\ IInv /\ TypeOK /\ outcome[t] = "none" /\ Steps(t) /\ call[t] \in Call
      /\ HandleKeys[call[t].h] = Read(ref[call[t].h])
      /\ HandleKeys[call[t].g] = Read(ref[call[t].g])
  BY <1>1, AtStep DEF Undecided, VInv, IInv, Steps, Step
<1>3. call[t].h \in Holder \ {t}
  BY <1>2, CallOfStep
<1>4. CASE outcome' = [outcome EXCEPT ![t] = "threw"] /\ ref' = ref /\ value' = value
  <2>1. HandleKeys' = HandleKeys
    BY <1>4 DEF HandleKeys, Read
  <2>2. QED
    BY <1>1, <1>2, <1>4, <2>1, Thrown
<1>5. ASSUME NEW b \in Blocks, Allocated(b, {call[t].k}),
             ref' = [ref EXCEPT ![t] = ref[call[t].h], ![call[t].h] = b],
             outcome' = [outcome EXCEPT ![t] = "done"]
      PROVE  Values!Next
  <2>1. ref'[call[t].h] = b /\ value'[b] = {call[t].k} /\ b # Null
    BY <1>2, <1>3, <1>5, BlockAssumption DEF Allocated, TypeOK
  <2>2. Read(ref[call[t].h])' = {call[t].k}
    BY <1>1, <2>1 DEF Read
  <2>3. Combined(call[t].op, HandleKeys[call[t].h], HandleKeys[call[t].g], call[t].k) = {call[t].k}
    BY <1>1 DEF Combined
  <2>4. QED
    BY <1>1, <1>2, <1>5, <2>2, <2>3, AppliedTo DEF PointOps
<1>6. QED
  BY <1>4, <1>5 DEF Make
\* A move gives the handle the other's keys and leaves the other empty; moved
\* onto itself a handle keeps them.  A swap exchanges the keys of the two.
LEMMA MoveSwapStep ==
  ASSUME VInv, NEW t \in Threads, Move(t) \/ Swap(t)
  PROVE  Values!Next
<1> USE DEF Goto, Decide, Ends
<1> DEFINE c == call[t]
<1>1. pc[t] = "enter" /\ call' = call /\ c.op \in {"move", "swap"} /\ value' = value
      /\ outcome' = [outcome EXCEPT ![t] = "done"]
  BY DEF Move, Swap
<1>2. /\ InCall(t) /\ IInv /\ TypeOK /\ outcome[t] = "none" /\ c \in Call
      /\ HandleKeys[c.h] = Read(ref[c.h])
      /\ HandleKeys[c.g] = Read(ref[c.g])
  BY <1>1, AtStep DEF Undecided, VInv, IInv
<1>3. c.h \in Handles /\ c.g \in Handles /\ t \notin Handles /\ Handles \subseteq Holder
  BY <1>2, CallOfStep, HolderAssumption DEF Holder
<1>4. c # NoCall
  BY <1>2, CallAssumption
<1>5. Combined(c.op, HandleKeys[c.h], HandleKeys[c.g], c.k) = HandleKeys[c.g]
  BY <1>1 DEF Combined
<1> DEFINE left == [HandleKeys EXCEPT ![c.h] = HandleKeys[c.g]]
<1>6. /\ c.op = "swap"                => Values!After(c) = [left EXCEPT ![c.g] = HandleKeys[c.h]]
      /\ c.op = "move" /\ c.g # c.h => Values!After(c) = [left EXCEPT ![c.g] = {}]
      /\ c.op = "move" /\ c.g = c.h => Values!After(c) = left
  <2>1. Values!Combined(c.op, HandleKeys[c.h], HandleKeys[c.g], c.k) = HandleKeys[c.g]
    BY <1>5 DEF Values!Combined, Combined
  <2>2. CASE c.op = "swap"
    BY <2>1, <2>2 DEF Values!After, HandleKeys
  <2>3. CASE c.op = "move"
    BY <2>1, <2>3 DEF Values!After, HandleKeys
  <2>4. QED
    BY <1>1, <2>2, <2>3
<1>7. HandleKeys' = Values!After(c)
  <2>1. CASE c.op = "move" /\ c.g = c.h
    <3>1. HandleKeys' = HandleKeys
      BY <1>1, <2>1 DEF Move, Swap, HandleKeys, Read
    <3>2. left = HandleKeys
      BY <1>3, <2>1 DEF HandleKeys
    <3>3. QED
      BY <1>6, <2>1, <3>1, <3>2
  <2>2. CASE c.op = "move" /\ c.g # c.h
    <3>1. ref' = [ref EXCEPT ![t] = ref[c.h], ![c.h] = ref[c.g], ![c.g] = Null]
      BY <2>2 DEF Move, Swap
    <3>2. \A x \in Handles : ref'[x] = IF x = c.g THEN Null ELSE IF x = c.h THEN ref[c.g] ELSE ref[x]
      BY <1>2, <1>3, <2>2, <3>1 DEF TypeOK
    <3>3. \A x \in Handles : Read(ref[x])' = IF x = c.g THEN {} ELSE IF x = c.h THEN Read(ref[c.g]) ELSE Read(ref[x])
      BY <1>1, <3>2 DEF Read
    <3>4. HandleKeys' = [left EXCEPT ![c.g] = {}]
      BY <1>3, <2>2, <3>3 DEF HandleKeys
    <3>5. QED
      BY <1>6, <2>2, <3>4
  <2>3. CASE c.op = "swap"
    <3>1. ref' = [ref EXCEPT ![c.h] = ref[c.g], ![c.g] = ref[c.h]]
      BY <2>3 DEF Move, Swap
    <3>2. \A x \in Handles : ref'[x] = IF x = c.g THEN ref[c.h] ELSE IF x = c.h THEN ref[c.g] ELSE ref[x]
      BY <1>2, <1>3, <3>1 DEF TypeOK
    <3>3. \A x \in Handles : Read(ref[x])' = IF x = c.g THEN Read(ref[c.h]) ELSE IF x = c.h THEN Read(ref[c.g]) ELSE Read(ref[x])
      BY <1>1, <3>2 DEF Read
    <3>4. HandleKeys' = [left EXCEPT ![c.g] = HandleKeys[c.h]]
      BY <1>3, <3>3 DEF HandleKeys
    <3>5. QED
      BY <1>6, <2>3, <3>4
  <2>4. QED
    BY <1>1, <2>1, <2>2, <2>3
<1>8. Values!Returned(c.op, HandleKeys' # HandleKeys) = "done"
  BY <1>1 DEF Values!Returned, Values!PointOps
<1>9. Values!Apply(t)
  BY <1>1, <1>2, <1>4, <1>7, <1>8 DEF Values!Apply, HandleKeys
<1>10. QED
  BY <1>9 DEF Values!Next

\* The tests of a count, the releases and refresh() change no keys that a
\* handle holds: a block is deleted when no handle has it.
LEMMA QuietStep ==
  ASSUME VInv, NEW t \in Threads,
         TestUnique(t) \/ OwnTest(t) \/ Refresh(t) \/ Release(t) \/ Subtract(t) \/ Free(t)
  PROVE  UNCHANGED Values!vars
<1>1. call' = call /\ outcome' = outcome
  BY DEF TestUnique, OwnTest, Refresh, Release, Subtract, Free
<1>2. TypeOK /\ FreedByTheLast
  BY DEF VInv, IInv
<1>3. \A x \in Handles : x # t /\ x \in Holder /\ ref'[x] = ref[x]
  BY <1>2, HolderAssumption DEF Holder, TypeOK, TestUnique, OwnTest, Refresh, Release, Subtract, Free
<1>4. \A x \in Handles : ref[x] \in Blocks => value'[ref[x]] = value[ref[x]]
  <2>1. CASE Free(t)
    <3>1. \A x \in Handles : ref[x] # ref[t]
      BY <1>2, <1>3, <2>1 DEF FreedByTheLast, Free, Holders
    <3>2. QED
      BY <1>2, <2>1, <3>1 DEF Free, TypeOK
  <2>2. CASE ~Free(t)
    BY <2>2 DEF TestUnique, OwnTest, Refresh, Release, Subtract
  <2>3. QED
    BY <2>1, <2>2
<1>5. \A x \in Handles : Read(ref[x])' = Read(ref[x])
  BY <1>2, <1>3, <1>4 DEF Read, TypeOK, Pointer
<1>6. HandleKeys' = HandleKeys
  BY <1>5 DEF HandleKeys
<1>7. QED
  BY <1>1, <1>6, Unseen

\* The question asked of a shared bitmap is answered yes only when the change
\* would leave it as it is.
LEMMA AskStep ==
  ASSUME VInv, NEW t \in Threads, Ask(t)
  PROVE  Values!Next \/ UNCHANGED Values!vars
<1> USE DEF Goto, Decide, Ends
<1> DEFINE c == call[t]
<1>1. pc[t] = "ask" /\ call' = call
  BY DEF Ask
<1>2. HandleKeys' = HandleKeys
  BY DEF Ask, HandleKeys, Read
<1>3. /\ InCall(t) /\ IInv /\ CallOps /\ CallShape /\ outcome[t] = "none" /\ c \in Call
      /\ HandleKeys[c.h] = Read(ref[c.h])
      /\ c.op \in BinaryOps => Read(arg[t]) = HandleKeys[c.g]
  BY <1>1, AtStep DEF Undecided, VInv, IInv, Reading
<1>4. c.op \in PointOps \cup BinaryOps
  BY <1>1, <1>3 DEF CallOps, CallShape
<1>5. CASE outcome' = outcome
  BY <1>1, <1>2, <1>5, Unseen
<1>6. CASE /\ outcome' = [outcome EXCEPT ![t] = Returned(c.op, FALSE)]
           /\ ChangesNothing(c.op, Read(ref[c.h]), Read(arg[t]), c.k)
  <2>1. HandleKeys[c.h] \in SUBSET Keys
    BY <1>3, CallOfStep
  <2>2. c.op \notin {"xor", "xor_raw"}
    BY <1>1, <1>3 DEF CallOps
  <2>3. QED
    <3>1. Combined(c.op, HandleKeys[c.h], HandleKeys[c.g], c.k) = HandleKeys[c.h]
      BY <1>3, <1>4, <1>6, <2>1, <2>2
         DEF Combined, ChangesNothing, PointOps, BinaryOps, HandleOps, RawOps
    <3>2. c.op \notin {"move", "swap"}
      BY <1>4 DEF PointOps, BinaryOps, HandleOps, RawOps
    <3>3. QED
      BY <1>1, <1>2, <1>3, <1>6, <3>1, <3>2, AppliedInVain
<1>7. QED
  BY <1>1, <1>5, <1>6 DEF Ask
\* take_own() changes no keys: the handle gets an empty block for none, or a
\* copy of the one it shares, or the call fails and leaves it as it was.
LEMMA OwnStep ==
  ASSUME VInv, NEW t \in Threads, OwnNew(t) \/ OwnCopy(t)
  PROVE  Values!Next \/ UNCHANGED Values!vars
<1> USE DEF Goto, Decide, Ends
<1> DEFINE c == call[t]
<1>1. pc[t] \in {"own", "copy"} /\ call' = call
  BY DEF OwnNew, OwnCopy
<1>2. /\ InCall(t) /\ IInv /\ CallOps /\ CallShape /\ TypeOK /\ outcome[t] = "none" /\ c \in Call
      /\ HandleKeys[c.h] = Read(ref[c.h]) /\ Steps(t) /\ HeldIsLive
  BY <1>1, AtStep DEF Undecided, VInv, IInv, Steps, Step
<1>3. c.h \in Handles /\ c.h \in Holder \ {t}
  BY <1>2, CallOfStep
<1>4. c.op \in PointOps \cup BinaryOps \cup {"edit"}
  BY <1>1, <1>2 DEF CallOps
<1>5. CASE outcome' = [outcome EXCEPT ![t] = "threw"] /\ ref' = ref /\ value' = value
  <2>1. HandleKeys' = HandleKeys
    BY <1>5 DEF HandleKeys, Read
  <2>2. CASE c.op = "edit"
    BY <1>1, <1>2, <1>5, <2>1, <2>2, Thrown
  <2>3. CASE c.op \in PointOps \cup BinaryOps
    <3>1. HandleKeys' = [HandleKeys EXCEPT ![c.h] = HandleKeys[c.h]]
      BY <1>3, <2>1 DEF HandleKeys
    <3>2. HandleKeys[c.h] \in LeftByFailure(c.op, HandleKeys[c.h], HandleKeys[c.g], c.k)
      BY FailureMayLeaveAll
    <3>3. \E s \in LeftByFailure(c.op, HandleKeys[c.h], HandleKeys[c.g], c.k) :
             HandleKeys' = [HandleKeys EXCEPT ![c.h] = s]
      BY <3>1, <3>2
    <3>4. QED
      BY <1>1, <1>2, <1>5, <2>3, <3>3, Thrown
  <2>4. QED
    BY <1>4, <2>2, <2>3
<1>6. ASSUME NEW b \in Blocks, NEW keys, Allocated(b, keys), keys = Read(ref[c.h]),
             ref' = [ref EXCEPT ![c.h] = b] \/ ref' = [ref EXCEPT ![t] = ref[c.h], ![c.h] = b],
             outcome' = outcome
      PROVE  UNCHANGED Values!vars
  <2>1. ref'[c.h] = b /\ value'[b] = keys /\ b # Null
    BY <1>2, <1>3, <1>6, BlockAssumption DEF Allocated, TypeOK
  <2>2. Read(ref[c.h])' = Read(ref[c.h])
    BY <1>1, <1>6, <2>1 DEF Read
  <2>3. HandleKeys'[c.h] = HandleKeys[c.h]
    BY <1>1, <1>3, <2>2 DEF HandleKeys
  <2>4. c.op \notin {"move", "swap"}
    BY <1>4 DEF PointOps, BinaryOps, HandleOps, RawOps
  <2>5. HandleKeys' = [HandleKeys EXCEPT ![c.h] = HandleKeys'[c.h]]
    BY <1>2, <2>4, OneHandle
  <2>6. HandleKeys' = HandleKeys
    BY <1>3, <2>3, <2>5 DEF HandleKeys
  <2>7. QED
    BY <1>1, <1>6, <2>6, Unseen
<1>7. CASE OwnNew(t)
  <2>1. Read(ref[c.h]) = {}
    BY <1>7 DEF OwnNew, Read
  <2>2. QED
    BY <1>5, <1>6, <1>7, <2>1 DEF OwnNew
<1>8. CASE OwnCopy(t)
  <2>1. Read(ref[c.h]) = value[ref[c.h]]
    BY <1>2, <1>8 DEF OwnCopy, CallShape, Read
  <2>2. QED
    BY <1>5, <1>6, <1>8, <2>1 DEF OwnCopy
<1>9. QED
  BY <1>7, <1>8

\* The change of a bitmap the handle owns is the one step of its call.
LEMMA ChangeStep ==
  ASSUME VInv, NEW t \in Threads, Change(t)
  PROVE  Values!Next
<1> USE DEF Goto, Decide, Ends
<1> DEFINE c == call[t]
           own == ref[c.h]
           keys == Combined(c.op, value[own], Read(arg[t]), c.k)
<1>1. pc[t] = "change" /\ call' = call /\ ref' = ref
  BY DEF Change
<1>2. /\ InCall(t) /\ IInv /\ CallOps /\ CallShape /\ SoleHolder /\ TypeOK /\ outcome[t] = "none"
      /\ c \in Call /\ HandleKeys[c.h] = Read(own) /\ Steps(t)
      /\ c.op \in BinaryOps => Read(arg[t]) = HandleKeys[c.g]
  BY <1>1, AtStep DEF Undecided, VInv, IInv, Steps, Step, Reading
<1>3. c.h \in Handles /\ c.h \in Holder \ {t}
  BY <1>2, CallOfStep
<1>4. c.op \in PointOps \cup BinaryOps
  BY <1>1, <1>2 DEF CallOps, CallShape
<1>5. c.op \notin {"move", "swap"}
  BY <1>4 DEF PointOps, BinaryOps, HandleOps, RawOps
<1>6. own # Null /\ own \in Blocks /\ HandleKeys[c.h] = value[own]
  BY <1>1, <1>2, <1>3 DEF SoleHolder, OwnsItsBlock, TypeOK, Pointer, Read
<1>7. keys = Combined(c.op, HandleKeys[c.h], HandleKeys[c.g], c.k)
  <2>1. CASE c.op \in BinaryOps
    BY <1>2, <1>6, <2>1
  <2>2. CASE c.op \in PointOps
    BY <1>6, <2>2 DEF Combined, PointOps
  <2>3. QED
    BY <1>4, <2>1, <2>2
<1>8. LeftByFailure(c.op, value[own], Read(arg[t]), c.k)
         = LeftByFailure(c.op, HandleKeys[c.h], HandleKeys[c.g], c.k)
  <2>1. CASE c.op \in BinaryOps
    BY <1>2, <1>6, <2>1
  <2>2. CASE c.op \in PointOps
    BY <1>6, <1>7, <2>2 DEF LeftByFailure, PointOps
  <2>3. QED
    BY <1>4, <2>1, <2>2
<1>9. ASSUME NEW s, value' = [value EXCEPT ![own] = s]
      PROVE  HandleKeys' = [HandleKeys EXCEPT ![c.h] = s]
  <2>1. value'[own] = s /\ ref'[c.h] = own
    BY <1>1, <1>2, <1>6, <1>9 DEF TypeOK
  <2>2. HandleKeys'[c.h] = s
    BY <1>3, <1>6, <2>1 DEF HandleKeys, Read
  <2>3. HandleKeys' = [HandleKeys EXCEPT ![c.h] = HandleKeys'[c.h]]
    BY <1>2, <1>5, OneHandle
  <2>4. QED
    BY <2>2, <2>3
<1>10. CASE /\ value' = [value EXCEPT ![own] = keys]
            /\ outcome' = [outcome EXCEPT ![t] = Returned(c.op, keys # value[own])]
  <2>1. HandleKeys' = [HandleKeys EXCEPT ![c.h] = keys]
    BY <1>9, <1>10
  <2>2. (HandleKeys' # HandleKeys) <=> (keys # value[own])
    <3>1. HandleKeys'[c.h] = keys
      BY <1>3, <2>1 DEF HandleKeys
    <3>2. keys = HandleKeys[c.h] => HandleKeys' = HandleKeys
      BY <1>3, <2>1 DEF HandleKeys
    <3>3. QED
      BY <1>6, <3>1, <3>2
  <2>3. Returned(c.op, HandleKeys' # HandleKeys) = Returned(c.op, keys # value[own])
    BY <2>2 DEF Returned
  <2>4. QED
    BY <1>1, <1>2, <1>5, <1>7, <1>10, <2>1, <2>3, Applied
<1>11. ASSUME NEW s \in LeftByFailure(c.op, value[own], Read(arg[t]), c.k),
              value' = [value EXCEPT ![own] = s], outcome' = [outcome EXCEPT ![t] = "threw"]
       PROVE  Values!Next
  <2>1. HandleKeys' = [HandleKeys EXCEPT ![c.h] = s]
    BY <1>9, <1>11
  <2>2. \E r \in LeftByFailure(c.op, HandleKeys[c.h], HandleKeys[c.g], c.k) :
           HandleKeys' = [HandleKeys EXCEPT ![c.h] = r]
    BY <1>8, <1>11, <2>1
  <2>3. QED
    BY <1>1, <1>2, <1>4, <1>11, <2>2, Thrown
<1>12. QED
  BY <1>10, <1>11 DEF Change

\* A write through an editor is seen at its handle, and the edit takes effect
\* when the editor ends.
LEMMA EditorStep ==
  ASSUME VInv, NEW t \in Threads, EditorWrite(t) \/ EditorEnd(t)
  PROVE  Values!Next
<1> USE DEF Goto, Decide, Ends
<1> DEFINE c == call[t]
           own == ref[c.h]
<1>1. pc[t] = "editor" /\ call' = call /\ ref' = ref
  BY DEF EditorWrite, EditorEnd
<1>2. /\ InCall(t) /\ IInv /\ SoleHolder /\ TypeOK /\ outcome[t] = "none" /\ c.op = "edit"
      /\ c \in Call /\ HandleKeys[c.h] = Read(own) /\ Steps(t)
  BY <1>1, AtStep DEF Undecided, VInv, IInv, Steps, Step, CallOps
<1>3. c.h \in Handles /\ c.h \in Holder \ {t} /\ c # NoCall
  BY <1>2, CallOfStep, CallAssumption
<1>4. CASE EditorEnd(t)
  <2>1. Read(own)' = Read(own)
    BY <1>4 DEF EditorEnd, Read
  <2>2. Combined(c.op, HandleKeys[c.h], HandleKeys[c.g], c.k) = HandleKeys[c.h]
    BY <1>2 DEF Combined
  <2>3. QED
    BY <1>1, <1>2, <1>4, <2>1, <2>2, AppliedTo DEF EditorEnd, PointOps
<1>5. CASE EditorWrite(t)
  <2>1. own # Null /\ own \in Blocks /\ HandleKeys[c.h] = value[own]
    BY <1>1, <1>2, <1>3 DEF SoleHolder, OwnsItsBlock, TypeOK, Pointer, Read
  <2>2. PICK k \in Keys, op \in PointOps :
           value' = [value EXCEPT ![own] = Combined(op, value[own], {}, k)]
    BY <1>5 DEF EditorWrite
  <2> DEFINE s == Combined(op, HandleKeys[c.h], {}, k)
  <2>3. value'[own] = s /\ ref'[c.h] = own
    BY <1>1, <1>2, <2>1, <2>2 DEF TypeOK
  <2>4. HandleKeys'[c.h] = s
    BY <1>3, <2>1, <2>3 DEF HandleKeys, Read
  <2>5. HandleKeys' = [HandleKeys EXCEPT ![c.h] = HandleKeys'[c.h]]
    BY <1>2, OneHandle
  <2>6. HandleKeys' = [HandleKeys EXCEPT ![c.h] = Values!Combined(op, @, {}, k)]
    BY <2>4, <2>5 DEF Values!Combined, Combined
  <2>7. k \in Keys /\ op \in Values!PointOps
    BY DEF Values!PointOps, PointOps
  <2>8. outcome' = outcome
    BY <1>5 DEF EditorWrite
  <2>9. Values!EditorWrite(t)
    BY <1>1, <1>2, <1>3, <2>6, <2>7, <2>8 DEF Values!EditorWrite, HandleKeys
  <2>10. QED
    BY <2>9 DEF Values!Next
<1>6. QED
  BY <1>4, <1>5
-----------------------------------------------------------------------------
\* Handles are made empty, and no call has begun.
LEMMA InitVInv == Init => VInv
<1> SUFFICES ASSUME Init PROVE VInv
  OBVIOUS
<1>1. IInv
  BY InitIInv
<1>2. CallOps /\ DecidedOnce /\ OperandIsRead
  BY DEF Init, CallOps, DecidedOnce, Undecided, OperandIsRead, Reading
<1>3. SizesFresh
  <2>1. Cardinality({}) = 0
    BY FS_EmptySet
  <2>2. \A h \in Handles : size[h] = 0 /\ Read(ref[h]) = {}
    BY DEF Init, Read, Holder
  <2>3. QED
    BY <2>1, <2>2 DEF SizesFresh
<1>4. QED
  BY <1>1, <1>2, <1>3 DEF VInv

\* And what the calls know of the values stays true.
LEMMA NextVInv == VInv /\ [Next]_vars => VInv'
<1> SUFFICES ASSUME VInv, [Next]_vars PROVE VInv'
  OBVIOUS
<1>1. IInv /\ CallOps /\ DecidedOnce
  BY DEF VInv
<1>2. CASE Next
  <2>1. PICK t \in Threads : Steps(t)
    BY <1>2 DEF Next, Steps
  <2>2. IInv' /\ CallOps' /\ DecidedOnce'
    BY <1>1, <2>1, IInvStep, CallOpsStep, DecidedStep
  <2>3. SizesFresh' /\ OperandIsRead'
    BY <2>1, SizesStep, OperandReadStep
  <2>4. QED
    BY <2>2, <2>3 DEF VInv
<1>3. CASE UNCHANGED vars
  <2>1. IInv'
    BY <1>1, NextIInv
  <2>2. CallOps' /\ DecidedOnce'
    BY <1>1, <1>3 DEF vars, CallOps, DecidedOnce, Undecided
  <2>3. SizesFresh' /\ OperandIsRead'
    BY <1>3 DEF vars, VInv, SizesFresh, Stale, OperandIsRead, Reading, Read
  <2>4. QED
    BY <2>1, <2>2, <2>3 DEF VInv
<1>4. QED
  BY <1>2, <1>3

\* What the calls know of the keys their handles hold, at every point of
\* shared_bitmap.hpp where another thread's call may come in between.
THEOREM ValueInvariant == Spec => []VInv
BY InitVInv, NextVInv, PTL DEF Spec

\* size() and empty() answer for the bitmap of every handle that no call is
\* changing: after a change that threw, and after the editor's end, refresh()
\* has come in time (shared_bitmap.hpp, change_end and editor).
THEOREM SizesAreCardinalities == Spec => []SizeIsCardinality
<1>1. VInv => SizeIsCardinality
  <2> SUFFICES ASSUME VInv, NEW h \in Handles,
                      \A t \in Threads : call[t] # NoCall => h \notin Writes(call[t])
               PROVE  size[h] = Cardinality(Read(ref[h]))
    BY DEF SizeIsCardinality
  <2>1. CallShape /\ SizesFresh
    BY DEF VInv, IInv
  <2>2. \A t \in Threads : Stale(t) => call[t].h # h
    BY <2>1 DEF CallShape, Stale, Writes
  <2>3. QED
    BY <2>1, <2>2 DEF SizesFresh
<1>2. QED
  BY <1>1, ValueInvariant, PTL

\* Every step of the handles is a step of HandleValues or changes nothing that
\* can be seen through a handle or a result.
LEMMA RefinedStep == VInv /\ [Next]_vars => [Values!Next]_(Values!vars)
<1> SUFFICES ASSUME VInv, [Next]_vars PROVE Values!Next \/ UNCHANGED Values!vars
  OBVIOUS
<1>1. CASE UNCHANGED vars
  <2>1. HandleKeys' = HandleKeys /\ call' = call /\ outcome' = outcome
    BY <1>1 DEF vars, HandleKeys, Read
  <2>2. QED
    BY <2>1, Unseen
<1>2. ASSUME NEW t \in Threads, Steps(t) PROVE Values!Next \/ UNCHANGED Values!vars
  <2>1. CASE Begin(t) \/ Return(t)
    BY <2>1, CallSteps
  <2>2. CASE Enter(t)
    BY <2>2, EnterStep
  <2>3. CASE Clear(t)
    BY <2>3, ClearStep
  <2>4. CASE Share(t)
    BY <2>4, ShareStep
  <2>5. CASE Move(t) \/ Swap(t)
    BY <2>5, MoveSwapStep
  <2>6. CASE Make(t)
    BY <2>6, MakeStep
  <2>7. CASE TestUnique(t) \/ OwnTest(t) \/ Refresh(t) \/ Release(t) \/ Subtract(t) \/ Free(t)
    BY <2>7, QuietStep
  <2>8. CASE Ask(t)
    BY <2>8, AskStep
  <2>9. CASE OwnNew(t) \/ OwnCopy(t)
    BY <2>9, OwnStep
  <2>10. CASE Change(t)
    BY <2>10, ChangeStep
  <2>11. CASE EditorWrite(t) \/ EditorEnd(t)
    BY <2>11, EditorStep
  <2>12. QED
    BY <1>2, <2>1, <2>2, <2>3, <2>4, <2>5, <2>6, <2>7, <2>8, <2>9, <2>10, <2>11 DEF Steps, Step
<1>3. QED
  BY <1>1, <1>2 DEF Next, Steps

\* Handles that share their bitmaps behave as handles that each hold a set of
\* their own: every call of shared_bitmap takes effect in one step, on the
\* handles it was given and on no other, whatever the threads do in between.
THEOREM ImplementsValues == Spec => ImplementsHandleValues
<1>1. Init => Values!Init
  <2> SUFFICES ASSUME Init PROVE Values!Init
    OBVIOUS
  <2>1. \A h \in Handles : Read(ref[h]) = {}
    BY DEF Init, Read, Holder
  <2>2. QED
    BY <2>1 DEF Init, Values!Init
<1>2. VInv /\ [Next]_vars => [Values!Next]_(Values!vars)
  BY RefinedStep
<1>3. QED
  BY <1>1, <1>2, ValueInvariant, PTL DEF Spec, Values!Spec, ImplementsHandleValues
=============================================================================
