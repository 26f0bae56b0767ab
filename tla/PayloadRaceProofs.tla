------------------------- MODULE PayloadRaceProofs -------------------------
(***************************************************************************)
(* The properties of PayloadRace for any number of threads and handles,    *)
(* and however often the count is changed.                                 *)
(***************************************************************************)
EXTENDS PayloadRaceMC, FiniteSetTheorems, SequenceTheorems, TLAPS

Kinds  == {"read", "write", "count", "free"}
Entry  == [value : Int, unseen : View]

\* The steps that touch the payload, and those that read the count.
Touches(t) == Read(t) \/ WriteInPlace(t) \/ CopyOut(t) \/ FreePayload(t)
Loads(t)   == \E i \in DOMAIN count : Barrier(t, i) \/ SoleOwner(t, i)

\* The steps that append a value.
Counts(t) == Copy(t) \/ CopyLent(t) \/ Lower(t)

\* The steps that leave the count alone.
Hands(t) == Publish(t) \/ TakeBack(t) \/ Drop(t) \/ Fence(t)

Steps(t) == Touches(t) \/ Loads(t) \/ Counts(t) \/ Hands(t)

-----------------------------------------------------------------------------
\* A sequence is as long as its domain.
LEMMA LengthOfDomain ==
  ASSUME NEW S, NEW n \in Nat, NEW s \in Seq(S), DOMAIN s = 1..n
  PROVE  Len(s) = n
  OBVIOUS

\* Every value of the count keeps its place when a step joins what it has not
\* seen, and there is one at least.
LEMMA CountBehindShape ==
  ASSUME TypeOK, NEW t \in Threads, NEW kind \in Kinds
  PROVE  /\ CountBehind(<<t, kind>>) \in Seq(Entry)
         /\ Len(CountBehind(<<t, kind>>)) = Len(count)
         /\ \A i \in DOMAIN count : CountBehind(<<t, kind>>)[i] =
              [value |-> count[i].value, unseen |-> count[i].unseen \cup {<<t, kind>>}]
         /\ Len(count) \in Nat \ {0} /\ DOMAIN count = 1..Len(count)
         /\ Current \in Entry
<1> DEFINE after == CountBehind(<<t, kind>>)
<1>1. count \in Seq(Entry) /\ count # << >>
  BY DEF TypeOK, Entry
<1>2. Len(count) \in Nat \ {0} /\ DOMAIN count = 1..Len(count)
  BY <1>1, EmptySeq, LenProperties
<1>3. \A i \in 1..Len(count) : count[i] \in Entry
  BY <1>1, ElementOfSeq
<1>4. \A i \in 1..Len(count) : after[i] =
        [value |-> count[i].value, unseen |-> count[i].unseen \cup {<<t, kind>>}]
  BY <1>2, <1>3 DEF CountBehind, Missing, Entry
<1>5. after \in [1..Len(count) -> Entry]
  <2>1. \A i \in 1..Len(count) : after[i] \in Entry
    <3>1. {<<t, kind>>} \in View
      BY DEF View, Kinds
    <3>2. SUFFICES ASSUME NEW i \in 1..Len(count) PROVE after[i] \in Entry
      OBVIOUS
    <3>3. count[i].value \in Int /\ count[i].unseen \cup {<<t, kind>>} \in View
      BY <1>3, <3>1 DEF Entry, View
    <3>4. after[i] = [value |-> count[i].value, unseen |-> count[i].unseen \cup {<<t, kind>>}]
      BY <1>4
    <3>5. [value |-> count[i].value, unseen |-> count[i].unseen \cup {<<t, kind>>}] \in Entry
      BY <3>3 DEF Entry
    <3>6. QED
      BY <3>4, <3>5
  <2>2. after = [i \in 1..Len(count) |-> after[i]]
    BY <1>2 DEF CountBehind
  <2>3. QED
    BY <2>1, <2>2
<1>6. after \in Seq(Entry) /\ Len(after) = Len(count)
  <2>1. after \in Seq(Entry)
    BY <1>2, <1>5, SeqDef
  <2>2. Len(after) = Len(count)
    BY <1>2, <1>5, <2>1, LengthOfDomain
  <2>3. QED
    BY <2>1, <2>2
<1>7. QED
  BY <1>2, <1>3, <1>4, <1>6 DEF Current

\* What nobody has seen of the lent handle's views, when somebody takes a step.
LEMMA LentBehindShape ==
  ASSUME TypeOK, NEW t \in Threads, NEW kind \in Kinds
  PROVE  LET after == LentBehind(<<t, kind>>)
         IN  /\ lent = Nobody => after = Nobody
             /\ lent # Nobody => after = [lent EXCEPT !.shown = @ \cup {<<t, kind>>},
                                                      !.back = @ \cup {<<t, kind>>}]
             /\ lent # Nobody => after \in [owner : Threads, shown : View, back : View, at : DOMAIN count]
             /\ after.owner = lent.owner /\ after.at = lent.at
             /\ after = Nobody <=> lent = Nobody
<1>1. {<<t, kind>>} \in View
  BY DEF View, Kinds
<1>2. CASE lent = Nobody
  BY <1>2 DEF LentBehind
<1>3. CASE lent # Nobody
  <2>1. lent \in [owner : Threads, shown : View, back : View, at : DOMAIN count]
    BY <1>3 DEF TypeOK
  <2>2. LentBehind(<<t, kind>>) = [lent EXCEPT !.shown = @ \cup {<<t, kind>>},
                                               !.back = @ \cup {<<t, kind>>}]
    BY <1>3 DEF LentBehind, Missing
  <2>3. LentBehind(<<t, kind>>) \in [owner : Threads, shown : View, back : View, at : DOMAIN count]
    <3>1. lent.shown \cup {<<t, kind>>} \in View /\ lent.back \cup {<<t, kind>>} \in View
      BY <1>1, <2>1 DEF View
    <3>2. QED
      BY <2>1, <2>2, <3>1
  <2>4. LentBehind(<<t, kind>>) # Nobody
    BY <2>3, ThreadsAssumption DEF Nobody
  <2>5. QED
    BY <1>3, <2>1, <2>2, <2>3, <2>4
<1>4. QED
  BY <1>2, <1>3

\* What a step leaves in the views: of the other threads, of the values of the
\* count that were there, and of the lent handle.
Behind(t, kind) ==
  /\ \A u \in Threads \ {t} : unseen'[u] = unseen[u] \cup {<<t, kind>>}
  /\ \A i \in DOMAIN count : count'[i] =
       [value |-> count[i].value, unseen |-> count[i].unseen \cup {<<t, kind>>}]


\* The part of the type invariant that is about the count and the views.
ViewsTypeOK ==
  /\ count \in Seq(Entry) /\ count # << >>
  /\ at \in [Threads -> DOMAIN count]
  /\ unseen \in [Threads -> View] /\ pending \in [Threads -> View]

\* What the steps that do not change the value of the count leave.
Looked(t, kind) ==
  /\ Behind(t, kind)
  /\ unseen'[t] \subseteq unseen[t]
  /\ \A u \in Threads : pending'[u] = pending[u] \cup {<<t, kind>>}
  /\ Len(count') = Len(count) /\ DOMAIN count' = DOMAIN count
  /\ Current'.value = Current.value /\ Current'.unseen = Current.unseen \cup {<<t, kind>>}
  /\ lent' = LentBehind(<<t, kind>>)
  /\ \A u \in Threads : at[u] <= at'[u]

LEMMA LookEffect ==
  ASSUME TypeOK, NEW t \in Threads, NEW kind \in Kinds,
         \/ Touch(t, kind)
         \/ kind = "count" /\ \E i \in DOMAIN count : Load(t, i)
  PROVE  ViewsTypeOK' /\ Looked(t, kind)
<1> DEFINE step == <<t, kind>>
<1>1. {step} \in View
  BY DEF View, Kinds
<1>2. count' = CountBehind(step) /\ lent' = LentBehind(step)
  BY DEF Touch, Load
<1>3. PICK mine : /\ mine \subseteq unseen[t]
                  /\ unseen' = [u \in Threads |-> IF u = t THEN mine ELSE unseen[u] \cup {step}]
  <2>1. CASE Touch(t, kind)
    BY <2>1 DEF Touch, Step, Missing
  <2>2. ASSUME NEW i \in DOMAIN count, Load(t, i), kind = "count" 
        PROVE  unseen' = [u \in Threads |-> IF u = t THEN unseen[t] \cap count[i].unseen
                                                     ELSE unseen[u] \cup {step}]
    BY <2>2 DEF Load, Step, Missing
  <2>3. QED
    BY <2>1, <2>2
<1>4. pending' = [u \in Threads |-> pending[u] \cup {step}]
  BY DEF Touch, Load, FenceBehind, Missing
<1>5. at' = at \/ \E i \in at[t]..Len(count) : at' = [at EXCEPT ![t] = i]
  BY DEF Touch, Load
<1>6. /\ count' \in Seq(Entry) /\ Len(count') = Len(count) /\ DOMAIN count' = DOMAIN count
      /\ DOMAIN count = 1..Len(count) /\ Len(count) \in Nat \ {0}
  BY <1>2, CountBehindShape, LenProperties
<1>7. \A u \in Threads : at[u] \in 1..Len(count)
  BY <1>6 DEF TypeOK
<1>8. at' \in [Threads -> DOMAIN count'] /\ \A u \in Threads : at[u] <= at'[u]
  <2>1. at \in [Threads -> 1..Len(count)]
    BY <1>6 DEF TypeOK
  <2>2. CASE at' = at
    BY <1>6, <1>7, <2>1, <2>2
  <2>3. ASSUME NEW i \in at[t]..Len(count), at' = [at EXCEPT ![t] = i]
        PROVE  at' \in [Threads -> DOMAIN count'] /\ \A u \in Threads : at[u] <= at'[u]
    <3>1. i \in 1..Len(count) /\ at[t] <= i
      BY <1>6, <1>7
    <3>2. QED
      BY <1>6, <1>7, <2>1, <2>3, <3>1
  <2>4. QED
    BY <1>5, <2>2, <2>3
<1>9. unseen' \in [Threads -> View] /\ pending' \in [Threads -> View]
  BY <1>1, <1>3, <1>4 DEF TypeOK, View
<1>10. Behind(t, kind)
  BY <1>2, <1>3, CountBehindShape DEF Behind
<1>11. Current'.value = Current.value /\ Current'.unseen = Current.unseen \cup {step}
  BY <1>6, <1>10 DEF Behind, Current
<1>12. QED
  BY <1>2, <1>3, <1>4, <1>6, <1>8, <1>9, <1>10, <1>11, EmptySeq DEF ViewsTypeOK, Looked

\* What a change of the count leaves: t, which has seen mine, appends a value.
Modified(t, mine, delta, releases) ==
  /\ Behind(t, "count")
  /\ unseen'[t] = mine
  /\ \A u \in Threads \ {t} : pending'[u] = pending[u] \cup {<<t, "count">>}
  /\ pending'[t] = (pending[t] \cap Current.unseen) \cup {<<t, "count">>}
  /\ Len(count') = Len(count) + 1 /\ DOMAIN count' = 1..Len(count) + 1
  /\ DOMAIN count = 1..Len(count) /\ Len(count) \in Nat \ {0}
  /\ Current'.value = Current.value + delta
  /\ Current'.unseen = IF releases THEN (Current.unseen \cup {<<t, "count">>}) \cap mine
                       ELSE Current.unseen \cup {<<t, "count">>}
  /\ at' = [at EXCEPT ![t] = Len(count) + 1]

LEMMA ModifyEffect ==
  ASSUME TypeOK, NEW t \in Threads, NEW mine \in View, NEW delta \in Int,
         NEW releases \in BOOLEAN, Modify(t, mine, delta, releases)
  PROVE  ViewsTypeOK' /\ Modified(t, mine, delta, releases)
<1> DEFINE step   == <<t, "count">>
           passed == Current.unseen \cup {step}
           last   == [value |-> Current.value + delta,
                      unseen |-> IF releases THEN passed \cap mine ELSE passed]
<1>1. {step} \in View
  BY DEF View
<1>2. count' = Append(CountBehind(step), last)
  BY DEF Modify, Missing
<1>3. /\ CountBehind(step) \in Seq(Entry) /\ Len(CountBehind(step)) = Len(count)
      /\ DOMAIN count = 1..Len(count) /\ Len(count) \in Nat \ {0} /\ Current \in Entry
      /\ \A i \in DOMAIN count : CountBehind(step)[i] =
              [value |-> count[i].value, unseen |-> count[i].unseen \cup {step}]
  BY CountBehindShape DEF Kinds
<1>4. last \in Entry
  <2>1. passed \in View /\ passed \cap mine \in View
    BY <1>1, <1>3 DEF Entry, View
  <2>2. Current.value + delta \in Int
    BY <1>3 DEF Entry
  <2>3. QED
    BY <2>1, <2>2 DEF Entry
<1>5. /\ count' \in Seq(Entry) /\ Len(count') = Len(count) + 1
      /\ \A i \in 1..Len(count) : count'[i] = CountBehind(step)[i]
      /\ count'[Len(count) + 1] = last
  <2> DEFINE before == CountBehind(step)
  <2> HIDE DEF last, before
  <2>1. before \in Seq(Entry) /\ last \in Entry /\ Len(before) = Len(count)
    BY <1>3, <1>4 DEF before
  <2>2. /\ Append(before, last) \in Seq(Entry) /\ Len(Append(before, last)) = Len(before) + 1
        /\ \A i \in 1..Len(before) : Append(before, last)[i] = before[i]
        /\ Append(before, last)[Len(before) + 1] = last
    BY <2>1, AppendProperties
  <2>3. QED
    BY <1>2, <2>1, <2>2 DEF before
<1>6. DOMAIN count' = 1..Len(count) + 1
  BY <1>5, LenProperties
<1>7. Current' = last
  BY <1>5 DEF Current
<1>8. unseen' = [u \in Threads |-> IF u = t THEN mine ELSE unseen[u] \cup {step}]
  BY DEF Modify, Step, Missing
<1>9. pending' = [u \in Threads |-> IF u = t THEN (pending[t] \cap Current.unseen) \cup {step}
                                             ELSE pending[u] \cup {step}]
  BY DEF Modify, FenceBehind, Missing, TypeOK
<1>10. unseen' \in [Threads -> View] /\ pending' \in [Threads -> View]
  BY <1>1, <1>8, <1>9 DEF TypeOK, View
<1>11. at' = [at EXCEPT ![t] = Len(count) + 1]
  BY DEF Modify
<1>12. at' \in [Threads -> DOMAIN count']
  BY <1>3, <1>6, <1>11 DEF TypeOK
<1>13. Behind(t, "count")
  BY <1>3, <1>5, <1>8 DEF Behind
<1>14. count' # << >>
  BY <1>3, <1>5
<1>15. ViewsTypeOK'
  BY <1>5, <1>10, <1>12, <1>14 DEF ViewsTypeOK
<1>16. QED
  BY <1>3, <1>5, <1>6, <1>7, <1>8, <1>9, <1>11, <1>13, <1>15 DEF Modified

\* rc_increment raises the count and passes on what the value before released;
\* rc_decrement_is_last lowers it and releases what its thread has seen.
LEMMA IncrementEffect ==
  ASSUME TypeOK, NEW t \in Threads, NEW mine \in View, Increment(t, mine)
  PROVE  ViewsTypeOK' /\ Modified(t, mine, 1, FALSE)
<1>1. 1 \in Int /\ FALSE \in BOOLEAN
  OBVIOUS
<1>2. Modify(t, mine, 1, FALSE)
  BY DEF Increment
<1>3. QED
  BY <1>1, <1>2, ModifyEffect, Zenon

LEMMA DecrementEffect ==
  ASSUME TypeOK, NEW t \in Threads, Decrement(t)
  PROVE  ViewsTypeOK' /\ Modified(t, unseen[t], -1, TRUE)
<1>1. -1 \in Int /\ TRUE \in BOOLEAN /\ unseen[t] \in View
  BY DEF TypeOK
<1>2. Modify(t, unseen[t], -1, TRUE)
  BY DEF Decrement
<1>3. QED
  BY <1>1, <1>2, ModifyEffect, Zenon

\* A step that touches the payload or reads the count is one look; one that
\* raises or lowers the count is one change.
LEMMA LooksEffect ==
  ASSUME TypeOK, NEW t \in Threads, Touches(t) \/ Loads(t)
  PROVE  ViewsTypeOK' /\ \E kind \in Kinds :
           /\ Looked(t, kind)
           /\ (kind = "write" <=> WriteInPlace(t)) /\ (kind = "free" <=> FreePayload(t))
<1>1. PICK kind \in Kinds :
        /\ Touch(t, kind) \/ (kind = "count" /\ \E i \in DOMAIN count : Load(t, i))
        /\ (kind = "write" <=> WriteInPlace(t)) /\ (kind = "free" <=> FreePayload(t))
  <2>1. CASE Read(t)
    <3>1. Touch(t, "read") /\ ~WriteInPlace(t) /\ ~FreePayload(t)
      BY <2>1 DEF Read, Idle, WriteInPlace, FreePayload
    <3>2. QED
      BY <3>1 DEF Kinds
  <2>2. CASE WriteInPlace(t)
    <3>1. Touch(t, "write") /\ ~FreePayload(t)
      BY <2>2 DEF WriteInPlace, FreePayload
    <3>2. QED
      BY <2>2, <3>1 DEF Kinds
  <2>3. CASE CopyOut(t)
    <3>1. Touch(t, "read") /\ ~WriteInPlace(t) /\ ~FreePayload(t)
      BY <2>3 DEF CopyOut, WriteInPlace, FreePayload
    <3>2. QED
      BY <3>1 DEF Kinds
  <2>4. CASE FreePayload(t)
    <3>1. Touch(t, "free") /\ ~WriteInPlace(t)
      BY <2>4 DEF WriteInPlace, FreePayload
    <3>2. QED
      BY <2>4, <3>1 DEF Kinds
  <2>5. CASE Loads(t)
    <3>1. (\E i \in DOMAIN count : Load(t, i)) /\ ~WriteInPlace(t) /\ ~FreePayload(t)
      BY <2>5 DEF Loads, Barrier, SoleOwner, Idle, WriteInPlace, FreePayload
    <3>2. QED
      BY <3>1 DEF Kinds
  <2>6. QED
    BY <2>1, <2>2, <2>3, <2>4, <2>5 DEF Touches
<1>2. QED
  BY <1>1, LookEffect

LEMMA CountsEffect ==
  ASSUME TypeOK, NEW t \in Threads, Counts(t)
  PROVE  /\ ViewsTypeOK' /\ Behind(t, "count")
         /\ unseen'[t] \subseteq unseen[t]
         /\ \A u \in Threads \ {t} : pending'[u] = pending[u] \cup {<<t, "count">>}
         /\ pending'[t] = (pending[t] \cap Current.unseen) \cup {<<t, "count">>}
         /\ Len(count') = Len(count) + 1 /\ DOMAIN count' = 1..Len(count) + 1
         /\ DOMAIN count = 1..Len(count) /\ Len(count) \in Nat \ {0}
         /\ Current'.unseen \subseteq Current.unseen \cup {<<t, "count">>}
         /\ at'[t] = Len(count) + 1
<1>0. at \in [Threads -> DOMAIN count] /\ unseen \in [Threads -> View]
  BY DEF TypeOK
<1>1. CASE Copy(t) \/ CopyLent(t)
  <2>1. PICK mine \in View : mine \subseteq unseen[t] /\ Increment(t, mine)
    <3>1. unseen[t] \in View /\ unseen[t] \cap lent.shown \in View
      BY <1>0 DEF View
    <3>2. QED
      BY <1>1, <3>1 DEF Copy, CopyLent
  <2>2. ViewsTypeOK' /\ Modified(t, mine, 1, FALSE)
    BY <2>1, IncrementEffect
  <2>3. QED
    BY <1>0, <2>1, <2>2 DEF Modified
<1>2. CASE Lower(t)
  <2>1. ViewsTypeOK' /\ Modified(t, unseen[t], -1, TRUE)
    BY <1>2, DecrementEffect DEF Lower
  <2>2. QED
    BY <1>0, <2>1 DEF Modified
<1>3. QED
  BY <1>1, <1>2 DEF Counts

-----------------------------------------------------------------------------
\* Init and every step leave values of the types.
LEMMA TypeInit == Init => TypeOK
<1> SUFFICES ASSUME Init PROVE TypeOK
  OBVIOUS
<1> DEFINE filled == {<<Creator, "write">>}
<1>1. filled \in View /\ {} \in View
  BY ThreadsAssumption DEF View
<1>2. /\ count = << [value |-> 1, unseen |-> filled] >>
      /\ unseen = [t \in Threads |-> IF t = Creator THEN {} ELSE filled]
      /\ pending = [t \in Threads |-> filled]
  BY DEF Init
<1>3. count \in Seq([value : Int, unseen : View]) /\ Len(count) = 1
  BY <1>1, <1>2
<1>4. count # << >> /\ DOMAIN count = {1}
  BY <1>3, LenProperties, EmptySeq
<1>5. unseen \in [Threads -> View] /\ pending \in [Threads -> View]
  BY <1>1, <1>2
<1>6. QED
  BY <1>3, <1>4, <1>5 DEF Init, TypeOK, Places

LEMMA TypeStep ==
  ASSUME TypeOK, CallsHold, NEW t \in Threads, Steps(t)
  PROVE  TypeOK'
<1>1. /\ TypeOK <=> /\ ViewsTypeOK /\ holds \in [Threads -> Nat] /\ pc \in [Threads -> Places]
                    /\ lent = Nobody \/ lent \in [owner : Threads, shown : View, back : View, at : DOMAIN count]
      /\ TypeOK' <=> /\ ViewsTypeOK' /\ holds' \in [Threads -> Nat] /\ pc' \in [Threads -> Places]
                     /\ lent' = Nobody \/ lent' \in [owner : Threads, shown : View, back : View, at : DOMAIN count']
  BY DEF TypeOK, ViewsTypeOK, Entry, Places
<1>2. /\ DOMAIN count = 1..Len(count) /\ Len(count) \in Nat \ {0}
  BY CountBehindShape DEF Kinds
<1>3. CASE Touches(t) \/ Loads(t)
  <2>1. PICK kind \in Kinds : Touch(t, kind) \/ (kind = "count" /\ \E i \in DOMAIN count : Load(t, i))
    BY <1>3 DEF Touches, Loads, Read, WriteInPlace, CopyOut, FreePayload, Barrier, SoleOwner, Kinds
  <2>2. ViewsTypeOK' /\ Looked(t, kind)
    BY <2>1, LookEffect
  <2>3. lent' = Nobody \/ lent' \in [owner : Threads, shown : View, back : View, at : DOMAIN count']
    BY <2>2, LentBehindShape DEF Looked
  <2>4. holds' = holds \/ holds' = [holds EXCEPT ![t] = 0]
    BY <1>3 DEF Touches, Loads, Read, WriteInPlace, CopyOut, FreePayload, Barrier, SoleOwner
  <2>5. pc' = pc \/ \E place \in Places : pc' = [pc EXCEPT ![t] = place]
    BY <1>3 DEF Touches, Loads, Read, WriteInPlace, CopyOut, FreePayload, Barrier, SoleOwner,
                Goto, Places
  <2>6. holds' \in [Threads -> Nat] /\ pc' \in [Threads -> Places]
    BY <1>1, <2>4, <2>5
  <2>7. QED
    BY <1>1, <2>2, <2>3, <2>6
<1>4. CASE Copy(t)
  <2>1. Increment(t, unseen[t]) /\ unseen[t] \in View
    BY <1>1, <1>4 DEF Copy, ViewsTypeOK
  <2>2. ViewsTypeOK' /\ Modified(t, unseen[t], 1, FALSE)
    BY <2>1, IncrementEffect
  <2>3. DOMAIN count \subseteq DOMAIN count'
    BY <2>2 DEF Modified
  <2>4. lent' = Nobody \/ lent' \in [owner : Threads, shown : View, back : View, at : DOMAIN count']
    BY <1>4, <2>3, LentBehindShape DEF Copy, Kinds
  <2>5. QED
    BY <1>1, <1>4, <2>2, <2>4 DEF Copy
<1>5. CASE CopyLent(t)
  <2> DEFINE mine == unseen[t] \cap lent.shown
             behind == LentBehind(<<t, "count">>)
  <2>1. lent # Nobody /\ lent \in [owner : Threads, shown : View, back : View, at : DOMAIN count]
    BY <1>1, <1>5, ThreadsAssumption DEF CopyLent, Nobody
  <2>2. Increment(t, mine) /\ mine \in View
    BY <1>1, <1>5, <2>1 DEF CopyLent, ViewsTypeOK, View
  <2>3. ViewsTypeOK' /\ Modified(t, mine, 1, FALSE)
    BY <2>2, IncrementEffect
  <2>4. /\ behind \in [owner : Threads, shown : View, back : View, at : DOMAIN count]
        /\ lent' = [behind EXCEPT !.back = @ \cap mine, !.at = Len(count) + 1]
    BY <1>5, <2>1, LentBehindShape DEF CopyLent, Kinds
  <2>5. behind.back \cap mine \in View /\ Len(count) + 1 \in DOMAIN count'
    BY <1>2, <2>3, <2>4 DEF Modified, View
  <2>6. lent' \in [owner : Threads, shown : View, back : View, at : DOMAIN count']
    BY <2>4, <2>5
  <2>7. QED
    BY <1>1, <1>5, <2>3, <2>6 DEF CopyLent
<1>6. CASE Lower(t)
  <2>1. Decrement(t)
    BY <1>6 DEF Lower
  <2>2. ViewsTypeOK' /\ Modified(t, unseen[t], -1, TRUE)
    BY <2>1, DecrementEffect
  <2>3. DOMAIN count \subseteq DOMAIN count'
    BY <2>2 DEF Modified
  <2>4. lent' = Nobody \/ lent' \in [owner : Threads, shown : View, back : View, at : DOMAIN count']
    BY <1>6, <2>3, LentBehindShape DEF Lower, Kinds
  <2>5. holds[t] > 0
    BY <1>6 DEF Lower, CallsHold
  <2>6. holds' = [holds EXCEPT ![t] = holds[t] - 1] /\ holds[t] - 1 \in Nat
    BY <1>1, <1>6, <2>5 DEF Lower
  <2>7. \E place \in Places : pc' = [pc EXCEPT ![t] = place]
    BY <1>6 DEF Lower, Goto, Places
  <2>8. holds' \in [Threads -> Nat] /\ pc' \in [Threads -> Places]
    BY <1>1, <2>6, <2>7
  <2>9. QED
    BY <1>1, <2>2, <2>4, <2>8
<1>7. CASE Publish(t)
  BY <1>1, <1>7 DEF Publish, ViewsTypeOK
<1>8. CASE TakeBack(t)
  <2>1. lent \in [owner : Threads, shown : View, back : View, at : DOMAIN count]
    BY <1>1, <1>8, ThreadsAssumption DEF TakeBack, Nobody
  <2>2. unseen' \in [Threads -> View] /\ at' \in [Threads -> DOMAIN count]
    BY <1>1, <1>8, <2>1 DEF TakeBack, ViewsTypeOK, View
  <2>3. QED
    BY <1>1, <1>8, <2>2 DEF TakeBack, ViewsTypeOK
<1>9. CASE Drop(t)
  BY <1>1, <1>9 DEF Drop, Goto, ViewsTypeOK, Places
<1>10. CASE Fence(t)
  <2>1. unseen' \in [Threads -> View]
    BY <1>1, <1>10 DEF Fence, ViewsTypeOK, View
  <2>2. QED
    BY <1>1, <1>10, <2>1 DEF Fence, Goto, ViewsTypeOK, Places
<1>11. QED
  BY <1>3, <1>4, <1>5, <1>6, <1>7, <1>8, <1>9, <1>10 DEF Steps, Counts, Hands

-----------------------------------------------------------------------------
(***************************************************************************)
(* The handles and the count.                                              *)
(***************************************************************************)

\* Only its owner lends a handle and takes it back: clone_from does neither.
LEMMA LentStays ==
  ASSUME TypeOK, NEW t \in Threads, Touches(t) \/ Loads(t) \/ Counts(t)
  PROVE  /\ lent'.owner = lent.owner /\ (lent' = Nobody <=> lent = Nobody)
         /\ ~CopyLent(t) => lent'.at = lent.at
         /\ CopyLent(t) => lent'.at = Len(count) + 1
<1>1. CASE CopyLent(t)
  <2> DEFINE behind == LentBehind(<<t, "count">>)
  <2>1. lent # Nobody
    BY <1>1, ThreadsAssumption DEF CopyLent, Nobody
  <2>2. behind \in [owner : Threads, shown : View, back : View, at : DOMAIN count] /\ behind.owner = lent.owner
    BY <2>1, LentBehindShape DEF Kinds
  <2>3. lent' = [behind EXCEPT !.back = @ \cap (unseen[t] \cap lent.shown), !.at = Len(count) + 1]
    BY <1>1 DEF CopyLent
  <2>4. lent'.owner = lent.owner /\ lent'.at = Len(count) + 1
    BY <2>2, <2>3
  <2>5. lent.owner \in Threads /\ Nobody.owner \notin Threads
    BY <1>1, ThreadsAssumption DEF CopyLent, Nobody
  <2>6. QED
    BY <1>1, <2>1, <2>4, <2>5
<1>2. CASE ~CopyLent(t)
  <2>1. \E kind \in Kinds : lent' = LentBehind(<<t, kind>>)
    BY <1>2 DEF Touches, Loads, Counts, Read, WriteInPlace, CopyOut, FreePayload, Barrier, SoleOwner,
                Touch, Load, Copy, Lower, Kinds
  <2>2. PICK kind \in Kinds : lent' = LentBehind(<<t, kind>>)
    BY <2>1
  <2>3. lent'.owner = lent.owner /\ lent'.at = lent.at /\ (lent' = Nobody <=> lent = Nobody)
    BY <2>2, LentBehindShape
  <2>4. QED
    BY <1>2, <2>3
<1>3. QED
  BY <1>1, <1>2

\* A step of one thread leaves the handles and the place of the others alone.
LEMMA OthersStay ==
  ASSUME TypeOK, NEW t \in Threads, Steps(t), NEW u \in Threads \ {t}
  PROVE  /\ holds'[u] = holds[u] /\ pc'[u] = pc[u] /\ at'[u] = at[u]
         /\ (lent'.owner = u) <=> (lent.owner = u)
<1>1. holds \in [Threads -> Nat] /\ pc \in [Threads -> Places] /\ at \in [Threads -> DOMAIN count]
  BY DEF TypeOK
<1>2. CASE Touches(t)
  BY <1>1, <1>2, LentStays DEF Touches, Read, WriteInPlace, CopyOut, FreePayload, Touch, Goto
<1>3. CASE Loads(t)
  BY <1>1, <1>3, LentStays DEF Loads, Barrier, SoleOwner, Load, Goto
<1>4. CASE Counts(t)
  BY <1>1, <1>4, LentStays
     DEF Counts, Copy, CopyLent, Lower, Increment, Decrement, Modify, Goto
<1>5. CASE Publish(t)
  <2>1. lent'.owner = t /\ lent = Nobody
    BY <1>5 DEF Publish
  <2>2. lent.owner # u
    BY <2>1, ThreadsAssumption DEF Nobody
  <2>3. QED
    BY <1>1, <1>5, <2>1, <2>2 DEF Publish
<1>6. CASE TakeBack(t)
  <2>1. lent'.owner # u /\ lent.owner = t
    BY <1>6, ThreadsAssumption DEF TakeBack, Nobody
  <2>2. QED
    BY <1>1, <1>6, <2>1 DEF TakeBack
<1>7. CASE Drop(t) \/ Fence(t)
  BY <1>1, <1>7 DEF Drop, Fence, Goto
<1>8. QED
  BY <1>2, <1>3, <1>4, <1>5, <1>6, <1>7 DEF Steps, Hands

\* Whoever is alone with the payload, to write it or to free it, is the only
\* one that can take a step; once it is freed nobody can.
LEMMA OnlyTheAloneStep ==
  ASSUME TypeOK, CallsHold, LettingIsAlone, NEW t \in Threads, Steps(t)
  PROVE  Unfreed /\ \A u \in Threads \ {t} : ~Letting(u) /\ pc[u] # "write"
<1>1. pc[t] # "freed"
  BY DEF Steps, Touches, Loads, Counts, Hands, Read, WriteInPlace, CopyOut, FreePayload, Barrier,
         SoleOwner, Copy, CopyLent, Lower, Publish, TakeBack, Drop, Fence, Idle, MayCopy
<1>2. ~(pc[t] = "idle" /\ holds[t] = 0 /\ lent = Nobody)
  <2> SUFFICES ASSUME pc[t] = "idle", holds[t] = 0, lent = Nobody PROVE FALSE
    OBVIOUS
  <2>1. lent.owner \notin Threads
    BY ThreadsAssumption DEF Nobody
  <2>2. ~TakeBack(t) /\ ~CopyLent(t)
    BY <2>1 DEF TakeBack, CopyLent
  <2>3. ~(holds[t] > 0)
    OBVIOUS
  <2>4. ~Touches(t) /\ ~Loads(t)
    BY <2>3 DEF Touches, Loads, Read, WriteInPlace, CopyOut, FreePayload, Barrier, SoleOwner
  <2>5. ~Copy(t) /\ ~Lower(t) /\ ~Publish(t) /\ ~Drop(t) /\ ~Fence(t)
    BY <2>3 DEF Copy, Lower, Publish, Drop, Fence
  <2>6. QED
    BY <2>2, <2>4, <2>5 DEF Steps, Counts, Hands
<1>3. ASSUME NEW u \in Threads \ {t}, Letting(u) \/ pc[u] = "write" PROVE FALSE
  <2>1. Alone(u)
    BY <1>3 DEF LettingIsAlone
  <2>2. QED
    BY <1>2, <2>1 DEF Alone
<1>4. QED
  BY <1>1, <1>3 DEF Unfreed, Letting

\* The handles are a finite set; two of them make the count more than one.
LEMMA HeldIsFinite == IsFiniteSet(Held)
<1>1. IsFiniteSet(0..Handles + 1)
  BY ThreadsAssumption, FS_Interval
<1>2. IsFiniteSet(Threads \X (0..Handles + 1))
  BY <1>1, ThreadsAssumption, FS_Product
<1>3. Held \subseteq Threads \X (0..Handles + 1)
  BY DEF Held
<1>4. QED
  BY <1>2, <1>3, FS_Subset

LEMMA TwoHeld ==
  ASSUME CountIsHeld, Unfreed, NEW g \in Held, NEW h \in Held, g # h
  PROVE  Current.value > 1
<1>1. IsFiniteSet(Held) /\ IsFiniteSet(Held \ {g})
  BY HeldIsFinite, FS_RemoveElement
<1>2. Cardinality(Held) \in Nat /\ Cardinality(Held \ {g}) \in Nat
  BY <1>1, FS_CardinalityType
<1>3. Cardinality(Held \ {g}) = Cardinality(Held) - 1
  BY <1>1, FS_RemoveElement
<1>4. Cardinality(Held \ {g}) # 0
  BY <1>1, FS_EmptySet
<1>5. QED
  BY <1>2, <1>3, <1>4 DEF CountIsHeld

\* A handle a thread holds, and the one that is lent, are among them.
LEMMA HandlesAreHeld ==
  ASSUME TypeOK, HandlesBounded, NEW t \in Threads
  PROVE  /\ \A n \in 1..holds[t] : <<t, n>> \in Held
         /\ lent.owner = t => <<t, 0>> \in Held
         /\ holds[t] <= Handles + 1
BY ThreadsAssumption DEF TypeOK, HandlesBounded, Held

\* A count of one is the count of a thread that is alone.
LEMMA OneIsAlone ==
  ASSUME TypeOK, HandlesBounded, CallsHold, CountIsHeld, LettingIsAlone, Unfreed,
         NEW t \in Threads, holds[t] > 0, Current.value <= 1
  PROVE  Alone(t) /\ holds[t] = 1
<1>1. \A g, h \in Held : g = h
  <2> SUFFICES ASSUME NEW g \in Held, NEW h \in Held, g # h PROVE FALSE
    OBVIOUS
  <2>1. Current.value > 1
    BY TwoHeld
  <2>2. Current.value \in Int
    BY CountBehindShape DEF Kinds, Entry
  <2>3. QED
    BY <2>1, <2>2
<1>2. <<t, 1>> \in Held /\ holds \in [Threads -> Nat]
  <2>1. holds \in [Threads -> Nat]
    BY DEF TypeOK
  <2>2. 1 \in 1..holds[t]
    BY <2>1
  <2>3. QED
    BY <2>1, <2>2, HandlesAreHeld
<1>3. holds[t] = 1
  <2>1. CASE holds[t] >= 2
    <3>1. 2 \in 1..holds[t]
      BY <1>2, <2>1
    <3>2. <<t, 2>> \in Held
      BY <3>1, HandlesAreHeld
    <3>3. QED
      BY <1>1, <1>2, <3>2
  <2>2. QED
    BY <1>2, <2>1
<1>4. lent = Nobody
  <2> SUFFICES ASSUME lent # Nobody PROVE FALSE
    OBVIOUS
  <2>1. lent.owner \in Threads
    BY DEF TypeOK
  <2>2. <<lent.owner, 0>> \in Held
    BY <2>1, HandlesAreHeld
  <2>3. QED
    BY <1>1, <1>2, <2>2
<1>5. \A u \in Threads \ {t} : holds[u] = 0
  <2> SUFFICES ASSUME NEW u \in Threads \ {t}, holds[u] > 0 PROVE FALSE
    BY <1>2
  <2>1. 1 \in 1..holds[u]
    BY <1>2
  <2>2. <<u, 1>> \in Held
    BY <2>1, HandlesAreHeld
  <2>3. QED
    BY <1>1, <1>2, <2>2
<1>6. \A u \in Threads \ {t} : pc[u] = "idle"
  <2> SUFFICES ASSUME NEW u \in Threads \ {t}, pc[u] # "idle" PROVE FALSE
    OBVIOUS
  <2>1. pc[u] \in Places
    BY DEF TypeOK
  <2>2. CASE pc[u] \in {"write", "clone", "let go", "lower"}
    <3>1. holds[u] > 0
      BY <2>2 DEF CallsHold
    <3>2. holds[u] = 0
      BY <1>5
    <3>3. QED
      BY <3>1, <3>2
  <2>3. CASE Letting(u)
    <3>1. Alone(u)
      BY <2>3 DEF LettingIsAlone
    <3>2. QED
      BY <3>1 DEF Alone
  <2>4. QED
    BY <2>1, <2>2, <2>3 DEF Places, Letting
<1>7. QED
  BY <1>3, <1>4, <1>5, <1>6 DEF Alone

\* What a step does to the handles of its own thread.
LEMMA OwnHandles ==
  ASSUME TypeOK, CallsHold, NEW t \in Threads, Steps(t)
  PROVE  /\ Publish(t)  => holds[t] > 0 /\ holds'[t] = holds[t] - 1 /\ lent = Nobody /\ lent'.owner = t
         /\ TakeBack(t) => holds'[t] = holds[t] + 1 /\ lent.owner = t /\ lent' = Nobody
         /\ Copy(t) \/ CopyLent(t) => holds[t] < Handles /\ holds'[t] = holds[t] + 1
         /\ Lower(t)    => holds[t] > 0 /\ holds'[t] = holds[t] - 1
         /\ FreePayload(t) => holds'[t] = 0
         /\ \/ Publish(t) \/ TakeBack(t) \/ Copy(t) \/ CopyLent(t) \/ Lower(t) \/ FreePayload(t)
            \/ holds' = holds
<1>1. holds \in [Threads -> Nat]
  BY DEF TypeOK
<1>2. Publish(t)  => holds[t] > 0 /\ holds'[t] = holds[t] - 1 /\ lent = Nobody /\ lent'.owner = t
  BY <1>1 DEF Publish
<1>3. TakeBack(t) => holds'[t] = holds[t] + 1 /\ lent.owner = t /\ lent' = Nobody
  BY <1>1 DEF TakeBack
<1>4. Copy(t) \/ CopyLent(t) => holds[t] < Handles /\ holds'[t] = holds[t] + 1
  BY <1>1 DEF Copy, CopyLent, MayCopy
<1>5. Lower(t)    => holds[t] > 0 /\ holds'[t] = holds[t] - 1
  BY <1>1 DEF Lower, CallsHold
<1>6. FreePayload(t) => holds'[t] = 0
  BY <1>1 DEF FreePayload
<1>7. \/ Publish(t) \/ TakeBack(t) \/ Copy(t) \/ CopyLent(t) \/ Lower(t) \/ FreePayload(t)
      \/ holds' = holds
  BY DEF Steps, Touches, Loads, Counts, Hands, Read, WriteInPlace, CopyOut, Barrier, SoleOwner,
         Drop, Fence
<1>8. QED
  BY <1>2, <1>3, <1>4, <1>5, <1>6, <1>7

\* The handle that is lent changes only when it is lent or taken back.
LEMMA OwnerStays ==
  ASSUME TypeOK, NEW t \in Threads, Steps(t), ~Publish(t), ~TakeBack(t)
  PROVE  lent'.owner = lent.owner /\ (lent' = Nobody <=> lent = Nobody)
<1>1. CASE Touches(t) \/ Loads(t) \/ Counts(t)
  BY <1>1, LentStays
<1>2. CASE Drop(t) \/ Fence(t)
  BY <1>2 DEF Drop, Fence
<1>3. QED
  BY <1>1, <1>2 DEF Steps, Hands

\* No thread comes to hold more than it may, and none lets go of a handle in the
\* middle of a call that uses it.
LEMMA BoundStep ==
  ASSUME TypeOK, HandlesBounded, CallsHold, NEW t \in Threads, Steps(t)
  PROVE  HandlesBounded' /\ CallsHold'
<1>1. holds \in [Threads -> Nat] /\ pc \in [Threads -> Places] /\ Handles \in Nat
  BY ThreadsAssumption DEF TypeOK
<1>2. \A u \in Threads \ {t} :
        /\ holds'[u] <= Handles + (IF lent'.owner = u THEN 0 ELSE 1)
        /\ pc'[u] \in {"write", "clone", "let go", "lower"} => holds'[u] > 0
  BY OthersStay DEF HandlesBounded, CallsHold
<1>3. holds'[t] <= Handles + (IF lent'.owner = t THEN 0 ELSE 1)
  <2>1. CASE Publish(t)
    BY <1>1, <2>1, OwnHandles DEF HandlesBounded
  <2>2. CASE TakeBack(t)
    <3>1. lent'.owner # t
      BY <2>2, OwnHandles, ThreadsAssumption DEF Nobody
    <3>2. holds[t] <= Handles /\ holds'[t] = holds[t] + 1
      <4>1. lent.owner = t /\ holds'[t] = holds[t] + 1
        BY <2>2, OwnHandles
      <4>2. holds[t] <= Handles + 0
        BY <4>1 DEF HandlesBounded
      <4>3. QED
        BY <1>1, <4>1, <4>2
    <3>3. QED
      BY <1>1, <3>1, <3>2
  <2>3. CASE ~Publish(t) /\ ~TakeBack(t)
    <3>1. lent'.owner = lent.owner
      BY <2>3, OwnerStays
    <3>2. holds[t] <= Handles + (IF lent.owner = t THEN 0 ELSE 1)
      BY DEF HandlesBounded
    <3>3. holds'[t] <= Handles \/ holds'[t] <= holds[t]
      BY <1>1, <2>3, OwnHandles
    <3>4. holds'[t] \in Nat
      BY TypeStep DEF TypeOK
    <3>5. QED
      BY <1>1, <3>1, <3>2, <3>3, <3>4
  <2>4. QED
    BY <2>1, <2>2, <2>3
<1>4. pc'[t] \in {"write", "clone", "let go", "lower"} => holds'[t] > 0
  <2>1. CASE Publish(t) \/ TakeBack(t) \/ Copy(t) \/ CopyLent(t) \/ Read(t)
    BY <1>1, <2>1 DEF Publish, TakeBack, Copy, CopyLent, Read, MayCopy, Idle
  <2>2. CASE WriteInPlace(t) \/ CopyOut(t) \/ Drop(t) \/ Fence(t) \/ FreePayload(t)
    BY <1>1, <2>2 DEF WriteInPlace, CopyOut, Drop, Fence, FreePayload, Goto, CallsHold
  <2>3. CASE Loads(t)
    BY <1>1, <2>3 DEF Loads, Barrier, SoleOwner, Goto, CallsHold
  <2>4. CASE Lower(t)
    BY <1>1, <2>4 DEF Lower, Goto
  <2>5. QED
    BY <2>1, <2>2, <2>3, <2>4 DEF Steps, Touches, Counts, Hands
<1>5. QED
  BY <1>2, <1>3, <1>4 DEF HandlesBounded, CallsHold

\* Lending a handle gives it another number, a copy adds one, and letting go of
\* one removes it.
LEMMA HeldStep ==
  ASSUME TypeOK, HandlesBounded, CallsHold, NEW t \in Threads, Steps(t)
  PROVE  /\ Publish(t)  => /\ <<t, holds[t]>> \in Held /\ <<t, 0>> \notin Held
                           /\ Held' = (Held \ {<<t, holds[t]>>}) \cup {<<t, 0>>}
         /\ TakeBack(t) => /\ <<t, 0>> \in Held /\ <<t, holds[t] + 1>> \notin Held
                           /\ Held' = (Held \ {<<t, 0>>}) \cup {<<t, holds[t] + 1>>}
         /\ Copy(t) \/ CopyLent(t) => /\ <<t, holds[t] + 1>> \notin Held
                                      /\ Held' = Held \cup {<<t, holds[t] + 1>>}
         /\ Lower(t)    => <<t, holds[t]>> \in Held /\ Held' = Held \ {<<t, holds[t]>>}
         /\ \/ Publish(t) \/ TakeBack(t) \/ Copy(t) \/ CopyLent(t) \/ Lower(t) \/ FreePayload(t)
            \/ Held' = Held
<1> DEFINE Numbers == 0..Handles + 1
<1>1. holds \in [Threads -> Nat] /\ Handles \in Nat
  BY ThreadsAssumption DEF TypeOK
<1>2. /\ \A u \in Threads, n \in Numbers :
           <<u, n>> \in Held <=> n \in 1..holds[u] \/ (n = 0 /\ lent.owner = u)
      /\ \A u \in Threads, n \in Numbers :
           <<u, n>> \in Held' <=> n \in 1..holds'[u] \/ (n = 0 /\ lent'.owner = u)
      /\ Held \subseteq Threads \X Numbers /\ Held' \subseteq Threads \X Numbers
  BY DEF Held
<1>3. \A u \in Threads \ {t}, n \in Numbers : <<u, n>> \in Held' <=> <<u, n>> \in Held
  <2>1. \A u \in Threads \ {t} : holds'[u] = holds[u] /\ ((lent'.owner = u) <=> (lent.owner = u))
    BY OthersStay
  <2>2. QED
    BY <1>2, <2>1
<1>4. holds[t] <= Handles + (IF lent.owner = t THEN 0 ELSE 1)
  BY DEF HandlesBounded
<1>5. ASSUME Publish(t)
      PROVE  /\ <<t, holds[t]>> \in Held /\ <<t, 0>> \notin Held
             /\ Held' = (Held \ {<<t, holds[t]>>}) \cup {<<t, 0>>}
  <2>1. holds[t] > 0 /\ holds'[t] = holds[t] - 1 /\ lent.owner # t /\ lent'.owner = t
    BY <1>5, OwnHandles, ThreadsAssumption DEF Nobody
  <2>2. holds[t] \in Numbers /\ 0 \in Numbers
    BY <1>1, <1>4, <2>1
  <2>3. \A n \in Numbers : <<t, n>> \in Held' <=> (<<t, n>> \in Held /\ n # holds[t]) \/ n = 0
    BY <1>1, <1>2, <2>1
  <2>4. <<t, holds[t]>> \in Held /\ <<t, 0>> \notin Held
    BY <1>1, <1>2, <2>1, <2>2
  <2>5. QED
    BY <1>2, <1>3, <2>2, <2>3, <2>4
<1>6. ASSUME TakeBack(t)
      PROVE  /\ <<t, 0>> \in Held /\ <<t, holds[t] + 1>> \notin Held
             /\ Held' = (Held \ {<<t, 0>>}) \cup {<<t, holds[t] + 1>>}
  <2>1. holds'[t] = holds[t] + 1 /\ lent.owner = t /\ lent'.owner # t
    BY <1>6, OwnHandles, ThreadsAssumption DEF Nobody
  <2>2. holds[t] + 1 \in Numbers /\ 0 \in Numbers
    BY <1>1, <1>4, <2>1
  <2>3. \A n \in Numbers :
          <<t, n>> \in Held' <=> (<<t, n>> \in Held /\ n # 0) \/ n = holds[t] + 1
    BY <1>1, <1>2, <2>1
  <2>4. <<t, 0>> \in Held /\ <<t, holds[t] + 1>> \notin Held
    BY <1>1, <1>2, <2>1, <2>2
  <2>5. QED
    BY <1>2, <1>3, <2>2, <2>3, <2>4
<1>7. ASSUME Copy(t) \/ CopyLent(t)
      PROVE  <<t, holds[t] + 1>> \notin Held /\ Held' = Held \cup {<<t, holds[t] + 1>>}
  <2>1. holds[t] < Handles /\ holds'[t] = holds[t] + 1
    BY <1>7, OwnHandles
  <2>2. lent'.owner = lent.owner
    BY <1>7, LentStays DEF Counts
  <2>3. holds[t] + 1 \in Numbers
    BY <1>1, <2>1
  <2>4. \A n \in Numbers : <<t, n>> \in Held' <=> <<t, n>> \in Held \/ n = holds[t] + 1
    BY <1>1, <1>2, <2>1, <2>2
  <2>5. <<t, holds[t] + 1>> \notin Held
    BY <1>1, <1>2, <2>3
  <2>6. QED
    BY <1>2, <1>3, <2>3, <2>4, <2>5
<1>8. ASSUME Lower(t)
      PROVE  <<t, holds[t]>> \in Held /\ Held' = Held \ {<<t, holds[t]>>}
  <2>1. holds[t] > 0 /\ holds'[t] = holds[t] - 1
    BY <1>8, OwnHandles
  <2>2. lent'.owner = lent.owner
    BY <1>8, LentStays DEF Counts
  <2>3. holds[t] \in Numbers
    BY <1>1, <1>4, <2>1
  <2>4. \A n \in Numbers : <<t, n>> \in Held' <=> <<t, n>> \in Held /\ n # holds[t]
    BY <1>1, <1>2, <2>1, <2>2
  <2>5. <<t, holds[t]>> \in Held
    BY <1>1, <1>2, <2>1, <2>3
  <2>6. QED
    BY <1>2, <1>3, <2>3, <2>4, <2>5
<1>9. ASSUME ~Publish(t), ~TakeBack(t), ~Copy(t), ~CopyLent(t), ~Lower(t), ~FreePayload(t)
      PROVE  Held' = Held
  <2>1. holds' = holds /\ lent'.owner = lent.owner
    BY <1>9, OwnHandles, OwnerStays
  <2>2. QED
    BY <2>1 DEF Held
<1>10. QED
  BY <1>5, <1>6, <1>7, <1>8, <1>9

\* What a step does to the value of the count.
LEMMA ValueStep ==
  ASSUME TypeOK, NEW t \in Threads, Steps(t)
  PROVE  /\ Copy(t) \/ CopyLent(t) => Current'.value = Current.value + 1
         /\ Lower(t) => Current'.value = Current.value - 1
         /\ ~Counts(t) => Current'.value = Current.value
<1>1. ASSUME Copy(t) \/ CopyLent(t) PROVE Current'.value = Current.value + 1
  <2>1. PICK mine \in View : Increment(t, mine)
    <3>1. unseen[t] \in View /\ unseen[t] \cap lent.shown \in View
      BY DEF TypeOK, View
    <3>2. QED
      BY <1>1, <3>1 DEF Copy, CopyLent
  <2>2. QED
    BY <2>1, IncrementEffect DEF Modified
<1>2. ASSUME Lower(t) PROVE Current'.value = Current.value - 1
  <2>1. Current'.value = Current.value + (-1)
    BY <1>2, DecrementEffect DEF Lower, Modified
  <2>2. Current.value \in Int
    BY CountBehindShape DEF Kinds, Entry
  <2>3. QED
    BY <2>1, <2>2
<1>3. ASSUME Touches(t) \/ Loads(t) PROVE Current'.value = Current.value
  <2>1. PICK kind \in Kinds : Touch(t, kind) \/ (kind = "count" /\ \E i \in DOMAIN count : Load(t, i))
    BY <1>3 DEF Touches, Loads, Read, WriteInPlace, CopyOut, FreePayload, Barrier, SoleOwner, Kinds
  <2>2. QED
    BY <2>1, LookEffect DEF Looked
<1>4. ASSUME Hands(t) PROVE Current'.value = Current.value
  BY <1>4 DEF Hands, Publish, TakeBack, Drop, Fence, Current
<1>5. QED
  BY <1>1, <1>2, <1>3, <1>4 DEF Steps, Counts

\* The count goes up with every copy and down with every handle let go of.
LEMMA CountStep ==
  ASSUME TypeOK, HandlesBounded, CallsHold, CountIsHeld, LettingIsAlone,
         NEW t \in Threads, Steps(t)
  PROVE  CountIsHeld'
<1>1. Unfreed
  BY OnlyTheAloneStep
<1>2. Current.value = Cardinality(Held) /\ Cardinality(Held) \in Nat /\ IsFiniteSet(Held)
  BY <1>1, HeldIsFinite, FS_CardinalityType DEF CountIsHeld
<1>3. CASE Publish(t)
  <2>1. /\ <<t, holds[t]>> \in Held /\ <<t, 0>> \notin Held
        /\ Held' = (Held \ {<<t, holds[t]>>}) \cup {<<t, 0>>}
    BY <1>3, HeldStep
  <2> DEFINE left == Held \ {<<t, holds[t]>>}
  <2>2. IsFiniteSet(left) /\ Cardinality(left) = Cardinality(Held) - 1
    BY <1>2, <2>1, FS_RemoveElement
  <2>3. Cardinality(left \cup {<<t, 0>>}) = Cardinality(left) + 1
    BY <2>1, <2>2, FS_AddElement
  <2>4. Current'.value = Current.value
    BY <1>3 DEF Publish, Current
  <2>5. QED
    BY <1>2, <2>1, <2>2, <2>3, <2>4 DEF CountIsHeld
<1>4. CASE TakeBack(t)
  <2>1. /\ <<t, 0>> \in Held /\ <<t, holds[t] + 1>> \notin Held
        /\ Held' = (Held \ {<<t, 0>>}) \cup {<<t, holds[t] + 1>>}
    BY <1>4, HeldStep
  <2> DEFINE left == Held \ {<<t, 0>>}
  <2>2. IsFiniteSet(left) /\ Cardinality(left) = Cardinality(Held) - 1
    BY <1>2, <2>1, FS_RemoveElement
  <2>3. Cardinality(left \cup {<<t, holds[t] + 1>>}) = Cardinality(left) + 1
    BY <2>1, <2>2, FS_AddElement
  <2>4. Current'.value = Current.value
    BY <1>4 DEF TakeBack, Current
  <2>5. QED
    BY <1>2, <2>1, <2>2, <2>3, <2>4 DEF CountIsHeld
<1>5. CASE Copy(t) \/ CopyLent(t)
  <2>1. <<t, holds[t] + 1>> \notin Held /\ Held' = Held \cup {<<t, holds[t] + 1>>}
    BY <1>5, HeldStep
  <2>2. Cardinality(Held') = Cardinality(Held) + 1
    BY <1>2, <2>1, FS_AddElement
  <2>3. QED
    BY <1>2, <1>5, <2>2, ValueStep DEF CountIsHeld
<1>6. CASE Lower(t)
  <2>1. <<t, holds[t]>> \in Held /\ Held' = Held \ {<<t, holds[t]>>}
    BY <1>6, HeldStep
  <2>2. Cardinality(Held') = Cardinality(Held) - 1
    BY <1>2, <2>1, FS_RemoveElement
  <2>3. QED
    BY <1>2, <1>6, <2>2, ValueStep DEF CountIsHeld
<1>7. CASE FreePayload(t)
  <2>1. pc'[t] = "freed"
    BY <1>7 DEF FreePayload, Goto, TypeOK
  <2>2. QED
    BY <2>1 DEF CountIsHeld, Unfreed
<1>8. CASE ~Publish(t) /\ ~TakeBack(t) /\ ~Counts(t) /\ ~FreePayload(t)
  <2>1. Held' = Held
    BY <1>8, HeldStep DEF Counts
  <2>2. QED
    BY <1>2, <1>8, <2>1, ValueStep DEF CountIsHeld
<1>9. QED
  BY <1>3, <1>4, <1>5, <1>6, <1>7, <1>8 DEF Counts

\* The values a step leaves: those that were there, and the last one.
LEMMA ValuesStep ==
  ASSUME TypeOK, CallsHold, NEW t \in Threads, Steps(t)
  PROVE  /\ Len(count) \in Nat \ {0} /\ DOMAIN count = 1..Len(count)
         /\ \A i \in 1..Len(count) : count'[i].value = count[i].value
         /\ at[t] \in 1..Len(count)
         /\ \/ Counts(t) /\ Len(count') = Len(count) + 1 /\ at'[t] = Len(count) + 1
            \/ ~Counts(t) /\ Len(count') = Len(count) /\ at[t] <= at'[t] /\ at'[t] \in 1..Len(count)
<1>1. /\ Len(count) \in Nat \ {0} /\ DOMAIN count = 1..Len(count)
  BY CountBehindShape DEF Kinds
<1>2. at \in [Threads -> 1..Len(count)] /\ at'[t] \in DOMAIN count'
  BY <1>1, TypeStep DEF TypeOK
<1>3. CASE Counts(t)
  <2>1. Behind(t, "count") /\ Len(count') = Len(count) + 1 /\ at'[t] = Len(count) + 1
    BY <1>3, CountsEffect
  <2>2. \A i \in DOMAIN count : count'[i].value = count[i].value
    <3>1. SUFFICES ASSUME NEW i \in DOMAIN count PROVE count'[i].value = count[i].value
      OBVIOUS
    <3>2. count'[i] = [value |-> count[i].value, unseen |-> count[i].unseen \cup {<<t, "count">>}]
      BY <2>1 DEF Behind
    <3>3. QED
      BY <3>2
  <2>3. QED
    BY <1>1, <1>2, <1>3, <2>1, <2>2
<1>4. CASE ~Counts(t) /\ (Touches(t) \/ Loads(t))
  <2>1. PICK kind \in Kinds : Looked(t, kind)
    BY <1>4, LooksEffect
  <2>2. /\ \A i \in DOMAIN count : count'[i].value = count[i].value
        /\ Len(count') = Len(count) /\ at[t] <= at'[t] /\ DOMAIN count' = DOMAIN count
    BY <2>1 DEF Looked, Behind
  <2>3. QED
    BY <1>1, <1>2, <1>4, <2>2
<1>5. CASE Hands(t) /\ ~Counts(t)
  <2>1. count' = count
    BY <1>5 DEF Hands, Publish, TakeBack, Drop, Fence
  <2>2. at[t] <= at'[t]
    <3>1. CASE TakeBack(t)
      <4>1. lent.at \in 1..Len(count)
        BY <1>1, <3>1, ThreadsAssumption DEF TakeBack, TypeOK, Nobody
      <4>2. at'[t] = IF lent.at > at[t] THEN lent.at ELSE at[t]
        BY <1>2, <3>1 DEF TakeBack
      <4>3. QED
        BY <1>2, <4>1, <4>2
    <3>2. CASE Publish(t) \/ Drop(t) \/ Fence(t)
      <4>1. at' = at
        BY <3>2 DEF Publish, Drop, Fence
      <4>2. at[t] \in 1..Len(count)
        BY <1>2
      <4>3. QED
        BY <1>1, <4>1, <4>2
    <3>3. QED
      BY <1>5, <3>1, <3>2 DEF Hands
  <2>3. QED
    BY <1>1, <1>2, <1>5, <2>1, <2>2
<1>6. QED
  BY <1>3, <1>4, <1>5 DEF Steps

\* The value that a holder reads is one only if it is the last, and it is alone.
LEMMA OneIsRead ==
  ASSUME TypeOK, HandlesBounded, CallsHold, CountIsHeld, OldOnesAreKnown, LettingIsAlone, Unfreed,
         NEW t \in Threads, holds[t] > 0,
         NEW i \in at[t]..Len(count), count[i].value = 1
  PROVE  i = Len(count) /\ Alone(t) /\ holds[t] = 1
<1>1. Len(count) \in Nat /\ DOMAIN count = 1..Len(count) /\ at[t] \in DOMAIN count
  BY CountBehindShape DEF Kinds, TypeOK
<1>2. i = Len(count)
  <2> SUFFICES ASSUME i # Len(count) PROVE FALSE
    OBVIOUS
  <2>1. i \in at[t]..Len(count) - 1
    <3>1. at[t] \in 1..Len(count) /\ Len(count) \in Nat
      BY <1>1
    <3>2. QED
      BY <3>1
  <2>2. count[i].value > 1
    BY <2>1 DEF OldOnesAreKnown
  <2>3. QED
    BY <2>2
<1>3. Current.value <= 1
  BY <1>2 DEF Current
<1>4. QED
  BY <1>2, <1>3, OneIsAlone

\* While the count is one nobody but its holder can change it, so an old one is
\* known to whoever holds a handle.
LEMMA OldOnesStep ==
  ASSUME TypeOK, HandlesBounded, CallsHold, CountIsHeld, OldOnesAreKnown, LettingIsAlone,
         NEW t \in Threads, Steps(t)
  PROVE  OldOnesAreKnown'
<1>1. Unfreed
  BY OnlyTheAloneStep
<1>2. /\ Len(count) \in Nat \ {0} /\ DOMAIN count = 1..Len(count)
      /\ \A i \in 1..Len(count) : count'[i].value = count[i].value
      /\ at[t] \in 1..Len(count)
      /\ \/ Counts(t) /\ Len(count') = Len(count) + 1 /\ at'[t] = Len(count) + 1
         \/ ~Counts(t) /\ Len(count') = Len(count) /\ at[t] <= at'[t] /\ at'[t] \in 1..Len(count)
  BY ValuesStep
<1>3. holds \in [Threads -> Nat] /\ at \in [Threads -> 1..Len(count)]
  BY <1>2 DEF TypeOK
<1>4. lent # Nobody => lent.owner \in Threads /\ lent.at \in 1..Len(count)
  BY <1>2 DEF TypeOK
<1>5. \A u \in Threads \ {t} : holds'[u] = holds[u] /\ at'[u] = at[u]
  BY OthersStay
\* When somebody changes the count, it is more than one for everybody else.
<1>6. ASSUME Counts(t) PROVE \A u \in Threads \ {t} : holds[u] > 0 => Current.value > 1
  <2> SUFFICES ASSUME NEW u \in Threads \ {t}, holds[u] > 0 PROVE Current.value > 1
    OBVIOUS
  <2>1. 1 \in 1..holds[u]
    BY <1>3
  <2>2. <<u, 1>> \in Held
    BY <2>1, HandlesAreHeld
  <2>3. CASE Copy(t) \/ Lower(t)
    <3>1. holds[t] > 0
      BY <2>3 DEF Copy, Lower, CallsHold
    <3>2. 1 \in 1..holds[t]
      BY <1>3, <3>1
    <3>3. <<t, 1>> \in Held
      BY <3>2, HandlesAreHeld
    <3>4. <<t, 1>> # <<u, 1>>
      OBVIOUS
    <3>5. QED
      BY <1>1, <2>2, <3>3, <3>4, TwoHeld
  <2>4. CASE CopyLent(t)
    <3>1. lent.owner \in Threads
      BY <2>4 DEF CopyLent
    <3>2. <<lent.owner, 0>> \in Held
      BY <3>1, HandlesAreHeld
    <3>3. <<lent.owner, 0>> # <<u, 1>>
      OBVIOUS
    <3>4. QED
      BY <1>1, <2>2, <3>2, <3>3, TwoHeld
  <2>5. QED
    BY <1>6, <2>3, <2>4 DEF Counts
<1>7. ASSUME Counts(t), ~CopyLent(t), lent # Nobody PROVE Current.value > 1
  <2>1. holds[t] > 0
    BY <1>7 DEF Counts, Copy, Lower, CallsHold
  <2>2. 1 \in 1..holds[t]
    BY <1>3, <2>1
  <2>3. <<t, 1>> \in Held /\ <<lent.owner, 0>> \in Held
    BY <1>4, <1>7, <2>2, HandlesAreHeld
  <2>4. <<t, 1>> # <<lent.owner, 0>>
    OBVIOUS
  <2>5. QED
    BY <1>1, <2>3, <2>4, TwoHeld
\* The word that this step adds, if any, is the one it counts.
<1>len. Len(count) \in Nat /\ (Len(count') = Len(count) \/ Len(count') = Len(count) + 1)
  <2>1. Len(count) \in Nat
    BY <1>2
  <2>2. QED
    BY <1>2, <2>1
<1>new. ASSUME Len(count') # Len(count) PROVE Counts(t)
  BY <1>2, <1>new
<1>last. ASSUME NEW i \in Int, i <= Len(count') - 1, i >= Len(count)
        PROVE  Counts(t) /\ i = Len(count)
  <2>1. Len(count') # Len(count) /\ i = Len(count)
    BY <1>len, <1>last
  <2>2. QED
    BY <1>new, <2>1
<1>8. ASSUME NEW u \in Threads, holds'[u] > 0, NEW i \in at'[u]..Len(count') - 1
      PROVE  count'[i].value > 1
  <2>1. CASE u # t
    <3>1. holds[u] > 0 /\ at'[u] = at[u]
      BY <1>5, <1>8, <2>1
    <3>2. CASE i < Len(count)
      <4>1. i \in at[u]..Len(count) - 1 /\ i \in 1..Len(count)
        BY <1>2, <1>3, <3>1, <3>2
      <4>2. count[i].value > 1
        BY <3>1, <4>1 DEF OldOnesAreKnown
      <4>3. QED
        BY <1>2, <4>1, <4>2
    <3>3. CASE i >= Len(count)
      <4>1. Counts(t) /\ i = Len(count)
        <5>1. i <= Len(count') - 1 /\ i \in Int
          BY <1>2, <1>3, <3>1, <3>3
        <5>2. QED
          BY <1>last, <3>3, <5>1
      <4>2. count[i].value > 1
        BY <1>6, <2>1, <3>1, <4>1 DEF Current
      <4>3. QED
        BY <1>2, <4>1, <4>2
    <3>4. QED
      BY <1>2, <1>3, <3>1, <3>2, <3>3
  <2>2. CASE u = t /\ Counts(t)
    BY <1>2, <2>2
  <2>3. CASE u = t /\ ~Counts(t)
    <3>1. i \in at[t]..Len(count) - 1 /\ i \in 1..Len(count)
      BY <1>2, <2>3
    <3>2. CASE holds[t] > 0
      <4>1. count[i].value > 1
        BY <3>1, <3>2 DEF OldOnesAreKnown
      <4>2. QED
        BY <1>2, <3>1, <4>1
    <3>3. CASE TakeBack(t)
      <4>1. lent # Nobody /\ lent.owner = t
        BY <3>3, ThreadsAssumption DEF TakeBack, Nobody
      <4>2. at'[t] = IF lent.at > at[t] THEN lent.at ELSE at[t]
        BY <1>3, <3>3 DEF TakeBack
      <4>3. i \in lent.at..Len(count) - 1
        BY <1>2, <1>3, <1>4, <2>3, <4>1, <4>2
      <4>4. at[lent.owner] <= i
        BY <1>2, <1>3, <3>1, <4>1
      <4>5. count[i].value > 1
        BY <4>1, <4>3, <4>4 DEF OldOnesAreKnown
      <4>6. QED
        BY <1>2, <3>1, <4>5
    <3>4. CASE ~TakeBack(t)
      <4>1. holds'[t] <= holds[t]
        <5>1. holds'[t] = holds[t] - 1 \/ holds'[t] = 0 \/ holds' = holds
          BY <2>3, <3>4, OwnHandles DEF Counts
        <5>2. QED
          BY <1>3, <5>1
      <4>2. holds[t] > 0
        <5>1. holds'[t] \in Nat /\ holds[t] \in Nat /\ holds'[t] > 0
          BY <1>3, <1>8, <2>3, TypeStep DEF TypeOK
        <5>2. QED
          BY <4>1, <5>1
      <4>3. QED
        BY <3>2, <4>2
    <3>5. QED
      BY <3>3, <3>4
  <2>4. QED
    BY <2>1, <2>2, <2>3
<1>9. ASSUME lent' # Nobody, NEW i \in lent'.at..Len(count') - 1, at'[lent'.owner] <= i
      PROVE  count'[i].value > 1
  <2>1. CASE Publish(t)
    <3>1. lent' = [owner |-> t, shown |-> unseen[t], back |-> unseen[t], at |-> at[t]] /\ holds[t] > 0
      BY <2>1 DEF Publish
    <3>2. count' = count
      BY <2>1 DEF Publish
    <3>3. i \in at[t]..Len(count) - 1
      BY <3>1, <3>2
    <3>4. count[i].value > 1
      BY <3>1, <3>3 DEF OldOnesAreKnown
    <3>5. QED
      BY <3>2, <3>4
  <2>2. CASE TakeBack(t)
    BY <1>9, <2>2 DEF TakeBack
  <2>3. CASE ~Publish(t) /\ ~TakeBack(t)
    <3>1. lent # Nobody /\ lent'.owner = lent.owner
      BY <1>9, <2>3, OwnerStays
    <3>2. CASE CopyLent(t)
      <4>1. lent'.at = Len(count) + 1
        BY <3>2, LentStays DEF Counts
      <4>2. Len(count') = Len(count) + 1
        BY <1>2, <3>2 DEF Counts
      <4>3. i \in Len(count) + 1..Len(count) + 1 - 1
        BY <4>1, <4>2
      <4>4. QED
        BY <1>2, <4>3
    <3>3. CASE ~CopyLent(t)
      <4>1. lent'.at = lent.at
        <5>1. CASE Touches(t) \/ Loads(t) \/ Counts(t)
          BY <3>3, <5>1, LentStays
        <5>2. CASE Drop(t) \/ Fence(t)
          BY <5>2 DEF Drop, Fence
        <5>3. QED
          BY <2>3, <5>1, <5>2 DEF Steps, Hands
      <4>2. at[lent.owner] <= at'[lent.owner] /\ at'[lent.owner] \in Int
        <5>1. CASE lent.owner = t
          BY <1>2, <5>1
        <5>2. CASE lent.owner # t
          BY <1>3, <1>4, <1>5, <3>1, <5>2
        <5>3. QED
          BY <5>1, <5>2
      <4>3. at[lent.owner] <= i /\ lent.at <= i
        BY <1>3, <1>4, <1>9, <3>1, <4>1, <4>2
      <4>4. CASE i < Len(count)
        <5>1. i \in lent.at..Len(count) - 1 /\ i \in 1..Len(count)
          BY <1>2, <1>4, <3>1, <4>3, <4>4
        <5>2. count[i].value > 1
          BY <3>1, <4>3, <5>1 DEF OldOnesAreKnown
        <5>3. QED
          BY <1>2, <5>1, <5>2
      <4>5. CASE i >= Len(count)
        <5>1. Counts(t) /\ i = Len(count)
          <6>1. i <= Len(count') - 1 /\ i \in Int
            BY <1>2, <1>4, <3>1, <4>1, <4>5
          <6>2. QED
            BY <1>last, <4>5, <6>1
        <5>2. count[i].value > 1
          BY <1>7, <3>1, <3>3, <5>1 DEF Current
        <5>3. QED
          BY <1>2, <5>1, <5>2
      <4>6. QED
        BY <1>2, <1>4, <3>1, <4>1, <4>4, <4>5
    <3>4. QED
      BY <3>2, <3>3
  <2>4. QED
    BY <2>1, <2>2, <2>3
<1>10. QED
  BY <1>8, <1>9 DEF OldOnesAreKnown

\* How a thread comes to write, to free, and to be done.
LEMMA Turns ==
  ASSUME TypeOK, CallsHold, NEW t \in Threads, Steps(t)
  PROVE  /\ pc'[t] = "write" =>
              \E i \in at[t]..Len(count) : holds[t] > 0 /\ Barrier(t, i) /\ count[i].value = 1
         /\ pc'[t] = "fence" => Lower(t) /\ Current.value = 1
         /\ pc'[t] = "free"  =>
              \/ Fence(t)
              \/ \E i \in at[t]..Len(count) : holds[t] > 0 /\ SoleOwner(t, i) /\ count[i].value = 1
         /\ pc'[t] = "freed" => FreePayload(t)
<1>1. pc \in [Threads -> Places]
  BY DEF TypeOK
<1>2. CASE Publish(t) \/ TakeBack(t) \/ Copy(t) \/ CopyLent(t) \/ Read(t)
  <2>1. pc'[t] = "idle"
    BY <1>2 DEF Publish, TakeBack, Copy, CopyLent, Read, MayCopy, Idle
  <2>2. QED
    BY <2>1
<1>3. CASE WriteInPlace(t) \/ CopyOut(t) \/ Drop(t)
  <2>1. pc'[t] \in {"idle", "let go"}
    BY <1>1, <1>3 DEF WriteInPlace, CopyOut, Drop, Goto
  <2>2. QED
    BY <2>1
<1>4. CASE Fence(t)
  <2>1. pc'[t] = "free"
    BY <1>1, <1>4 DEF Fence, Goto
  <2>2. QED
    BY <1>4, <2>1
<1>5. CASE FreePayload(t)
  <2>1. pc'[t] = "freed"
    BY <1>1, <1>5 DEF FreePayload, Goto
  <2>2. QED
    BY <1>5, <2>1
<1>6. CASE Lower(t)
  <2>1. pc'[t] = IF Current.value = 1 THEN "fence" ELSE "idle"
    BY <1>1, <1>6 DEF Lower, Goto
  <2>2. QED
    BY <1>6, <2>1
<1>7. ASSUME NEW i \in DOMAIN count, Barrier(t, i) PROVE
        /\ i \in at[t]..Len(count) /\ holds[t] > 0
        /\ pc'[t] = IF count[i].value = 1 THEN "write" ELSE "clone"
  BY <1>1, <1>7 DEF Barrier, Load, Goto
<1>8. ASSUME NEW i \in DOMAIN count, SoleOwner(t, i) PROVE
        /\ i \in at[t]..Len(count) /\ holds[t] > 0
        /\ pc'[t] = IF count[i].value = 1 THEN "free" ELSE "lower"
  BY <1>1, <1>8 DEF SoleOwner, Load, Goto, CallsHold
<1>9. CASE Loads(t)
  <2>1. PICK i \in DOMAIN count : Barrier(t, i) \/ SoleOwner(t, i)
    BY <1>9 DEF Loads
  <2>2. CASE Barrier(t, i)
    <3>1. pc'[t] = IF count[i].value = 1 THEN "write" ELSE "clone"
      BY <1>7, <2>2
    <3>2. i \in at[t]..Len(count) /\ holds[t] > 0
      BY <1>7, <2>2
    <3>3. QED
      BY <2>2, <3>1, <3>2
  <2>3. CASE SoleOwner(t, i)
    <3>1. pc'[t] = IF count[i].value = 1 THEN "free" ELSE "lower"
      BY <1>8, <2>3
    <3>2. i \in at[t]..Len(count) /\ holds[t] > 0
      BY <1>8, <2>3
    <3>3. QED
      BY <2>3, <3>1, <3>2
  <2>4. QED
    BY <2>1, <2>2, <2>3
<1>10. QED
  BY <1>2, <1>3, <1>4, <1>5, <1>6, <1>9 DEF Steps, Touches, Counts, Hands

\* A thread that is alone stays so until it lends a handle.
LEMMA AloneStays ==
  ASSUME TypeOK, NEW t \in Threads, Steps(t), ~Publish(t), ~TakeBack(t), Alone(t)
  PROVE  Alone(t)'
BY OthersStay, OwnerStays DEF Alone

\* Whoever is told that it is alone with the payload, before it writes and when
\* it lets go, really is.
LEMMA LettingStep ==
  ASSUME TypeOK, HandlesBounded, CallsHold, CountIsHeld, OldOnesAreKnown, LettingIsAlone,
         NEW t \in Threads, Steps(t)
  PROVE  LettingIsAlone'
<1>1. Unfreed /\ \A u \in Threads \ {t} : ~Letting(u) /\ pc[u] # "write"
  BY OnlyTheAloneStep
<1>2. \A u \in Threads \ {t} : pc'[u] = pc[u]
  BY OthersStay
<1>3. holds \in [Threads -> Nat] /\ pc' \in [Threads -> Places]
  BY TypeStep DEF TypeOK
<1>4. ASSUME NEW u \in Threads, pc'[u] = "write" PROVE Alone(u)' /\ holds'[u] = 1
  <2>1. u = t
    BY <1>1, <1>2, <1>4
  <2>2. PICK i \in at[t]..Len(count) : holds[t] > 0 /\ Barrier(t, i) /\ count[i].value = 1
    BY <1>4, <2>1, Turns
  <2>3. Alone(t) /\ holds[t] = 1
    BY <1>1, <2>2, OneIsRead
  <2>4. ~Publish(t) /\ ~TakeBack(t)
    <3>1. pc'[t] = "write"
      BY <1>4, <2>1
    <3>2. Publish(t) \/ TakeBack(t) => pc'[t] = "idle"
      BY DEF Publish, TakeBack, Idle
    <3>3. QED
      BY <3>1, <3>2
  <2>5. QED
    BY <2>1, <2>2, <2>3, <2>4, AloneStays DEF Barrier
<1>5. ASSUME NEW u \in Threads, Letting(u)'
      PROVE  Alone(u)' /\ (holds'[u] = 0 \/ (pc'[u] = "free" /\ holds'[u] = 1))
  <2>1. u = t /\ pc'[t] \in {"fence", "free", "freed"}
    BY <1>1, <1>2, <1>5 DEF Letting
  <2>2. ~Publish(t) /\ ~TakeBack(t)
    <3>1. Publish(t) \/ TakeBack(t) => pc'[t] = "idle"
      BY DEF Publish, TakeBack, Idle
    <3>2. QED
      BY <2>1, <3>1
  <2>3. CASE pc'[t] = "fence"
    <3>1. Lower(t) /\ Current.value = 1
      BY <2>3, Turns
    <3>2. holds[t] > 0
      BY <3>1 DEF Lower, CallsHold
    <3>3. Current.value <= 1
      BY <3>1
    <3>4. Alone(t) /\ holds[t] = 1
      BY <1>1, <3>2, <3>3, OneIsAlone
    <3>5. holds'[t] = 0
      BY <1>3, <3>1, <3>4 DEF Lower
    <3>6. QED
      BY <2>1, <2>2, <3>4, <3>5, AloneStays
  <2>4. CASE pc'[t] = "free"
    <3>1. CASE Fence(t)
      <4>1. Alone(t) /\ holds[t] = 0
        BY <3>1 DEF Fence, LettingIsAlone, Letting
      <4>2. QED
        BY <2>1, <2>2, <3>1, <4>1, AloneStays DEF Fence
    <3>2. ASSUME NEW i \in at[t]..Len(count), holds[t] > 0, SoleOwner(t, i), count[i].value = 1
          PROVE Alone(t)' /\ holds'[t] = 1
      <4>1. Alone(t) /\ holds[t] = 1
        BY <1>1, <3>2, OneIsRead
      <4>2. QED
        BY <2>2, <3>2, <4>1, AloneStays DEF SoleOwner
    <3>3. QED
      BY <2>1, <2>4, <3>1, <3>2, Turns
  <2>5. CASE pc'[t] = "freed"
    <3>1. FreePayload(t)
      BY <2>5, Turns
    <3>2. Alone(t)
      BY <3>1 DEF FreePayload, LettingIsAlone, Letting
    <3>3. holds'[t] = 0
      BY <1>3, <3>1 DEF FreePayload
    <3>4. QED
      BY <2>1, <2>2, <3>2, <3>3, AloneStays
  <2>6. QED
    BY <2>1, <2>3, <2>4, <2>5
<1>6. ASSUME Held' = {} PROVE \E u \in Threads : Letting(u)'
  <2>1. CASE FreePayload(t)
    <3>1. pc'[t] = "freed"
      BY <2>1 DEF FreePayload, Goto, TypeOK
    <3>2. QED
      BY <3>1 DEF Letting
  <2>2. CASE Lower(t)
    <3>1. <<t, holds[t]>> \in Held /\ Held' = Held \ {<<t, holds[t]>>}
      BY <2>2, HeldStep
    <3>2. Held = {<<t, holds[t]>>}
      BY <1>6, <3>1
    <3>3. Current.value = 1
      BY <1>1, <3>2, FS_Singleton DEF CountIsHeld
    <3>4. pc'[t] = "fence"
      BY <2>2, <3>3 DEF Lower, Goto, TypeOK
    <3>5. QED
      BY <3>4 DEF Letting
  <2>3. CASE Publish(t) \/ TakeBack(t) \/ Copy(t) \/ CopyLent(t)
    <3>1. Held' # {}
      BY <2>3, HeldStep
    <3>2. QED
      BY <1>6, <3>1
  <2>4. CASE ~Publish(t) /\ ~TakeBack(t) /\ ~Counts(t) /\ ~FreePayload(t)
    <3>1. Held = {}
      BY <1>6, <2>4, HeldStep DEF Counts
    <3>2. PICK u \in Threads : Letting(u)
      BY <3>1 DEF LettingIsAlone
    <3>3. u = t
      BY <1>1, <3>2
    <3>4. pc[t] \in {"fence", "free", "freed"}
      BY <3>2, <3>3 DEF Letting
    <3>5. Fence(t)
      BY <2>4, <3>4
         DEF Steps, Touches, Loads, Hands, Read, WriteInPlace, CopyOut, Barrier, SoleOwner, Drop, Idle
    <3>6. pc'[t] = "free"
      BY <3>5 DEF Fence, Goto, TypeOK
    <3>7. QED
      BY <3>6 DEF Letting
  <2>5. QED
    BY <2>1, <2>2, <2>3, <2>4 DEF Counts
<1>7. QED
  BY <1>4, <1>5, <1>6 DEF LettingIsAlone

-----------------------------------------------------------------------------
(***************************************************************************)
(* The views.                                                              *)
(***************************************************************************)

\* A step adds itself, at most, to what the others, the last value of the count
\* and the lent handle have not seen; its own thread misses no more than before.
Adds(t, kind) ==
  /\ \A u \in Threads \ {t} : unseen'[u] \subseteq unseen[u] \cup {<<t, kind>>}
  /\ Current'.unseen \subseteq Current.unseen \cup {<<t, kind>>}
  /\ lent # Nobody /\ lent' # Nobody =>
       /\ lent'.shown \subseteq lent.shown \cup {<<t, kind>>}
       /\ lent'.back \subseteq lent.back \cup {<<t, kind>>}

LEMMA UnseenStep ==
  ASSUME TypeOK, NEW t \in Threads, Steps(t)
  PROVE  /\ unseen'[t] \subseteq unseen[t]
         /\ \E kind \in Kinds :
              /\ Adds(t, kind)
              /\ (kind = "write" => WriteInPlace(t)) /\ (kind = "free" => FreePayload(t))
<1>1. unseen \in [Threads -> View]
  BY DEF TypeOK
<1>2. ASSUME NEW kind \in Kinds, lent' = LentBehind(<<t, kind>>), lent # Nobody
      PROVE  /\ lent'.shown \subseteq lent.shown \cup {<<t, kind>>}
             /\ lent'.back \subseteq lent.back \cup {<<t, kind>>}
  <2>1. lent \in [owner : Threads, shown : View, back : View, at : DOMAIN count]
    BY <1>2 DEF TypeOK
  <2>2. lent' = [lent EXCEPT !.shown = @ \cup {<<t, kind>>}, !.back = @ \cup {<<t, kind>>}]
    BY <1>2, LentBehindShape
  <2>3. QED
    BY <2>1, <2>2
<1>3. CASE Touches(t) \/ Loads(t)
  <2>1. PICK kind \in Kinds :
          /\ Looked(t, kind)
          /\ (kind = "write" <=> WriteInPlace(t)) /\ (kind = "free" <=> FreePayload(t))
    BY <1>3, LooksEffect
  <2>2. Adds(t, kind)
    BY <1>2, <2>1 DEF Looked, Behind, Adds
  <2>3. QED
    BY <2>1, <2>2 DEF Looked
<1>4. CASE Counts(t)
  <2>1. /\ Behind(t, "count") /\ unseen'[t] \subseteq unseen[t]
        /\ Current'.unseen \subseteq Current.unseen \cup {<<t, "count">>}
    BY <1>4, CountsEffect
  <2>2. "count" \in Kinds
    BY DEF Kinds
  <2>3. ASSUME lent # Nobody
        PROVE  /\ lent'.shown \subseteq lent.shown \cup {<<t, "count">>}
               /\ lent'.back \subseteq lent.back \cup {<<t, "count">>}
    <3>1. CASE Copy(t) \/ Lower(t)
      BY <1>2, <2>2, <2>3, <3>1 DEF Copy, Lower
    <3>2. CASE CopyLent(t)
      <4> DEFINE behind == LentBehind(<<t, "count">>)
      <4>1. behind = [lent EXCEPT !.shown = @ \cup {<<t, "count">>}, !.back = @ \cup {<<t, "count">>}]
        BY <2>2, <2>3, LentBehindShape
      <4>2. lent \in [owner : Threads, shown : View, back : View, at : DOMAIN count]
        BY <2>3 DEF TypeOK
      <4>3. behind.shown = lent.shown \cup {<<t, "count">>} /\ behind.back = lent.back \cup {<<t, "count">>}
        BY <4>1, <4>2
      <4>4. behind \in [owner : Threads, shown : View, back : View, at : DOMAIN count]
        BY <2>2, <2>3, LentBehindShape
      <4>5. lent' = [behind EXCEPT !.back = @ \cap (unseen[t] \cap lent.shown), !.at = Len(count) + 1]
        BY <3>2 DEF CopyLent
      <4> HIDE DEF behind
      <4>6. lent'.shown = behind.shown /\ lent'.back = behind.back \cap (unseen[t] \cap lent.shown)
        BY <4>4, <4>5
      <4>7. QED
        BY <4>3, <4>6
    <3>3. QED
      BY <1>4, <3>1, <3>2 DEF Counts
  <2>4. Adds(t, "count")
    BY <2>1, <2>3 DEF Behind, Adds
  <2>5. QED
    BY <2>1, <2>2, <2>4
<1>5. CASE Hands(t)
  <2>1. count' = count /\ \A u \in Threads \ {t} : unseen'[u] = unseen[u]
    BY <1>1, <1>5 DEF Hands, Publish, TakeBack, Drop, Fence
  <2>2. unseen'[t] \subseteq unseen[t]
    BY <1>1, <1>5 DEF Hands, Publish, TakeBack, Drop, Fence
  <2>3. lent' = lent \/ lent = Nobody \/ lent' = Nobody
    BY <1>5 DEF Hands, Publish, TakeBack, Drop, Fence
  <2>4. Adds(t, "count") /\ "count" \in Kinds
    BY <2>1, <2>3 DEF Adds, Current, Kinds
  <2>5. QED
    BY <2>2, <2>4
<1>6. QED
  BY <1>3, <1>4, <1>5 DEF Steps

\* A thread sees what it does itself, and nobody misses a free but the one that
\* was last.
LEMMA OwnStep ==
  ASSUME TypeOK, CallsHold, LettingIsAlone, OwnStepsSeen, FreeIsLast, NEW t \in Threads, Steps(t)
  PROVE  OwnStepsSeen' /\ FreeIsLast'
<1>1. unseen'[t] \subseteq unseen[t]
  BY UnseenStep
<1>2. PICK kind \in Kinds : Adds(t, kind) /\ (kind = "free" => FreePayload(t))
  BY UnseenStep
<1>3. \A u \in Threads \ {t} : unseen'[u] \subseteq unseen[u] \cup {<<t, kind>>}
  BY <1>2 DEF Adds
<1>4. Unfreed
  BY OnlyTheAloneStep
<1>5. OwnStepsSeen'
  <2> SUFFICES ASSUME NEW u \in Threads, NEW k \in {"read", "write", "count", "free"}
               PROVE  <<u, k>> \notin unseen'[u]
    BY DEF OwnStepsSeen
  <2>1. <<u, k>> \notin unseen[u]
    BY DEF OwnStepsSeen
  <2>2. CASE u = t
    BY <1>1, <2>1, <2>2
  <2>3. CASE u # t
    BY <1>3, <2>1, <2>3
  <2>4. QED
    BY <2>2, <2>3
<1>6. FreePayload(t) => pc'[t] = "freed"
  BY DEF FreePayload, Goto, TypeOK
<1>7. \A u, v \in Threads : <<u, "free">> \notin unseen[v]
  BY <1>4 DEF FreeIsLast, Unfreed
<1>8. FreeIsLast'
  <2> SUFFICES ASSUME NEW v \in Threads, NEW u \in Threads, <<u, "free">> \in unseen'[v]
               PROVE  pc'[u] = "freed"
    BY DEF FreeIsLast
  <2>1. v # t /\ <<u, "free">> = <<t, kind>>
    BY <1>1, <1>3, <1>7
  <2>2. QED
    BY <1>2, <1>6, <2>1
<1>9. QED
  BY <1>5, <1>8

\* The payload is only written by a thread that is alone with it, so everybody
\* who comes to hold it has seen every write.
LEMMA WritesStep ==
  ASSUME TypeOK, CallsHold, LettingIsAlone, WritesSeen, NEW t \in Threads, Steps(t)
  PROVE  WritesSeen'
<1>1. unseen'[t] \subseteq unseen[t]
  BY UnseenStep
<1>2. PICK kind \in Kinds : Adds(t, kind) /\ (kind = "write" => WriteInPlace(t))
  BY UnseenStep
<1>3. \A u \in Threads \ {t} : unseen'[u] \subseteq unseen[u] \cup {<<t, kind>>}
  BY <1>2 DEF Adds
<1>4. \A u \in Threads \ {t} : holds'[u] = holds[u] /\ pc'[u] = pc[u]
  BY OthersStay
<1>5. WriteInPlace(t) => Alone(t)
  BY DEF WriteInPlace, LettingIsAlone
<1>6. ASSUME NEW v \in Threads, NEW u \in Threads, holds'[v] > 0 \/ pc'[v] = "fence"
      PROVE  <<u, "write">> \notin unseen'[v]
  <2>1. CASE v # t
    <3>1. holds[v] > 0 \/ pc[v] = "fence"
      BY <1>4, <1>6, <2>1
    <3>2. ~WriteInPlace(t)
      <4>1. SUFFICES ASSUME Alone(t) PROVE FALSE
        BY <1>5
      <4>2. holds[v] = 0 /\ pc[v] = "idle"
        BY <2>1, <4>1 DEF Alone
      <4>3. QED
        BY <3>1, <4>2
    <3>3. <<u, "write">> \notin unseen[v]
      BY <3>1 DEF WritesSeen
    <3>4. QED
      BY <1>2, <1>3, <2>1, <3>2, <3>3
  <2>2. CASE v = t /\ (holds[t] > 0 \/ pc[t] = "fence")
    BY <1>1, <2>2 DEF WritesSeen
  <2>3. CASE v = t /\ ~(holds[t] > 0) /\ pc[t] # "fence"
    <3>1. ~Lower(t)
      BY <2>3 DEF Lower, CallsHold
    <3>2. pc'[t] # "fence"
      BY <3>1, Turns
    <3>3. TakeBack(t) \/ CopyLent(t)
      <4>1. SUFFICES ASSUME ~TakeBack(t), ~CopyLent(t) PROVE FALSE
        OBVIOUS
      <4>2. ~Publish(t) /\ ~Copy(t)
        BY <2>3 DEF Publish, Copy
      <4>3. holds' = holds \/ holds'[t] = 0
        BY <3>1, <4>1, <4>2, OwnHandles
      <4>4. holds'[t] > 0
        BY <1>6, <2>3, <3>2
      <4>5. QED
        BY <2>3, <4>3, <4>4
    <3>4. CASE TakeBack(t)
      <4>1. lent # Nobody
        BY <3>4, ThreadsAssumption DEF TakeBack, Nobody
      <4>2. unseen'[t] = unseen[t] \cap lent.back
        BY <3>4 DEF TakeBack, TypeOK
      <4>3. QED
        BY <2>3, <4>1, <4>2 DEF WritesSeen
    <3>5. CASE CopyLent(t)
      <4>1. lent # Nobody
        BY <3>5, ThreadsAssumption DEF CopyLent, Nobody
      <4>2. unseen'[t] = unseen[t] \cap lent.shown
        BY <3>5 DEF CopyLent, Increment, Modify, Step
      <4>3. QED
        BY <2>3, <4>1, <4>2 DEF WritesSeen
    <3>6. QED
      BY <3>3, <3>4, <3>5
  <2>4. QED
    BY <2>1, <2>2, <2>3
<1>7. ASSUME lent' # Nobody, NEW u \in Threads
      PROVE  <<u, "write">> \notin lent'.shown /\ <<u, "write">> \notin lent'.back
  <2>1. CASE lent # Nobody
    <3>1. ~WriteInPlace(t)
      BY <1>5, <2>1 DEF Alone
    <3>2. <<u, "write">> \notin lent.shown /\ <<u, "write">> \notin lent.back
      BY <2>1 DEF WritesSeen
    <3>3. lent'.shown \subseteq lent.shown \cup {<<t, kind>>} /\ lent'.back \subseteq lent.back \cup {<<t, kind>>}
      BY <1>2, <1>7, <2>1 DEF Adds
    <3>4. QED
      BY <1>2, <3>1, <3>2, <3>3
  <2>2. CASE lent = Nobody
    <3>1. Publish(t)
      <4>1. TakeBack(t) => lent' = Nobody
        BY DEF TakeBack
      <4>2. QED
        BY <1>7, <2>2, <4>1, OwnerStays
    <3>2. lent'.shown = unseen[t] /\ lent'.back = unseen[t] /\ holds[t] > 0
      BY <3>1 DEF Publish
    <3>3. QED
      BY <3>2 DEF WritesSeen
  <2>3. QED
    BY <2>1, <2>2
<1>8. QED
  BY <1>6, <1>7 DEF WritesSeen

\* Whoever lowers the count releases all that it did, and from then on the last
\* value of the count passes it on.
LEMMA GivenUpStep ==
  ASSUME TypeOK, CallsHold, LettingIsAlone, OwnStepsSeen, GivenUpIsReleased,
         NEW t \in Threads, Steps(t)
  PROVE  GivenUpIsReleased'
<1>1. PICK kind \in Kinds : Adds(t, kind)
  BY UnseenStep
<1>2. Current'.unseen \subseteq Current.unseen \cup {<<t, kind>>}
  BY <1>1 DEF Adds
<1>3. holds \in [Threads -> Nat]
  BY DEF TypeOK
<1>4. ASSUME NEW u \in Threads \ {t}, holds'[u] = 0, lent'.owner # u, pc'[u] # "freed"
      PROVE  <<u, "read">> \notin Current'.unseen /\ <<u, "count">> \notin Current'.unseen
  <2>1. holds[u] = 0 /\ lent.owner # u /\ pc[u] # "freed"
    BY <1>4, OthersStay
  <2>2. <<u, "read">> \notin Current.unseen /\ <<u, "count">> \notin Current.unseen
    BY <2>1 DEF GivenUpIsReleased
  <2>3. QED
    BY <1>2, <2>2
<1>5. ASSUME holds'[t] = 0, lent'.owner # t, pc'[t] # "freed"
      PROVE  <<t, "read">> \notin Current'.unseen /\ <<t, "count">> \notin Current'.unseen
  <2>1. CASE Lower(t)
    <3>1. Modified(t, unseen[t], -1, TRUE)
      BY <2>1, DecrementEffect DEF Lower
    <3>2. Current'.unseen \subseteq unseen[t]
      BY <3>1 DEF Modified
    <3>3. QED
      BY <3>2 DEF OwnStepsSeen
  <2>2. CASE Drop(t) \/ Fence(t)
    <3>1. holds[t] = 0 /\ lent' = lent /\ count' = count
      BY <1>5, <2>2 DEF Drop, Fence
    <3>2. pc[t] # "freed"
      BY <2>2 DEF Drop, Fence, Idle
    <3>3. <<t, "read">> \notin Current.unseen /\ <<t, "count">> \notin Current.unseen
      BY <1>5, <3>1, <3>2 DEF GivenUpIsReleased
    <3>4. QED
      BY <3>1, <3>3 DEF Current
  <2>3. CASE Publish(t) \/ TakeBack(t) \/ Copy(t) \/ CopyLent(t)
    BY <1>3, <1>5, <2>3, OwnHandles
  <2>4. CASE FreePayload(t)
    BY <1>5, <2>4 DEF FreePayload, Goto, TypeOK
  <2>5. CASE Read(t) \/ WriteInPlace(t) \/ CopyOut(t) \/ Loads(t)
    <3>1. holds[t] > 0 /\ holds' = holds
      BY <2>5 DEF Read, WriteInPlace, CopyOut, Loads, Barrier, SoleOwner, CallsHold
    <3>2. QED
      BY <1>5, <3>1
  <2>6. QED
    BY <2>1, <2>2, <2>3, <2>4, <2>5 DEF Steps, Touches, Counts, Hands
<1>6. QED
  BY <1>4, <1>5 DEF GivenUpIsReleased

\* Whoever reads the last value of the count when nobody else has a handle has
\* seen what they all did with the payload.
LEMMA AllIsPassedOn ==
  ASSUME TypeOK, LettingIsAlone, GivenUpIsReleased, NEW t \in Threads, Alone(t), NEW u \in Threads \ {t}
  PROVE  <<u, "read">> \notin Current.unseen /\ <<u, "count">> \notin Current.unseen
<1>1. holds[u] = 0 /\ pc[u] = "idle" /\ lent.owner # u
  BY ThreadsAssumption DEF Alone, Nobody
<1>2. QED
  BY <1>1 DEF GivenUpIsReleased

\* The barrier before a write acquires every read of those who let go before,
\* and whoever frees the payload acquires everything.
LEMMA AloneSeenStep ==
  ASSUME TypeOK, HandlesBounded, CallsHold, CountIsHeld, OldOnesAreKnown, LettingIsAlone,
         WritesSeen, GivenUpIsReleased, AloneHasSeen, NEW t \in Threads, Steps(t)
  PROVE  AloneHasSeen'
<1>1. Unfreed /\ \A v \in Threads \ {t} : ~Letting(v) /\ pc[v] # "write"
  BY OnlyTheAloneStep
<1>2. \A v \in Threads \ {t} : pc'[v] = pc[v]
  BY OthersStay
<1>3. ASSUME NEW i \in at[t]..Len(count), holds[t] > 0, count[i].value = 1,
             Barrier(t, i) \/ SoleOwner(t, i), NEW u \in Threads \ {t}
      PROVE  <<u, "read">> \notin unseen'[t] /\ <<u, "count">> \notin unseen'[t]
  <2>1. i = Len(count) /\ Alone(t)
    BY <1>1, <1>3, OneIsRead
  <2>2. unseen'[t] = unseen[t] \cap count[i].unseen
    BY <1>3 DEF Barrier, SoleOwner, Load, Step
  <2>3. unseen'[t] \subseteq Current.unseen
    BY <2>1, <2>2 DEF Current
  <2>4. QED
    BY <2>1, <2>3, AllIsPassedOn
<1>4. ASSUME NEW v \in Threads, NEW u \in Threads \ {v}, pc'[v] = "write"
      PROVE  <<u, "read">> \notin unseen'[v]
  <2>1. v = t
    BY <1>1, <1>2, <1>4
  <2>2. PICK i \in at[t]..Len(count) : holds[t] > 0 /\ Barrier(t, i) /\ count[i].value = 1
    BY <1>4, <2>1, Turns
  <2>3. QED
    BY <1>3, <2>1, <2>2
<1>5. ASSUME NEW v \in Threads, NEW u \in Threads \ {v}, pc'[v] = "fence"
      PROVE  <<u, "read">> \notin pending'[v] /\ <<u, "count">> \notin pending'[v]
  <2>1. v = t
    BY <1>1, <1>2, <1>5 DEF Letting
  <2>2. Lower(t) /\ Current.value = 1
    BY <1>5, <2>1, Turns
  <2>3. holds[t] > 0
    BY <2>2 DEF Lower, CallsHold
  <2>4. Current.value <= 1
    BY <2>2
  <2>5. Alone(t)
    BY <1>1, <2>3, <2>4, OneIsAlone
  <2>6. pending'[t] = (pending[t] \cap Current.unseen) \cup {<<t, "count">>}
    BY <2>2, CountsEffect DEF Counts
  <2>7. <<u, "read">> \notin Current.unseen /\ <<u, "count">> \notin Current.unseen
    BY <2>1, <2>5, AllIsPassedOn
  <2>8. QED
    BY <2>1, <2>6, <2>7
<1>6. ASSUME NEW v \in Threads, NEW u \in Threads \ {v}, pc'[v] = "free"
      PROVE  /\ <<u, "read">> \notin unseen'[v] /\ <<u, "count">> \notin unseen'[v]
             /\ <<u, "write">> \notin unseen'[v]
  <2>1. v = t
    BY <1>1, <1>2, <1>6 DEF Letting
  <2>2. CASE Fence(t)
    <3>1. pc[t] = "fence" /\ unseen'[t] = unseen[t] \cap pending[t]
      BY <2>2 DEF Fence, TypeOK
    <3>2. <<u, "read">> \notin pending[t] /\ <<u, "count">> \notin pending[t]
      BY <2>1, <3>1 DEF AloneHasSeen
    <3>3. <<u, "write">> \notin unseen[t]
      BY <3>1 DEF WritesSeen
    <3>4. QED
      BY <2>1, <3>1, <3>2, <3>3
  <2>3. ASSUME NEW i \in at[t]..Len(count), holds[t] > 0, SoleOwner(t, i), count[i].value = 1
        PROVE  /\ <<u, "read">> \notin unseen'[t] /\ <<u, "count">> \notin unseen'[t]
               /\ <<u, "write">> \notin unseen'[t]
    <3>1. <<u, "write">> \notin unseen[t]
      BY <2>3 DEF WritesSeen
    <3>2. unseen'[t] \subseteq unseen[t]
      BY UnseenStep
    <3>3. QED
      BY <1>3, <2>1, <2>3, <3>1, <3>2
  <2>4. QED
    BY <1>6, <2>1, <2>2, <2>3, Turns
<1>7. QED
  BY <1>4, <1>5, <1>6 DEF AloneHasSeen

-----------------------------------------------------------------------------
(***************************************************************************)
(* The properties.                                                         *)
(***************************************************************************)

\* The creator is alone with the payload it filled.
LEMMA InvariantInit == Init => IInv
<1> SUFFICES ASSUME Init PROVE IInv
  OBVIOUS
<1> DEFINE filled == {<<Creator, "write">>}
<1>1. /\ count = << [value |-> 1, unseen |-> filled] >> /\ lent = Nobody
      /\ at = [t \in Threads |-> 1]
      /\ unseen = [t \in Threads |-> IF t = Creator THEN {} ELSE filled]
      /\ holds = [t \in Threads |-> IF t = Creator THEN 1 ELSE 0]
      /\ pc = [t \in Threads |-> "idle"]
  BY DEF Init
<1>2. lent.owner \notin Threads /\ Handles \in Nat \ {0} /\ Creator \in Threads
  BY <1>1, ThreadsAssumption DEF Nobody
<1>3. Len(count) = 1 /\ Current = [value |-> 1, unseen |-> filled]
  BY <1>1 DEF Current
<1>4. Held = {<<Creator, 1>>}
  <2>1. \A u \in Threads, n \in 0..Handles + 1 :
          <<u, n>> \in Held <=> u = Creator /\ n = 1
    BY <1>1, <1>2 DEF Held
  <2>2. Held \subseteq Threads \X (0..Handles + 1) /\ 1 \in 0..Handles + 1
    BY <1>2 DEF Held
  <2>3. QED
    BY <1>2, <2>1, <2>2
<1>5. CountIsHeld
  <2>1. Cardinality(Held) = 1
    BY <1>4, FS_Singleton
  <2>2. QED
    BY <1>3, <2>1 DEF CountIsHeld
<1>6. HandlesBounded /\ CallsHold
  BY <1>1, <1>2 DEF HandlesBounded, CallsHold
<1>7. OldOnesAreKnown
  BY <1>1, <1>3 DEF OldOnesAreKnown
<1>8. LettingIsAlone
  BY <1>1, <1>4 DEF LettingIsAlone, Letting
<1>9. OwnStepsSeen /\ FreeIsLast /\ WritesSeen
  BY <1>1 DEF OwnStepsSeen, FreeIsLast, WritesSeen
<1>10. GivenUpIsReleased /\ AloneHasSeen
  BY <1>1, <1>3 DEF GivenUpIsReleased, AloneHasSeen
<1>11. QED
  BY <1>5, <1>6, <1>7, <1>8, <1>9, <1>10, TypeInit DEF IInv

\* A stuttering step changes nothing.
LEMMA InvariantStep == IInv /\ [Next]_vars => IInv'
<1> SUFFICES ASSUME IInv, [Next]_vars PROVE IInv'
  OBVIOUS
<1>1. CASE Next
  <2>1. PICK t \in Threads : Steps(t)
    BY <1>1 DEF Next, Steps, Touches, Loads, Counts, Hands
  <2>2. QED
    BY <2>1, TypeStep, BoundStep, CountStep, OldOnesStep, LettingStep, OwnStep, WritesStep,
       GivenUpStep, AloneSeenStep DEF IInv
<1>2. CASE UNCHANGED vars
  <2>1. /\ count' = count /\ at' = at /\ unseen' = unseen /\ pending' = pending
        /\ holds' = holds /\ lent' = lent /\ pc' = pc
    BY <1>2 DEF vars
  <2>2. TypeOK' /\ HandlesBounded' /\ CallsHold' /\ OldOnesAreKnown'
    BY <2>1 DEF IInv, TypeOK, HandlesBounded, CallsHold, OldOnesAreKnown
  <2>3. Held' = Held /\ Current' = Current
    BY <2>1 DEF Held, Current
  <2>4. CountIsHeld' /\ LettingIsAlone'
    BY <2>1, <2>3 DEF IInv, CountIsHeld, Unfreed, LettingIsAlone, Letting, Alone
  <2>5. OwnStepsSeen' /\ FreeIsLast' /\ WritesSeen'
    BY <2>1 DEF IInv, OwnStepsSeen, FreeIsLast, WritesSeen
  <2>6. GivenUpIsReleased' /\ AloneHasSeen'
    BY <2>1, <2>3 DEF IInv, GivenUpIsReleased, AloneHasSeen
  <2>7. QED
    BY <2>2, <2>4, <2>5, <2>6 DEF IInv
<1>3. QED
  BY <1>1, <1>2

\* However many threads copy, write and let go of a payload in whatever order,
\* and whichever of the values it had a load of the count returns: the count is
\* the number of handles, and what was done to the payload is handed on with it
\* (cow_policy.hpp:60-81).
THEOREM Invariant == Spec => []IInv
BY InvariantInit, InvariantStep, PTL DEF Spec

\* Every write, copy and free of the payload is ordered after whatever it
\* conflicts with (cow_policy.hpp:63-67, 73-81).
THEOREM OrderingHolds == Spec => []StepsAreOrdered
<1>1. IInv => StepsAreOrdered
  <2> SUFFICES ASSUME IInv, NEW t \in Threads, NEW u \in Threads \ {t}
               PROVE  /\ holds[t] > 0 => <<u, "write">> \notin unseen[t] /\ <<u, "free">> \notin unseen[t]
                      /\ pc[t] = "write" => <<u, "read">> \notin unseen[t]
                      /\ pc[t] = "free" => \A kind \in {"read", "write", "count"} : <<u, kind>> \notin unseen[t]
    BY DEF StepsAreOrdered
  <2>1. ASSUME holds[t] > 0 PROVE <<u, "free">> \notin unseen[t]
    <3>1. SUFFICES ASSUME pc[u] = "freed" PROVE FALSE
      BY DEF IInv, FreeIsLast
    <3>2. Alone(u)
      BY <3>1 DEF IInv, LettingIsAlone, Letting
    <3>3. holds[t] = 0
      BY <3>2 DEF Alone
    <3>4. QED
      BY <2>1, <3>3
  <2>2. QED
    BY <2>1 DEF IInv, WritesSeen, AloneHasSeen
<1>2. QED
  BY Invariant, <1>1, PTL

\* Whoever the count told that it is alone stays alone until its write or its
\* free is done, even when the value it read was an old one
\* (cow_policy.hpp:73-77, 119-124).
THEOREM SoleOwnershipHolds == Spec => []SoleOwnerStaysAlone
<1>1. IInv => SoleOwnerStaysAlone
  <2> SUFFICES ASSUME IInv, NEW t \in Threads, pc[t] = "write" \/ (pc[t] = "free" /\ holds[t] > 0)
               PROVE  holds[t] = 1 /\ Alone(t)
    BY DEF SoleOwnerStaysAlone, Alone
  <2>1. QED
    BY DEF IInv, LettingIsAlone, Letting
<1>2. QED
  BY Invariant, <1>1, PTL

\* The payload is freed once, by the last to let go of it
\* (container_handle.hpp:754-767).
THEOREM LastOneFrees == Spec => []FreedByTheLast
<1> DEFINE letting == {t \in Threads : pc[t] \in {"fence", "free", "freed"}}
           nobodyHolds == lent = Nobody /\ \A t \in Threads : holds[t] = 0
<1>1. IInv => FreedByTheLast
  <2> SUFFICES ASSUME IInv PROVE FreedByTheLast
    OBVIOUS
  <2>1. \A t \in letting : Alone(t) /\ (holds[t] = 0 \/ (pc[t] = "free" /\ holds[t] = 1))
    BY DEF IInv, LettingIsAlone, Letting
  <2>2. \A t, u \in letting : t = u
    BY <2>1 DEF Alone
  <2>3. Cardinality(letting) <= 1
    <3>1. CASE letting = {}
      BY <3>1, FS_EmptySet
    <3>2. CASE letting # {}
      <4>1. PICK t \in letting : letting = {t}
        BY <2>2, <3>2
      <4>2. Cardinality(letting) = 1
        BY <4>1, FS_Singleton
      <4>3. QED
        BY <4>2
    <3>3. QED
      BY <3>1, <3>2
  <2>4. \A t \in letting : nobodyHolds \/ (pc[t] = "free" /\ holds[t] = 1)
    BY <2>1 DEF Alone
  <2>5. nobodyHolds => letting # {}
    <3>1. SUFFICES ASSUME nobodyHolds PROVE letting # {}
      OBVIOUS
    <3>2. Held = {}
      BY <3>1, ThreadsAssumption DEF Held, Nobody
    <3>3. QED
      BY <3>2 DEF IInv, LettingIsAlone, Letting
  <2>6. QED
    BY <2>3, <2>4, <2>5 DEF FreedByTheLast
<1>2. QED
  BY Invariant, <1>1, PTL
=============================================================================
