--------------------------- MODULE BitmapCopiesMC ---------------------------
(***************************************************************************)
(* The instances of bitmap and its copies that TLC checks.  A behaviour is *)
(* that of one program: one that copies and changes bitmaps; one that      *)
(* builds unions in a scratch it keeps, whose pool has parked payloads; one*)
(* that adds and asks through bulk contexts.                               *)
(***************************************************************************)
EXTENDS BitmapCopies, TLC

CONSTANTS
  Programs,   \* the programs checked
  Builders    \* the bitmaps only the program with a scratch uses, as scratches

VARIABLE program    \* the one that runs

\* The keys of one container of two and another of one, or of two others.
TwoAndOne == {<<0, 0>>, <<0, 1>>, <<1, 0>>}
TwoAndOnes == TwoAndOne \cup {<<2, 0>>}

Symmetric == Permutations(Bitmaps \ Builders)

(***************************************************************************)
(* States are told apart up to the renaming of addresses: which stores     *)
(* hold one table and which handles are on one payload, with what these    *)
(* hold and count, and how much is allocated.  No call reads the answer of  *)
(* the one before.                                                         *)
(***************************************************************************)
Places == Bitmaps \X {"live", "pool"}
TableAt(p) == IF p[2] = "live" THEN table[p[1]] ELSE pool[p[1]]

\* Every handle: its place, its chunk and its payload.
HandlesAt(p) ==
  LET entries == EntriesOf(heap, TableAt(p)) IN {<<p, c, entries[c]>> : c \in DOMAIN entries}

UpToAddresses ==
  LET handles == UNION {HandlesAt(p) : p \in Places}
      stores  == {<<p, TableAt(p)>> : p \in Places}
      on(q)   == {<<h[1], h[2]>> : h \in {h \in handles : h[3] = q}}
      at(t)   == {s[1] : s \in {s \in stores : s[2] = t}}
  IN <<program, heap.policy,
       {<<at(t), RoomOf(heap, t), IF t = Null THEN Null ELSE heap.holders[t]>> :
          t \in {s[2] : s \in stores}},
       {<<on(q), heap.keys[q], heap.refs[q]>> : q \in {h[3] : h \in handles}},
       Cardinality({t \in Tables : heap.holders[t] # 0}),
       Cardinality({q \in Payloads : heap.refs[q] # 0}),
       size,
       [b \in Bitmaps |-> IF context[b] = NoContext THEN NoContext
                          ELSE [context[b] EXCEPT !.table = IF @ = table[b] THEN 1 ELSE 0]]>>

-----------------------------------------------------------------------------
\* The program "copies" inserts the chunks of any operand into a table that holds
\* one (FewRatio is 0); for the others an operand may be too large for that.
Large == INSTANCE BitmapCopies WITH FewRatio <- 1, Scratches <- Builders

\* Payloads are shared where they are parked and where contexts are kept.
MCInit == Init /\ program \in Programs /\ (program = "copies" \/ Refcounted(heap))

MCNext ==
  \/ program = "copies"   /\ Step(Bitmaps \ Builders,
                               {"assign", "swap", "clear", "add", "remove", "unite"}, Keys)
                          /\ UNCHANGED program
  \/ program = "scratch"  /\ Large!Step(Bitmaps, {"assign", "add", "union_into"}, {0} \X Lows)
                          /\ UNCHANGED program
  \/ program = "contexts" /\ Large!Step(Bitmaps \ Builders,
                               Calls \ {"swap", "union_into"}, TwoAndOne)
                          /\ UNCHANGED program

MCSpec == MCInit /\ [][MCNext]_<<vars, program>>
=============================================================================
