----------------------------- MODULE ChunkHeap -----------------------------
(***************************************************************************)
(* The memory of bitmaps and their copies: chunk tables (the blocks of     *)
(* chunk_array) and the payloads of their containers (container_handle),   *)
(* both counted where a copy may share them.                               *)
(*                                                                         *)
(* A bitmap has one of three policies: under "values" a copy copies every  *)
(* payload, under "payloads" (CowPolicy::refcounted) it shares them, under *)
(* "tables" (chunk_store::table_sharing besides) it shares the table.      *)
(* Payloads are the spilled ones: an inline payload is part of its handle  *)
(* and never shared.  Addresses are numbers, and an allocation gives the   *)
(* lowest ones that are free.                                              *)
(***************************************************************************)
EXTENDS Integers, FiniteSets, Functions

CONSTANTS
  Chunks,        \* the chunk keys
  Lows,          \* the low keys a container may hold
  Tables,        \* the addresses of tables
  Payloads,      \* the addresses of payloads
  Policies,      \* the policies bitmaps are used with
  SmallTable,    \* table_sharing_policy::small_table_capacity
  LeastRoom      \* the capacity a table grows to from empty

ASSUME AddressAssumption ==
  /\ Chunks \subseteq Nat /\ Tables \subseteq Nat \ {0} /\ Payloads \subseteq Nat \ {0}
  /\ IsFiniteSet(Chunks) /\ IsFiniteSet(Lows) /\ IsFiniteSet(Tables) /\ IsFiniteSet(Payloads)
ASSUME PolicyAssumption ==
  /\ Policies \subseteq {"values", "payloads", "tables"}
  /\ SmallTable \in Nat /\ LeastRoom \in Nat \ {0}

Null == 0

(***************************************************************************)
(* A heap H: the policy of its bitmaps; of a table its entries (chunk key  *)
(* to payload), its holders and its capacity (room); of a payload its keys *)
(* and its refs.  What is free has no holders, respectively no refs.       *)
(***************************************************************************)
Entries == UNION {[S -> Payloads] : S \in SUBSET Chunks}
NoEntries == [c \in {} |-> Null]

EmptyHeap(policy) == [policy  |-> policy,
                      entries |-> [t \in Tables |-> NoEntries],
                      holders |-> [t \in Tables |-> 0],
                      room    |-> [t \in Tables |-> 0],
                      keys    |-> [p \in Payloads |-> {}],
                      refs    |-> [p \in Payloads |-> 0]]

Refcounted(H)   == H.policy # "values"
TableSharing(H) == H.policy = "tables"

Larger(m, n) == IF m > n THEN m ELSE n
Below(S, x)  == Cardinality({y \in S : y < x})
EntriesOf(H, t) == IF t = Null THEN NoEntries ELSE H.entries[t]
RoomOf(H, t)    == IF t = Null THEN 0 ELSE H.room[t]
Length(H, t)    == Cardinality(DOMAIN EntriesOf(H, t))

-----------------------------------------------------------------------------
\* One handle for each chunk of new, on a payload of its own that holds new[c].
Born(H, new) ==
  LET free == {p \in Payloads : H.refs[p] = 0}
      at   == [c \in DOMAIN new |->
                 CHOOSE p \in free : Below(free, p) = Below(DOMAIN new, c)]
      made(p) == {c \in DOMAIN new : at[c] = p}
  IN  [heap |-> [H EXCEPT
         !.refs = [p \in Payloads |-> @[p] + Cardinality(made(p))],
         !.keys = [p \in Payloads |-> @[p] \cup UNION {new[c] : c \in made(p)}]],
       entries |-> at]

\* Copies of handles: counted, or with payloads of their own.
Copied(H, f) ==
  IF Refcounted(H)
  THEN [heap |-> [H EXCEPT !.refs =
                    [p \in Payloads |-> @[p] + Cardinality({c \in DOMAIN f : f[c] = p})]],
        entries |-> f]
  ELSE Born(H, [c \in DOMAIN f |-> H.keys[f[c]]])

\* Handles destroyed: a payload goes with the last of them.
Dropped(H, f) ==
  LET left == [p \in Payloads |-> H.refs[p] - Cardinality({c \in DOMAIN f : f[c] = p})]
  IN  [H EXCEPT !.refs = left,
                !.keys = [p \in Payloads |-> IF left[p] = 0 THEN {} ELSE @[p]]]

\* The entries g put in table t, where their payloads replace those held.
Put(H, t, g) ==
  LET old == Restrict(H.entries[t], DOMAIN g \cap DOMAIN H.entries[t])
  IN  [Dropped(H, old) EXCEPT !.entries[t] =
         [c \in DOMAIN g \cup DOMAIN @ |-> IF c \in DOMAIN g THEN g[c] ELSE @[c]]]

\* Writing an entry: in place where its payload is its own, otherwise (the
\* barrier of copy on write) in a copy of the payload.
Unshared(H, t, c) == H.refs[H.entries[t][c]] = 1
\* A slip: the barrier does not look at the count.
OwnUnasked(H, t, c) == H
Own(H, t, c) ==
  IF Unshared(H, t, c) THEN H
  ELSE LET copy == Born(H, [d \in {c} |-> H.keys[H.entries[t][c]]])
       IN  Put(copy.heap, t, copy.entries)
Written(H, t, c, keys) == [H EXCEPT !.keys[H.entries[t][c]] = keys]

-----------------------------------------------------------------------------
FreeTable(H) == LET free == {t \in Tables : H.holders[t] = 0}
                IN  CHOOSE t \in free : Below(free, t) = 0

\* A block of its own for the entries f, and a block given back with its
\* entries moved elsewhere.
Allocated(H, f, room) ==
  LET t == FreeTable(H)
  IN  [heap |-> [H EXCEPT !.entries[t] = f, !.holders[t] = 1, !.room[t] = room],
       table |-> t]
Freed(H, t) ==
  IF t = Null THEN H
  ELSE [H EXCEPT !.entries[t] = NoEntries, !.holders[t] = 0, !.room[t] = 0]

\* Only a block with room for more than a few entries counts its holders.
Counted(H, t)   == TableSharing(H) /\ RoomOf(H, t) > SmallTable
IsShared(H, t)  == Counted(H, t) /\ H.holders[t] # 1
CanShare(H, t)  == Counted(H, t) /\ Length(H, t) # 0

\* release() and drop_block(): the last holder destroys the entries.
Released(H, t) ==
  IF IsShared(H, t) THEN [H EXCEPT !.holders[t] = @ - 1]
  ELSE Freed(Dropped(H, EntriesOf(H, t)), t)

\* destroy_all(): the entries go, the block stays.
Emptied(H, t) ==
  IF t = Null THEN H
  ELSE [Dropped(H, H.entries[t]) EXCEPT !.entries[t] = NoEntries]

\* detach(): a block of its own with room for `least` entries, on the same
\* payloads; the shared block is let go of.
Detached(H, t, least) ==
  LET copy  == Copied(H, H.entries[t])
      fresh == Allocated(copy.heap, copy.entries, Larger(Length(H, t), least))
  IN  [fresh EXCEPT !.heap = Released(@, t)]

\* relocate(): the entries move to a block with room for more.
Relocated(H, t, room) ==
  LET fresh == Allocated(H, EntriesOf(H, t), room)
  IN  [fresh EXCEPT !.heap = Freed(@, t)]

\* The room of a table that grows to hold `required` entries: it doubles, as
\* tables of up to 1024 entries do.
Grown(H, t, required) ==
  Larger(Larger(required, 2 * RoomOf(H, t)), LeastRoom)
WithRoom(H, t, required) ==
  IF required <= RoomOf(H, t) THEN [heap |-> H, table |-> t]
  ELSE Relocated(H, t, Grown(H, t, required))

\* A copy of the table for another bitmap: shared, or with handles of its own
\* (none, of an empty table).
Copy(H, t) ==
  IF CanShare(H, t) THEN [heap |-> [H EXCEPT !.holders[t] = @ + 1], table |-> t]
  ELSE IF Length(H, t) = 0 THEN [heap |-> H, table |-> Null]
  ELSE LET copy == Copied(H, H.entries[t])
       IN  Allocated(copy.heap, copy.entries, Length(H, t))

-----------------------------------------------------------------------------
\* The parked payloads of the pool q that a new container may be built in are
\* those no other handle holds; which of them suit a container (its kind, and
\* how far the pool has been handed out) is left open.
\* A slip: offers_reusable_payload does not look at the count.
ReusableUnasked(H, q) == DOMAIN EntriesOf(H, q)
Reusable(H, q) == {d \in DOMAIN EntriesOf(H, q) : Unshared(H, q, d)}
Reuses(H, q, S) == UNION {Injection(T, Reusable(H, q)) : T \in SUBSET S}

\* Handles for the containers new, those of from in parked payloads of q.
Made(H, q, new, from) ==
  LET kept  == [c \in DOMAIN from |-> H.entries[q][from[c]]]
      taken == IF DOMAIN from = {} THEN H
               ELSE [H EXCEPT !.entries[q] = Restrict(@, DOMAIN @ \ Range(from))]
      born  == Born(taken, Restrict(new, DOMAIN new \ DOMAIN from))
  IN  [heap    |-> [born.heap EXCEPT !.keys = [p \in Payloads |->
                      IF p \in Range(kept) THEN new[CHOOSE c \in DOMAIN kept : kept[c] = p]
                      ELSE @[p]]],
       entries |-> [c \in DOMAIN new |-> IF c \in DOMAIN from THEN kept[c] ELSE born.entries[c]]]

\* A parked payload taken for a container that then could not be built is lost.
Wasted(H, q) ==
  {H} \cup {[Dropped(H, Restrict(H.entries[q], {d})) EXCEPT !.entries[q] = Restrict(@, DOMAIN @ \ {d})] :
           d \in Reusable(H, q)}

\* The keys of f united into the chunks S of table t: in place in the payloads
\* that are t's own, in fresh ones for the others.
UnitedIn(H, t, q, f, S, from) ==
  LET both    == [c \in S |-> H.keys[H.entries[t][c]] \cup H.keys[f[c]]]
      inPlace == {c \in S : Unshared(H, t, c)}
      grown   == [H EXCEPT !.keys = [p \in Payloads |->
                    @[p] \cup UNION {both[c] : c \in {d \in inPlace : H.entries[t][d] = p}}]]
      made    == Made(grown, q, Restrict(both, S \ inPlace), from)
  IN  Put(made.heap, t, made.entries)
=============================================================================
