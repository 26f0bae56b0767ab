----------------------------- MODULE ChunkTreeMC -----------------------------
(***************************************************************************)
(* The capacities and keys of the runs on ChunkTree.                       *)
(***************************************************************************)
EXTENDS ChunkTree

CONSTANTS LastChunkKey, FarChunkKey

MCKey == 0..LastChunkKey \cup {FarChunkKey}
MCOtherTables == {{k \in MCKey : k % 3 = 1}}
MCKeptSets == {MCKey, {k \in MCKey : k % 3 # 0}, {k \in MCKey : k < 3}}

\* A new smallest key, below the buckets kept, finds the first leaf full.
SplitBelowTable(t, k) ==
  /\ Indexed(t) /\ IsFull(t.chain[1])
  /\ k < KeysAt(t, 1)[1] /\ BucketOf(t, k) < t.dir.lo

\* The behaviours without that split, which leaves the directory with a bucket
\* that names the wrong leaf (FreedLeafIsNamed.cfg has them all).
KeepsAboveTable ==
  \A k \in Held(tree') \ Held(tree) : ~SplitBelowTable(tree, k)

AboveTableSpec == Init /\ [][Next /\ KeepsAboveTable]_tree
=============================================================================
