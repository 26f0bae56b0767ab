------------------------------- MODULE Images -------------------------------
(***************************************************************************)
(* A bitmap is written to a file or a buffer in one of its formats, and    *)
(* what is found there later is opened and read.                           *)
(*                                                                         *)
(* The frozen formats are written through the mapping of a file            *)
(* (persistent_bitmap::store): the file is truncated, given its size,      *)
(* which fills it with zeros, and stored to in program order; the process  *)
(* may die between any two steps and the file keeps what was stored.  The  *)
(* other formats are written to memory in one step.  In between a file may *)
(* lose its tail, be part of a longer mapping, or - for the formats that   *)
(* are read value by value - have two values exchanged.                    *)
(***************************************************************************)
EXTENDS FrozenQueries, PortableStream

CONSTANTS
  Sources,  \* the bitmaps written: sequences of [key, kind, low], keys ascending
  Formats,  \* the formats they are written in
  Cuts      \* how much a file may lose or gain

ASSUME ImagesAssumption ==
  /\ Formats \subseteq {"replay", "frozen", "ranked", "portable32", "portable64", "foreign64"}
  /\ Cuts \subseteq Nat \ {0}

VARIABLES
  source, format,
  phase,  \* how far the writer and then the reader came
  fate,   \* what happened to the file before it was read
  file,   \* a frozen image, or the stream of another format
  cursor, \* frozen_serialize: payload_offset and base
  result  \* what was opened or read

vars == <<source, format, phase, fate, file, cursor, result>>

Frozen == format \in {"frozen", "ranked"}
Ranked == format = "ranked"
Wide == format \in {"portable64", "foreign64"}
Parts == IF format = "foreign64" THEN 2 ELSE 1

ValueCount(chunks) == FoldLeft(LAMBDA sum, c : sum + Cardinality(c.low), 0, chunks)
IdsOf(chunks) == UNION {{Id(chunks[i].key, v) : v \in chunks[i].low} : i \in DOMAIN chunks}

NoFile == [size |-> 0, mark |-> "none", chunk_count |-> 0, value_count |-> 0,
           index |-> <<>>, cells |-> NoCells]
NoResult == [ok |-> FALSE, end |-> 0]

Init ==
  /\ source \in Sources /\ format \in Formats
  /\ format = "portable32" => \A i \in DOMAIN source : source[i].key < BodyKeys
  /\ phase = "truncated" /\ fate = "whole" /\ file = NoFile
  /\ cursor = [offset |-> 0, base |-> 0]
  /\ result = NoResult

-----------------------------------------------------------------------------
(* Writing a frozen image (serialize_frozen_to_vm_vector). *)

Resize ==
  /\ Frozen /\ phase = "truncated"
  /\ file' = [file EXCEPT !.size = FrozenSize(source, Ranked)]
  /\ phase' = "sized"
  /\ UNCHANGED <<source, format, fate, cursor, result>>

\* magic, key_bits and version; the counts are the stores after them.
MarkHeader ==
  /\ phase = "sized"
  /\ file' = [file EXCEPT !.mark = format]
  /\ phase' = "marked"
  /\ UNCHANGED <<source, format, fate, cursor, result>>

CountHeader ==
  /\ phase = "marked"
  /\ file' = [file EXCEPT !.chunk_count = Len(source), !.value_count = ValueCount(source)]
  /\ cursor' = [cursor EXCEPT !.offset = FirstPayload(Len(source))]
  /\ phase' = "writing"
  /\ UNCHANGED <<source, format, fate, result>>

PayloadStart(c) == AlignUp(cursor.offset, Alignment(c.kind))

\* A payload is stored before the entry that makes it part of the image.
WritePayloadOf(c) ==
  /\ phase = "writing" /\ Len(file.index) < Len(source) /\ c = source[Len(file.index) + 1]
  /\ LET at == PayloadStart(c)
         ranks == IF Ranked THEN RankCells(at + PayloadSize(c.kind, PayloadCount(c)), c)
                  ELSE NoCells
     IN  file' = [file EXCEPT !.cells = @ @@ PayloadCells(at, c) @@ ranks]
  /\ phase' = "payload"
  /\ UNCHANGED <<source, format, fate, cursor, result>>

WriteEntryOf(c) ==
  /\ phase = "payload" /\ c = source[Len(file.index) + 1]
  /\ file' = [file EXCEPT !.index = Append(@, EntryOf(c, PayloadStart(c),
                                                     IF Ranked THEN cursor.base ELSE 0))]
  /\ cursor' = [offset |-> ChunkEnd(cursor.offset, c, Ranked),
                base |-> cursor.base + Cardinality(c.low)]
  /\ phase' = "writing"
  /\ UNCHANGED <<source, format, fate, result>>

\* The whole image is written.
Store ==
  /\ phase = "writing" /\ Len(file.index) = Len(source)
  /\ phase' = "stored"
  /\ UNCHANGED <<source, format, fate, file, cursor, result>>

\* The process dies while it stores.
Die ==
  /\ Frozen /\ phase \in {"truncated", "sized", "marked", "writing", "payload"}
  /\ phase' = "stored" /\ fate' = "died"
  /\ UNCHANGED <<source, format, file, cursor, result>>

-----------------------------------------------------------------------------
(* Writing the formats that are read value by value. *)

\* serialize_to_vm_vector: a header of 16 bytes and the values.
ReplayStream ==
  LET values == InOrder(IdsOf(source))
  IN  [size |-> 16 + 4 * Len(values),
       cells |-> (0 :> Len(values))
                   @@ [o \in {16 + 4 * (i - 1) : i \in DOMAIN values} |->
                         values[(o - 16) \div 4 + 1]]]

Portable == LET written == Written(source, Wide, Parts)
            IN  [size |-> written.end, cells |-> written.cells]

WriteStream ==
  /\ ~Frozen /\ phase = "truncated"
  /\ file' = IF format = "replay" THEN ReplayStream ELSE Portable
  /\ phase' = "stored"
  /\ UNCHANGED <<source, format, fate, cursor, result>>

-----------------------------------------------------------------------------
(* What may happen to a file before it is read. *)

Untouched == phase = "stored" /\ fate = "whole"

Cut(n) ==
  /\ Untouched /\ n <= file.size
  /\ file' = [file EXCEPT !.size = @ - n]
  /\ fate' = "cut"
  /\ UNCHANGED <<source, format, phase, cursor, result>>

\* A frozen image may be opened on a span that goes on behind it.
Embed(n) ==
  /\ Untouched /\ Frozen
  /\ file' = [file EXCEPT !.size = @ + n]
  /\ fate' = "embedded"
  /\ UNCHANGED <<source, format, phase, cursor, result>>

\* Two neighbouring values of an array of a portable stream change places.
Exchange(at) ==
  /\ Untouched /\ format = "portable32" /\ Len(source) = 1
  /\ WireKind(source[1]) = "array"
  /\ at \in {file.size - 2 * k : k \in 2 .. Cardinality(source[1].low)}
  /\ file' = [file EXCEPT !.cells[at] = file.cells[at + 2],
                          !.cells[at + 2] = file.cells[at]]
  /\ fate' = "exchanged"
  /\ UNCHANGED <<source, format, phase, cursor, result>>

-----------------------------------------------------------------------------
(* Reading. *)

\* frozen_view_from: a null view is how it refuses.
Open ==
  /\ Frozen /\ phase = "stored"
  /\ result' = FrozenView(file)
  /\ phase' = IF FrozenView(file).ok THEN "opened" ELSE "refused"
  /\ UNCHANGED <<source, format, fate, file, cursor>>

\* materialize, and borrow_into with the payloads left where they are.
Materialize ==
  /\ phase = "opened"
  /\ result' = Materialized(file)
  /\ phase' = "read"
  /\ UNCHANGED <<source, format, fate, file, cursor>>

\* deserialize_from_vm_vector: the values are added to an empty bitmap, which
\* is what the set of them stands for here.
Replay ==
  /\ format = "replay" /\ phase = "stored"
  /\ LET count == Field(file, 0)
         ok == file.size >= 16 /\ file.size = 16 + 4 * count
     IN  /\ result' = IF ok THEN [ids |-> {Field(file, 16 + 4 * i) : i \in 0 .. count - 1}]
                      ELSE NoResult
         /\ phase' = IF ok THEN "read" ELSE "refused"
  /\ UNCHANGED <<source, format, fate, file, cursor>>

ReadPortable ==
  /\ ~Frozen /\ format # "replay" /\ phase = "stored"
  /\ LET read == PortableRead(file, Wide)
     IN  /\ result' = [chunks |-> read.chunks, size |-> read.total]
         /\ phase' = IF read.ok THEN "read" ELSE "refused"
  /\ UNCHANGED <<source, format, fate, file, cursor>>

Next ==
  \/ Resize \/ MarkHeader \/ CountHeader
  \/ \E i \in DOMAIN source : WritePayloadOf(source[i]) \/ WriteEntryOf(source[i])
  \/ Store \/ Die
  \/ WriteStream
  \/ \E n \in Cuts : Cut(n) \/ Embed(n)
  \/ \E at \in DOMAIN file.cells : Exchange(at)
  \/ Open \/ Materialize \/ Replay \/ ReadPortable

Spec == Init /\ [][Next]_vars
-----------------------------------------------------------------------------
\* What the reader of an image may rely on.

Payload(e) == e.offset .. RankEnd(e, Ranked) - 1

\* The bodies of a portable stream: the chunks of each and its first byte.
Bodies ==
  IF ~Wide THEN <<source>>
  ELSE [j \in DOMAIN Highs(source) |-> Body(source, Highs(source)[j])]
BodyStart(j) ==
  IF ~Wide THEN 0
  ELSE FoldLeft(LAMBDA at, b : at + 4 + PlannedBody(b, Parts), 12, SubSeq(Bodies, 1, j - 1))

\* A reader that seeks a container by its offset finds its values there.
OffsetsLead ==
  \A j \in DOMAIN Bodies :
    LET h == Header(file, BodyStart(j))
        offset(k) == Field(file, h.descriptive + 4 * h.count + 4 * k)
    IN  HasOffsets(h.hasRun, h.count) =>
          \A k \in 0 .. h.count - 1 :
            ReadPayload(file, h, k, BodyStart(j) + offset(k)).low = Bodies[j][k + 1].low

\* An image lies where frozen_size_bytes and portable_size_in_bytes planned it:
\* it ends at the size announced before it was written (the caller's buffer has
\* no more), no payload or rank block of a frozen image meets another or the
\* index, every payload is aligned for its type, and every offset of a portable
\* stream leads from the start of its own body to its container - offsets that
\* this library writes for others and never reads.
WrittenAsPlanned ==
  phase = "stored" /\ fate = "whole" =>
    IF Frozen
    THEN /\ file.size = cursor.offset
         /\ \A i \in DOMAIN file.index :
              LET e == file.index[i]
              IN  /\ e.offset % Alignment(e.kind) = 0
                  /\ Payload(e) \subseteq FirstPayload(Len(source)) .. file.size - 1
                  /\ \A j \in 1 .. i - 1 : Payload(e) \cap Payload(file.index[j]) = {}
    ELSE format # "replay" =>
           file.size = PortableSize(source, Wide, Parts) /\ OffsetsLead

\* A frozen store that died between the marks of the header and its counts.
TakenForEmpty == Frozen /\ fate = "died" /\ file.chunk_count = 0

\* What is opened or read is what was written: a file that lost its tail, whose
\* store died before the last entry, or in which two values changed places is
\* refused, and one that is whole is not, whether or not it is followed by
\* other bytes.  One exception: TakenForEmpty.  A frozen view reports the
\* length of its image, not of the span.
AcceptedIsWhole ==
  /\ phase = "refused" => fate \notin {"whole", "embedded"}
  /\ phase \in {"opened", "read"} =>
       \/ fate \in {"whole", "embedded"}
       \/ fate = "died" /\ Len(file.index) = Len(source)
       \/ TakenForEmpty
  /\ phase = "opened" /\ ~TakenForEmpty => result.end = FrozenSize(source, Ranked)

Held == IF TakenForEmpty THEN <<>> ELSE source

\* The bitmap that is read back, by copying, by borrowing or from the stream,
\* holds the chunks that were written, with their kinds (those of the format
\* where it has its own) and with cardinalities that are true, and its size is
\* the number of its values.  A run container holds the fewest runs that have
\* its values, also where another writer had left runs split in the stream.
ReadBackIsSource ==
  phase = "read" =>
    IF format = "replay" THEN result.ids = IdsOf(source)
    ELSE /\ result.size = ValueCount(Held)
         /\ result.chunks =
              [i \in DOMAIN Held |->
                 [key |-> Held[i].key, low |-> Held[i].low,
                  kind |-> IF Frozen THEN Held[i].kind ELSE WireKind(Held[i]),
                  runs |-> IF Held[i].kind = "run" THEN RunsIn(Held[i]) ELSE <<>>,
                  cardinality |-> Cardinality(Held[i].low)]]

Ids == IdsOf(Held)

\* Queries on an open image answer for the set of ids it holds: membership,
\* the ids below one and its ordinal, the id of each ordinal (select undoes
\* index_of), and iteration from any id on - at the borders of chunks, words,
\* runs and search blocks, before the first id and after the last.
QueriesAgreeWithValues ==
  phase = "opened" =>
    \A id \in 0 .. Id(LastKey, LastLow) :
      LET below == {v \in Ids : v < id}
      IN  /\ ContainsId(file, id) <=> id \in Ids
          /\ ForEachFrom(file, id) = InOrder(Ids \ below)
          /\ Ranked => Find(file, id) = [below |-> Cardinality(below), present |-> id \in Ids]
          /\ Ranked /\ id \in Ids => Select(file, Cardinality(below)) = id
=============================================================================
