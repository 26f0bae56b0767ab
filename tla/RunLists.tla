------------------------------ MODULE RunLists ------------------------------
(***************************************************************************)
(* Lists of runs over the low values of one chunk: what a list stands for, *)
(* when it is in the form a run container keeps, and the ways containers.hpp*)
(* and run_ops.hpp append a run to one.  A run is closed: [begin, end].    *)
(***************************************************************************)
EXTENDS Integers, SequencesExt, FiniteSetsExt

CONSTANT LastLow   \* the largest low value, Layout::low_domain_size - 1

ASSUME LastLowAssumption == LastLow \in Nat /\ LastLow % 2 = 1

Low == 0 .. LastLow
Run == [begin : Low, end : Low]

\* static_cast<low_type>: low_type is just wide enough for the domain.
AsLow(n) == n % (LastLow + 1)

RunOf(begin, end) == [begin |-> begin, end |-> end]

RunValues(rs) == UNION {rs[i].begin .. rs[i].end : i \in DOMAIN rs}

\* In ascending order, with a gap of at least one value between two runs.
Maximal(rs) ==
  \A i \in DOMAIN rs : /\ rs[i].begin <= rs[i].end
                       /\ i > 1 => rs[i - 1].end + 1 < rs[i].begin

Ascending(S) ==
  [n \in 1 .. Cardinality(S) |-> CHOOSE r \in S : Cardinality({s \in S : s.begin < r.begin}) = n - 1]

\* The two ways a set is stored: its maximal runs, and its values one by one.
RunsOf(S) ==
  Ascending({RunOf(b, Min({e \in S : e >= b /\ e + 1 \notin S})) :
               b \in {v \in S : v - 1 \notin S}})

ValuesOf(S) == Ascending({RunOf(v, v) : v \in S})

\* The lengths of the runs added up (sync_header).
TotalLength(rs) ==
  FoldLeft(LAMBDA sum, r : sum + r.end - r.begin + 1, 0, rs)

\* A slip: an upper bound where the lower one is meant.
ReachingPast(rs, from, limit) ==
  Min({i \in from .. Len(rs) : rs[i].end > limit} \cup {Len(rs) + 1})

\* The first index from `from` on whose run ends at or beyond `limit`.
Reaching(rs, from, limit) ==
  Min({i \in from .. Len(rs) : rs[i].end >= limit} \cup {Len(rs) + 1})

-----------------------------------------------------------------------------
\* Whether a run starts beyond the last one and does not touch it.
Separated(rs, r) == rs = <<>> \/ r.begin > Last(rs).end + 1

\* The run joined to a list it may overlap (append_run of the unions).
Joined(rs, r) ==
  IF Separated(rs, r) THEN Append(rs, r)
  ELSE Append(Front(rs), [Last(rs) EXCEPT !.end = Max({@, r.end})])

\* How many values that adds.
JoinGain(rs, r) ==
  IF Separated(rs, r) THEN r.end - r.begin + 1
                      ELSE Max({0, r.end - Last(rs).end})

\* What two runs that begin together, or are cut to, leave past the shorter.
PastShorter(r, s) ==
  IF r.end = s.end THEN <<>>
  ELSE <<RunOf(AsLow(Min({r.end, s.end}) + 1), Max({r.end, s.end}))>>

\* The run exclusive-or-ed into a list whose last run does not begin after it
\* (append_run_exclusive).
ExclusiveJoined(rs, r) ==
  IF Separated(rs, r) THEN Append(rs, r)
  ELSE LET last == Last(rs) IN
    Front(rs) \o
      IF last.end + 1 = r.begin THEN <<RunOf(last.begin, r.end)>>
      ELSE (IF r.begin = last.begin THEN <<>>
            ELSE <<RunOf(last.begin, AsLow(r.begin - 1))>>)
           \o PastShorter(last, r)
=============================================================================
