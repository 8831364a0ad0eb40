---------------------------- MODULE IntervalSet ----------------------------
(***************************************************************************)
(* noleax::trace::IntervalSet, the ordered map of half-open intervals the  *)
(* Linux writer and the analyzer share.  The map is the sequence of its    *)
(* fragments in key order; a fragment is a record with begin, end and      *)
(* whatever value fields its user gives it.  Fragments are never merged.   *)
(***************************************************************************)
EXTENDS Naturals, Sequences, SequencesExt, FiniteSetsExt

\* std::map::upper_bound: the first fragment that begins after point.
UpperBound(s, point) == Cardinality({i \in DOMAIN s : s[i].begin <= point}) + 1

\* range_start(): back up one step when the preceding fragment reaches into
\* the range.
RangeStart(s, begin) ==
    LET u == UpperBound(s, begin) IN
        IF u > 1 /\ s[u - 1].end > begin THEN u - 1 ELSE u

\* The last fragment the loops of intersections() and subtract() visit.
RangeStop(s, end) == Cardinality({i \in DOMAIN s : s[i].begin < end})

\* candidate() and find(): the fragments (none or one) that contain point.
Find(s, point) ==
    LET u == UpperBound(s, point) IN
        IF u > 1 /\ s[u - 1].end > point THEN {s[u - 1]} ELSE {}

ClipTo(f, begin, end) ==
    [f EXCEPT !.begin = IF @ < begin THEN begin ELSE @,
              !.end = IF @ < end THEN @ ELSE end]

\* intersections(): every overlap with [begin, end), clipped, in address order.
Intersections(s, begin, end) ==
    IF begin >= end THEN <<>>
    ELSE LET clipped == [i \in 1 .. RangeStop(s, end) |-> ClipTo(s[i], begin, end)]
         IN  SelectSeq(SubSeq(clipped, RangeStart(s, begin), RangeStop(s, end)),
                       LAMBDA f : f.begin < f.end)

\* What one round of the loop of subtract() leaves of a fragment: the prefix
\* (suffix removal), the suffix (prefix removal), both (middle split) or nothing.
Remaining(f, begin, end) ==
    (IF f.begin < begin THEN <<[f EXCEPT !.end = begin]>> ELSE <<>>)
    \o (IF f.end > end THEN <<[f EXCEPT !.begin = end]>> ELSE <<>>)

\* subtract(), as its effect on the map (the removed pieces it returns are
\* Intersections of the map before).
Subtract(s, begin, end) ==
    IF begin >= end THEN s
    ELSE LET first == RangeStart(s, begin)
             last  == RangeStop(s, end)
             left  == [i \in 1 .. last |-> Remaining(s[i], begin, end)]
         IN  SubSeq(s, 1, first - 1)
             \o FlattenSeq(SubSeq(left, first, last))
             \o SubSeq(s, last + 1, Len(s))

\* insert(): evict every overlap, then store the new fragment at its key.
Insert(s, fragment) ==
    IF fragment.begin >= fragment.end THEN s
    ELSE LET rest == Subtract(s, fragment.begin, fragment.end) IN
         InsertAt(rest, UpperBound(rest, fragment.begin), fragment)

\* total_bytes().
TotalBytes(s) == FoldLeft(LAMBDA n, f : n + (f.end - f.begin), 0, s)

\* The representation invariant: sorted, disjoint, no empty fragment.
WellFormed(s) ==
    \A i \in DOMAIN s : /\ s[i].begin < s[i].end
                        /\ i > 1 => s[i - 1].end <= s[i].begin
============================================================================
