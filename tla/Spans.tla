--------------------------------- MODULE Spans ---------------------------------
(***************************************************************************)
(* Stretches of a recording (tse/tse.go): how they are joined, cut and     *)
(* measured.  A list of them is a set where the code does not order it, a  *)
(* sequence where it does; time is counted in ticks.                       *)
(***************************************************************************)
EXTENDS Integers, Sequences, SequencesExt, FiniteSetsExt

Larger(a, b)  == IF a > b THEN a ELSE b
Smaller(a, b) == IF a < b THEN a ELSE b
Span(a, b) == [start |-> a, end |-> b]
Dur(s) == s.end - s.start

(* merge: "sorts spans and joins the ones that touch".                     *)
Merged(spans) ==
    FoldLeft(LAMBDA out, x :
                IF out # <<>> /\ x.start <= Last(out).end
                THEN [out EXCEPT ![Len(out)].end = Larger(@, x.end)]
                ELSE Append(out, x),
             <<>>, SetToSortSeq({s \in spans : s.end > s.start}, LAMBDA s, t : s.start < t.start))

(* clip.                                                                   *)
Clipped(spans, dur) == {Span(Larger(0, s.start), Smaller(dur, s.end)) : s \in spans}

(* subtract, for one span of a; b is merged.                               *)
Cut(s, b) ==
    LET last == FoldLeft(LAMBDA at, x :
                    [cur |-> Larger(at.cur, x.end),
                     out |-> IF x.start > at.cur THEN Append(at.out, Span(at.cur, x.start)) ELSE at.out],
                    [cur |-> s.start, out |-> <<>>],
                    SelectSeq(b, LAMBDA x : x.end > s.start /\ x.start < s.end))
    IN IF last.cur < s.end THEN Append(last.out, Span(last.cur, s.end)) ELSE last.out

Subtract(a, b) == FlattenSeq([i \in 1..Len(a) |-> Cut(a[i], b)])

(* coverage: how much of w the merged spans cover.                         *)
Coverage(spans, w) ==
    FoldLeft(LAMBDA c, s : c + Larger(0, Smaller(s.end, w.end) - Larger(s.start, w.start)), 0, spans)
=============================================================================
