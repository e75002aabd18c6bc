------------------------------ MODULE SpokenNumbers ---------------------------
(***************************************************************************)
(* The Russian rules of inverse text normalisation (internal/postproc/itn):*)
(* Rewrite tries them at each word in turn.                                *)
(***************************************************************************)
EXTENDS Naturals, Sequences, FiniteSets, FiniteSetsExt, SequencesExt

CONSTANTS
    SpokenRuns,     \* sequences of words: [kind, value, gap, mark]
    Values,         \* the numbers that are tried
    MinPhone        \* the digits of a phone number, ten

(* A word: what it says, what it is worth, and what is around it.          *)
SpokenWord == [kind : STRING, value : Nat, gap : BOOLEAN, mark : BOOLEAN]

ASSUME SpokenAssumption == /\ SpokenRuns \subseteq Seq(SpokenWord) /\ \A v \in Values : v \in Nat /\ v < 1000000
                           /\ MinPhone \in Nat /\ MinPhone > 1

VARIABLES
    said,           \* the words that were recognised
    written         \* what became of them: [at, count, form, value]

itnvars == <<said, written>>

NoMatch == [count |-> 0, form |-> "none", value |-> 0]

-----------------------------------------------------------------------------
(* Numbers.  A word is a "hundred", "ten", "unit" (nought to nineteen),    *)
(* "scale", or names what is counted; gap: a pause longer than MaxGap      *)
(* comes before it; mark: punctuation is attached to it.                   *)
JoinsNext(ws, i) == ~ws[i + 1].gap

(* Mutant: a scale alone is none of it.                                    *)
ExtendPlain(n, w) ==
    IF w.kind = "scale" THEN [n EXCEPT !.total = @ + n.group * w.value, !.group = 0, !.saw = FALSE]
    ELSE [n EXCEPT !.group = @ + w.value, !.saw = TRUE]

(* A scale closes its group; a scale alone is one of it.                   *)
Extend(n, w) ==
    CASE w.kind \in {"hundred", "ten"} -> [n EXCEPT !.group = @ + w.value, !.saw = TRUE]
      [] w.kind = "unit"  -> [n EXCEPT !.group = @ + w.value, !.saw = TRUE]
      [] w.kind = "scale" -> [n EXCEPT !.total = @ + (IF n.group = 0 THEN 1 ELSE n.group) * w.value,
                                       !.group = 0, !.saw = FALSE]

IsNumeral(w) == w.kind \in {"hundred", "ten", "unit", "scale"}

(* A unit after a unit is two numbers; a mark or a pause ends the run.     *)
ParseStep(n, ws, i) ==
    IF n.over \/ (i > 1 /\ ws[i].gap) \/ ~IsNumeral(ws[i]) THEN [n EXCEPT !.over = TRUE]
    ELSE IF ws[i].kind = "unit" /\ n.saw /\ n.group % 10 # 0 THEN [n EXCEPT !.over = TRUE, !.refused = TRUE]
    ELSE [Extend(n, ws[i]) EXCEPT !.count = i, !.over = ws[i].mark]

ParseNumber(ws) ==
    LET n[i \in 0..Len(ws)] ==
            IF i = 0 THEN [total |-> 0, group |-> 0, saw |-> FALSE, count |-> 0, over |-> FALSE, refused |-> FALSE]
            ELSE ParseStep(n[i - 1], ws, i)
        last == n[Len(ws)]
    IN  [ok |-> last.count > 0 /\ ~last.refused, value |-> last.total + last.group, count |-> last.count]

-----------------------------------------------------------------------------
(* The rules, in the order of their precedence: each says how many words   *)
(* it takes from the front of ws.                                          *)

(* What is counted follows the number without a pause.                     *)
Counted(ws, kind, form) ==
    LET n == ParseNumber(ws) IN
    IF n.ok /\ n.count < Len(ws) /\ JoinsNext(ws, n.count) /\ ws[n.count + 1].kind = kind
    THEN [count |-> n.count + 1, form |-> form, value |-> n.value] ELSE NoMatch

(* matchPhone: digit by digit, with or without a plus.                     *)
MatchPhone(ws) ==
    LET from == IF ws[1].kind = "plus" THEN 2 ELSE 1
        Digits(k) == \A i \in from..k : /\ ws[i].kind = "unit" /\ ws[i].value <= 9
                                        /\ i > 1 => JoinsNext(ws, i - 1)
        last == Max({from - 1} \cup {k \in from..Len(ws) : Digits(k)})
    IN  IF last - from + 1 >= MinPhone THEN [count |-> last, form |-> "phone", value |-> last - from + 1] ELSE NoMatch

(* Mutant: a pause before the minutes goes unnoticed.                      *)
MatchTimeOver(ws) ==
    LET h == Counted(ws, "hour", "time")
        m == Counted(SubSeq(ws, h.count + 1, Len(ws)), "minute", "time")
    IN  IF h.count > 0 /\ h.value <= 23 /\ h.count < Len(ws) /\ m.count > 0 /\ m.value <= 59
        THEN [count |-> h.count + m.count, form |-> "time", value |-> 100 * h.value + m.value] ELSE NoMatch

(* matchTime: hours alone are left as they are.                            *)
MatchTime(ws) ==
    LET h == Counted(ws, "hour", "time")
        m == Counted(SubSeq(ws, h.count + 1, Len(ws)), "minute", "time")
    IN  IF /\ h.count > 0 /\ h.value <= 23 /\ h.count < Len(ws)
           /\ JoinsNext(ws, h.count) /\ m.count > 0 /\ m.value <= 59
        THEN [count |-> h.count + m.count, form |-> "time", value |-> 100 * h.value + m.value] ELSE NoMatch

(* parseDay: the twenty-fifth, or an ordinal alone.                        *)
ParseDay(ws) ==
    IF ws[1].kind = "ten" /\ ws[1].value \in {20, 30} /\ Len(ws) > 1 /\ JoinsNext(ws, 1)
       /\ ws[2].kind = "ordinal" /\ ws[2].value <= 9
    THEN [count |-> 2, value |-> ws[1].value + ws[2].value]
    ELSE IF ws[1].kind = "ordinal" THEN [count |-> 1, value |-> ws[1].value] ELSE [count |-> 0, value |-> 0]

MatchDate(ws) ==
    LET d == ParseDay(ws) IN
    IF d.count > 0 /\ d.count < Len(ws) /\ JoinsNext(ws, d.count) /\ ws[d.count + 1].kind = "month"
    THEN [count |-> d.count + 1, form |-> "date", value |-> d.value] ELSE NoMatch

(* matchPlainNumber: "Single small numbers are left alone".                *)
MatchPlain(ws) ==
    LET n == ParseNumber(ws) IN
    IF n.ok /\ ~(n.count = 1 /\ n.value < 10) THEN [count |-> n.count, form |-> "number", value |-> n.value] ELSE NoMatch

Match(ws) ==
    LET rules == <<MatchPhone(ws), MatchTime(ws), MatchDate(ws), Counted(ws, "money", "money"),
                   Counted(ws, "percent", "percent"), MatchPlain(ws)>>
        hits  == {i \in DOMAIN rules : rules[i].count > 0}
    IN  IF hits = {} THEN NoMatch ELSE rules[Min(hits)]

Done == IF written = <<>> THEN 0 ELSE Last(written).at + Last(written).count - 1

(* Rewrite, one word of the result at a time.                              *)
Rewrites ==
    /\ Done < Len(said)
    /\ \E m \in {Match(SubSeq(said, Done + 1, Len(said)))} :
       written' = Append(written, [at |-> Done + 1, count |-> Max({1, m.count}), form |-> m.form, value |-> m.value])
    /\ UNCHANGED said

ItnInit == said \in SpokenRuns /\ written = <<>>

ItnNext == Rewrites

ItnSpec == ItnInit /\ [][ItnNext]_itnvars

-----------------------------------------------------------------------------
(* Properties.                                                             *)

(* How a number below a million is said, from its digits: the reference.   *)
Group(n) ==
    (IF n \div 100 > 0 THEN <<[kind |-> "hundred", value |-> 100 * (n \div 100)]>> ELSE <<>>)
    \o (IF n % 100 >= 20 THEN <<[kind |-> "ten", value |-> 10 * ((n % 100) \div 10)]>> ELSE <<>>)
    \o LET u == IF n % 100 >= 20 THEN n % 10 ELSE n % 100 IN IF u > 0 THEN <<[kind |-> "unit", value |-> u]>> ELSE <<>>
Thousands(n) ==
    IF n < 1000 THEN <<>>
    ELSE (IF n \div 1000 = 1 THEN <<>> ELSE Group(n \div 1000)) \o <<[kind |-> "scale", value |-> 1000]>>
SaidAs(n) == IF n = 0 THEN <<[kind |-> "unit", value |-> 0]>> ELSE Thousands(n) \o Group(n % 1000)

AsSaid(ws) == [i \in DOMAIN ws |-> [kind |-> ws[i].kind, value |-> ws[i].value]]

(* A number that is said as numbers are said is read as that number, with  *)
(* what it counts ("(2 x 1000) + 20 + 5", ru_numbers.go:73); below ten it  *)
(* is left alone unless something is counted.                              *)
NumbersAreRead ==
    written # <<>> => \A n \in Values : \A unit \in {<<>>, <<[kind |-> "money", value |-> 0]>>} :
        /\ AsSaid(said) = SaidAs(n) \o unit
        /\ \A i \in DOMAIN said : ~said[i].gap /\ ~said[i].mark
        /\ n >= 10 \/ unit # <<>>
        => written = <<[at |-> 1, count |-> Len(said), value |-> n,
                       form |-> IF unit = <<>> THEN "number" ELSE "money"]>>

(* "A number is spoken without stopping in the middle" (itn.go:22): no     *)
(* rewrite reaches over a pause, and every word goes into exactly one.     *)
NoPauseInside ==
    /\ \A i \in DOMAIN written : \A k \in (written[i].at + 1)..(written[i].at + written[i].count - 1) : ~said[k].gap
    /\ Done <= Len(said)
=============================================================================
