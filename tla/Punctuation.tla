----------------------------- MODULE Punctuation ------------------------------
(***************************************************************************)
(* The punctuator (internal/postproc/punct.go), which puts a model's marks *)
(* back on the words the model was asked about.                            *)
(***************************************************************************)
EXTENDS Naturals, Sequences, FiniteSets, FiniteSetsExt, SequencesExt

CONSTANTS
    Phrases,        \* sequences of words: a word is a sequence of letters and marks
    Markings         \* what the model may say: sequences of letters, capitals, marks and spaces

(* A letter, or what is neither letter nor space, or a space.              *)
Char == [kind : {"letter"}, name : STRING, cap : BOOLEAN] \cup [kind : {"mark", "space"}]

ASSUME PunctAssumption == Phrases \subseteq Seq(Seq(Char)) /\ Markings \subseteq Seq(Char)

VARIABLES
    phrase,         \* a chunk of the transcript
    punctuated      \* <<>>, or the one answer

punctvars == <<phrase, punctuated>>

-----------------------------------------------------------------------------
(* The punctuator: letters by name, capitals of them in "cap".             *)
IsLetter(c) == c.kind = "letter"
Small(c) == [c EXCEPT !.cap = FALSE]
IsMark(c) == c.kind = "mark"

(* What is of some kinds in w, in its order, and w without its capitals.   *)
Only(w, kinds) ==
    LET got[i \in 0..Len(w)] == IF i = 0 THEN <<>> ELSE IF w[i].kind \in kinds THEN Append(got[i - 1], w[i]) ELSE got[i - 1]
    IN  got[Len(w)]
Lower(w) == [k \in DOMAIN w |-> Small(w[k])]

(* Mutant: letters in between are passed over.                             *)
WantLetterSomewhere(r, src, want) ==
    LET here == {k \in r.pos..Len(src) : IsLetter(src[k]) /\ Small(src[k]) = want} IN
    IF r.ok /\ here # {}
    THEN [r EXCEPT !.pos = Min(here) + 1, !.word = @ \o Only(SubSeq(src, r.pos, Min(here)), {"letter", "mark"})]
    ELSE [r EXCEPT !.ok = FALSE]

(* One letter that is wanted: spaces are passed over, marks taken along,   *)
(* and another letter means that the two have diverged.                    *)
WantLetter(r, src, want) ==
    LET here == {k \in r.pos..Len(src) : IsLetter(src[k])} IN
    IF r.ok /\ here # {} /\ Small(src[Min(here)]) = want
    THEN [r EXCEPT !.pos = Min(here) + 1, !.word = @ \o Only(SubSeq(src, r.pos, Min(here)), {"letter", "mark"})]
    ELSE [r EXCEPT !.ok = FALSE]

(* Trailing marks belong to this word.                                     *)
Trailing(src, pos) == Max({0} \cup {k \in 1..(Len(src) - pos + 1) : \A i \in pos..(pos + k - 1) : IsMark(src[i])})

ReattachWord(r, src, word) ==
    LET want == Lower(Only(word, {"letter"}))
        got[i \in 0..Len(want)] == IF i = 0 THEN [r EXCEPT !.word = <<>>] ELSE WantLetter(got[i - 1], src, want[i])
        end == got[Len(want)]
        tail == IF end.ok THEN Trailing(src, end.pos) ELSE 0
    IN  IF ~end.ok \/ end.word = <<>> THEN [end EXCEPT !.ok = FALSE]
        ELSE [end EXCEPT !.pos = @ + tail,
                         !.out = Append(@, end.word \o SubSeq(src, end.pos, end.pos + tail - 1))]

Reattach(in, src) ==
    LET r[i \in 0..Len(in)] == IF i = 0 THEN [ok |-> TRUE, pos |-> 1, word |-> <<>>, out |-> <<>>]
                               ELSE ReattachWord(r[i - 1], src, in[i])
    IN  r[Len(in)]

(* Apply: a chunk that does not line up keeps its own words.               *)
Punctuates(answer) ==
    /\ punctuated = <<>>
    /\ punctuated' = <<IF Reattach(phrase, answer).ok THEN Reattach(phrase, answer).out ELSE phrase>>
    /\ UNCHANGED phrase

PunctInit == phrase \in Phrases /\ punctuated = <<>>

PunctNext == \E answer \in Markings : Punctuates(answer)

PunctSpec == PunctInit /\ [][PunctNext]_punctvars

-----------------------------------------------------------------------------
(* Properties.                                                             *)

(* "a mis-attached transcript looks correct and is not" (punct.go:95):     *)
(* whatever the model answers, every word has the letters it had.          *)
LettersStay ==
    punctuated # <<>> =>
        /\ Len(punctuated[1]) = Len(phrase)
        /\ \A i \in DOMAIN phrase : Lower(Only(punctuated[1][i], {"letter"})) = Lower(Only(phrase[i], {"letter"}))
=============================================================================
