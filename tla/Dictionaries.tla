----------------------------- MODULE Dictionaries -----------------------------
(***************************************************************************)
(* The hotword dictionaries: the endpoints of internal/api/native/         *)
(* dictionary.go over internal/store/sqlite/dictionary.go, with the rules  *)
(* and the file format of internal/hotwords.  A write is one transaction;  *)
(* an import reads the dictionary first, with two queries, and so does a   *)
(* request that is about to apply it.                                      *)
(***************************************************************************)
EXTENDS Naturals, Sequences, FiniteSets, SequencesExt

CONSTANTS
    Editor,         \* administrators
    DictKey,        \* keys
    MaxPhrases,     \* the policy
    Clock           \* bound: the last instant

(* A phrase is one of four: plain, with a comma in it, spelt like a column *)
(* header, and beginning with the comment sign.                            *)
Phrase == {"plain", "left,right", "words", "#tag"}
Blank == ""
Fragments(p) == IF p = "left,right" THEN <<"left", "right">> ELSE <<p>>
Hash(p) == p = "#tag"
Header(p) == p = "words"

NoDict == [there |-> FALSE]

VARIABLES
    dicts,      \* key -> dictionary or NoDict
    dclock,     \* now
    editing,    \* editor -> the import under way
    creators,   \* history: key -> clients told that they created what is there
    kept        \* history: no append lost a phrase it had read while nobody wrote

dictvars == <<dicts, dclock, editing, creators, kept>>

DictInit ==
    /\ dicts = [k \in DictKey |-> NoDict] /\ dclock = 0
    /\ editing = [e \in Editor |-> [stage |-> "idle"]]
    /\ creators = [k \in DictKey |-> 0] /\ kept = TRUE

-----------------------------------------------------------------------------
(* Clean: cleanPhrases, in the order they came; too many are refused.      *)
Cleaned(ps) ==
    LET out[i \in 0..Len(ps)] ==
            IF i = 0 THEN <<>>
            ELSE IF ps[i] = Blank \/ Contains(out[i - 1], ps[i]) THEN out[i - 1] ELSE Append(out[i - 1], ps[i])
    IN out[Len(ps)]
Permitted(ps) == Len(Cleaned(ps)) <= MaxPhrases

(* Parse of a text file: a line is <<a phrase>>, an empty one Blank.       *)
NonBlank(lines) == Cardinality({i \in DOMAIN lines : lines[i] # Blank})

(* A spreadsheet's column name counts on the very first line only, and no  *)
(* phrase has one for a fragment.                                          *)
PhrasesOn(lines, i) ==
    IF Hash(lines[i]) \/ lines[i] = Blank \/ (i = 1 /\ Header(lines[i])) THEN <<>>
    ELSE IF NonBlank(lines) = 1 THEN Fragments(lines[i]) ELSE <<lines[i]>>

Parse(lines) ==
    LET phrases[i \in 0..Len(lines)] == IF i = 0 THEN <<>> ELSE phrases[i - 1] \o PhrasesOn(lines, i)
    IN phrases[Len(lines)]

(* Mutant: the export begins with the phrases.                             *)
TextBare(d) == d.phrases

(* Text: the key and the name are comments; a name that runs over two      *)
(* lines is a comment and a phrase.                                        *)
Text(d) ==
    <<"#tag">> \o (CASE d.name = "key" -> <<>>
                     [] d.name = "name" -> <<"#tag">>
                     [] d.name = "two lines" -> <<"#tag", "plain">>) \o d.phrases

-----------------------------------------------------------------------------
(* Mutant: a replacement is a new dictionary.                              *)
WriteAnew(k, name, ps) ==
    dicts' = [dicts EXCEPT ![k] = [there |-> TRUE, name |-> name, phrases |-> ps, created |-> dclock]]

(* write: a transaction that takes the write lock as it begins.  created_at  *)
(* survives.                                                               *)
Write(k, name, ps) ==
    dicts' = [dicts EXCEPT ![k] = [there |-> TRUE, name |-> name, phrases |-> ps,
                                   created |-> IF dicts[k].there THEN dicts[k].created ELSE dclock]]

Wrote(k) == editing' = [e \in Editor |-> IF editing[e].stage # "idle" /\ editing[e].key = k
                                         THEN [editing[e] EXCEPT !.alone = FALSE] ELSE editing[e]]

(* Mutant: Save after a look that found nothing.                           *)
PostOver(k, name, ps) ==
    /\ Permitted(ps) /\ Write(k, name, Cleaned(ps)) /\ Wrote(k)
    /\ creators' = [creators EXCEPT ![k] = @ + 1]
    /\ UNCHANGED <<dclock, kept>>

(* POST: Create, which refuses a key that is taken.                        *)
PostDictionary(k, name, ps) ==
    /\ Permitted(ps) /\ ~dicts[k].there /\ Write(k, name, Cleaned(ps)) /\ Wrote(k)
    /\ creators' = [creators EXCEPT ![k] = @ + 1]
    /\ UNCHANGED <<dclock, kept>>

(* PUT: Save.                                                              *)
PutDictionary(k, name, ps) ==
    /\ Permitted(ps) /\ Write(k, name, Cleaned(ps)) /\ Wrote(k)
    /\ UNCHANGED <<dclock, creators, kept>>

(* DELETE, and the phrases with it.                                        *)
DeleteDictionary(k) ==
    /\ dicts[k].there /\ dicts' = [dicts EXCEPT ![k] = NoDict] /\ Wrote(k)
    /\ creators' = [creators EXCEPT ![k] = 0]
    /\ UNCHANGED <<dclock, kept>>

(* POST .../import: the file is parsed and the dictionary read, first its  *)
(* row and then its phrases, each as they are then; one that is not there  *)
(* is made.                                                                *)
ImportReads(e, k, lines, mode) ==
    /\ editing[e].stage = "idle" /\ Parse(lines) # <<>>
    /\ editing' = [editing EXCEPT ![e] = [stage |-> IF dicts[k].there THEN "row" ELSE "read", key |-> k, mode |-> mode,
                      file |-> Parse(lines), name |-> IF dicts[k].there THEN dicts[k].name ELSE "key",
                      found |-> <<>>, alone |-> TRUE]]
    /\ UNCHANGED <<dicts, dclock, creators, kept>>

ImportReadsPhrases(e) ==
    /\ editing[e].stage = "row"
    /\ editing' = [editing EXCEPT ![e].stage = "read",
                      ![e].found = IF dicts[editing[e].key].there THEN dicts[editing[e].key].phrases ELSE <<>>]
    /\ UNCHANGED <<dicts, dclock, creators, kept>>

(* Mutant: the file's phrases in front.                                    *)
Prepended(r) == IF r.mode = "append" THEN r.file \o r.found ELSE r.file

Imported(r) == IF r.mode = "append" THEN r.found \o r.file ELSE r.file

(* "for what the file did not say, the dictionary keeps"; refused if there *)
(* are too many.                                                           *)
ImportSaves(e) ==
    LET r == editing[e] IN
    /\ r.stage = "read"
    /\ IF Permitted(Imported(r))
       THEN /\ Write(r.key, r.name, Cleaned(Imported(r)))
            /\ editing' = [f \in Editor |-> IF f = e THEN [stage |-> "idle"]
                             ELSE IF editing[f].stage # "idle" /\ editing[f].key = r.key
                                  THEN [editing[f] EXCEPT !.alone = FALSE] ELSE editing[f]]
            /\ kept' = (kept /\ (r.mode = "append" /\ r.alone /\ dicts[r.key].there
                                   => IsPrefix(dicts[r.key].phrases, Cleaned(Imported(r)))))
       ELSE editing' = [editing EXCEPT ![e] = [stage |-> "idle"]] /\ UNCHANGED <<dicts, kept>>
    /\ UNCHANGED <<dclock, creators>>

DictTick == dclock < Clock /\ dclock' = dclock + 1 /\ UNCHANGED <<dicts, editing, creators, kept>>

Lists == {<<"plain">>, <<"left,right">>, <<"words", "plain", "words">>, <<"plain", "left,right", "#tag">>}
Files == {<<"words", "plain", Blank>>, <<"left,right">>, <<"#tag", Blank, "left,right", "plain">>}

DictNext ==
    \/ \E k \in DictKey, ps \in Lists, name \in {"key", "name", "two lines"} :
          PostDictionary(k, name, ps) \/ PutDictionary(k, name, ps)
    \/ \E k \in DictKey : DeleteDictionary(k)
    \/ \E e \in Editor :
          \/ \E k \in DictKey, lines \in Files, mode \in {"append", "replace"} : ImportReads(e, k, lines, mode)
          \/ ImportReadsPhrases(e) \/ ImportSaves(e)
    \/ DictTick

DictSpec == DictInit /\ [][DictNext]_dictvars

-----------------------------------------------------------------------------
(* Properties.                                                             *)

(* "two clients racing on the same key cannot both believe they created    *)
(* it" (sqlite/dictionary.go:187).                                         *)
CreatedByOne == \A k \in DictKey : creators[k] <= 1

(* "an export has to import back as what it was" (hotwords.go:214), for    *)
(* every dictionary the endpoints can leave behind but one with a phrase   *)
(* that begins with the comment sign or a name of two lines.               *)
ExportsComeBack ==
    \A k \in DictKey :
        (dicts[k].there /\ dicts[k].name # "two lines" /\ \A i \in DOMAIN dicts[k].phrases : ~Hash(dicts[k].phrases[i]))
            => Cleaned(Parse(Text(dicts[k]))) = dicts[k].phrases

(* An import in append mode keeps every phrase, in the order its author    *)
(* wrote, unless somebody else writes between its read and its write.      *)
AppendsKeep == kept

(* "CreatedAt survives a replacement" (sqlite/dictionary.go:180), whoever  *)
(* replaces and however a deletion comes between.                          *)
AgeSurvives ==
    [][\A k \in DictKey : dicts[k].there /\ dicts'[k].there => dicts'[k].created = dicts[k].created]_dicts
=============================================================================
