---------------------------- MODULE RequestOptions ----------------------------
(***************************************************************************)
(* How a request's decoding options become a recogniser: acquire,          *)
(* withStandingDictionaries, applyDictionaries and buildVariant of         *)
(* internal/pipeline/variant.go, with the rules of internal/asr/hotwords.go*)
(* and Pipeline.resolveModel.  Every answer that is not the model as asked *)
(* for has to be explained, and nothing may reach sherpa-onnx on which it  *)
(* ends the process.                                                       *)
(***************************************************************************)
EXTENDS Naturals, FiniteSets

CONSTANTS Requests, Servers     \* those tried, subsets of Request and Server

Greedy == "greedy_search"
Beam == "modified_beam_search"

(* A model: what its manifest says.                                        *)
Model == [family : {"transducer", "streaming_transducer", "ctc"}, unit : {"bpe", "cjkchar", "char"},
          vocab : BOOLEAN, method : {"", Beam}]

(* What a request says: words inline (usual ones, only blanks, or one with *)
(* a line break), a dictionary by key, which may be the standing one, a    *)
(* decoding method and a beam width.                                       *)
Request == [words : {"none", "some", "blank", "broken"}, dict : {"none", "there", "missing", "standing"},
            method : {"", Greedy, Beam, "other"}, paths : BOOLEAN, strict : BOOLEAN, model : Model]

(* The server: its switch (load.go:308 refuses standing dictionaries       *)
(* without it), its standing dictionary, its store, whose reads may fail,  *)
(* and what the pool answers to one more instance: it loads, is refused    *)
(* for the budget or fails.                                                *)
Server == {s \in [enabled : BOOLEAN, standing : {"none", "there", "missing"}, store : {"none", "works", "fails"},
                  budget : {"room", "refused", "broken"}] : s.standing = "none" \/ s.enabled}

VARIABLES
    req,        \* the request
    srv,        \* the server
    asked,      \* stage: "resolved", "listed", "built" or "answered"
    phrases,    \* what words the request has now: "none", "blank", "broken" or "some"
    variant,    \* method, paths and hotwords of the recogniser asked for
    warned,     \* the codes of the warnings
    lease       \* "none", "base", "variant" or "refused"

ASSUME RequestsAssumption == Requests \subseteq Request /\ Servers \subseteq Server

optvars == <<req, srv, asked, phrases, variant, warned, lease>>

Plain == [method |-> "", paths |-> FALSE, hotwords |-> FALSE]

OptInit ==
    /\ req \in Requests /\ srv \in Servers
    /\ asked = "resolved" /\ phrases = req.words /\ variant = Plain /\ warned = {} /\ lease = "none"

-----------------------------------------------------------------------------
(* What sherpa-onnx can do.                                                *)
DecodingSupport(m, method) ==
    \/ method \in {"", Greedy}
    \/ method = Beam /\ m.family \in {"transducer", "streaming_transducer"}

HotwordsSupport(m, method) ==
    /\ m.family = "transducer" /\ method = Beam
    /\ m.unit = "cjkchar" \/ (m.unit = "bpe" /\ m.vocab)

HotwordsCapability(m) == HotwordsSupport(m, Beam)

-----------------------------------------------------------------------------
(* Mutant: the standing dictionaries are for every model.                  *)
StandingForAll == srv.standing

(* withStandingDictionaries: only for a model that can use them.           *)
Standing == IF HotwordsCapability(req.model) THEN srv.standing ELSE "none"

(* What the caller's key names: it is passed over where the configuration  *)
(* has put the same key in front.                                          *)
KeyNames ==
    CASE req.dict # "standing" -> req.dict
      [] req.dict = "standing" /\ Standing # "none" -> "none"
      [] OTHER -> IF srv.standing = "there" THEN "there" ELSE "missing"

Refused == lease' = "refused" /\ asked' = "answered"

(* applyDictionaries: a key of the caller's that names nothing is refused, *)
(* one of the configuration's is reported; a store that cannot be read     *)
(* refuses whoever has a key, his own or the configuration's.              *)
ApplyDictionaries ==
    /\ asked = "resolved"
    /\ CASE KeyNames = "none" /\ Standing = "none" ->
              asked' = "listed" /\ UNCHANGED <<phrases, warned, lease>>
         [] (KeyNames # "none" \/ Standing # "none") /\ srv.store = "none" ->
              asked' = "listed" /\ warned' = {"hotwords_unavailable"} /\ UNCHANGED <<phrases, lease>>
         [] (KeyNames # "none" \/ Standing # "none") /\ srv.store # "none" /\ (srv.store = "fails" \/ KeyNames = "missing") ->
              Refused /\ UNCHANGED <<phrases, warned>>
         [] OTHER ->
              /\ asked' = "listed" /\ UNCHANGED lease
              /\ warned' = IF Standing = "missing" THEN {"hotwords_dict_missing"} ELSE {}
              \* Merge: the dictionaries' phrases, then the request's own; blanks only when all are
              /\ phrases' = IF "there" \in {KeyNames, Standing} /\ phrases # "broken" THEN "some" ELSE phrases
    /\ UNCHANGED <<req, srv, variant>>

(* wantsVariant.                                                           *)
WantsVariant == phrases # "none" \/ req.method # "" \/ req.paths

Kept == IF DecodingSupport(req.model, req.method)
        THEN [Plain EXCEPT !.method = req.method, !.paths = req.paths] ELSE Plain

Dropped == IF DecodingSupport(req.model, req.method) THEN {} ELSE {"decoding_method_unavailable"}

(* The method the model will run with, and whether beam search is put in   *)
(* its place: only for a request that named none.                          *)
Method == IF Kept.method # "" THEN Kept.method ELSE IF req.model.method # "" THEN req.model.method ELSE Greedy
Promote == Method # Beam /\ req.method = "" /\ DecodingSupport(req.model, Beam)

(* Mutant: the promotion is judged by the family alone.                    *)
CanBiasFamily == req.model.family # "ctc"

CanBias == HotwordsSupport(req.model, IF Promote THEN Beam ELSE Method)

(* buildVariant.                                                           *)
BuildVariant ==
    /\ asked = "listed" /\ asked' = "built"
    /\ IF ~WantsVariant THEN UNCHANGED <<variant, warned>>
       ELSE IF phrases = "none" THEN variant' = Kept /\ warned' = warned \cup Dropped
       ELSE IF ~srv.enabled \/ ~CanBias
       THEN variant' = Kept /\ warned' = warned \cup Dropped \cup {"hotwords_unavailable"}
       ELSE /\ variant' = [method |-> IF Promote THEN Beam ELSE Kept.method, paths |-> Kept.paths,
                           hotwords |-> phrases = "some"]
            /\ warned' = warned \cup Dropped \cup (IF Promote THEN {"decoding_method_promoted"} ELSE {})
                           \cup (IF phrases = "broken" THEN {"hotwords_unavailable"} ELSE {})
    /\ UNCHANGED <<req, srv, phrases, lease>>

(* Mutant: a refusal is silent.                                            *)
RefusedSilently == {}

VariantRefused == {IF phrases # "none" THEN "hotwords_unavailable" ELSE "decoding_method_unavailable"}

(* acquire: the base when nothing else is wanted or to be had.             *)
Acquire ==
    /\ asked = "built" /\ asked' = "answered"
    /\ \/ variant = Plain /\ lease' = "base" /\ UNCHANGED warned
       \/ variant # Plain /\ srv.budget = "room" /\ lease' = "variant" /\ UNCHANGED warned
       \/ variant # Plain /\ srv.budget = "refused" /\ lease' = "base" /\ warned' = warned \cup VariantRefused
       \/ variant # Plain /\ srv.budget = "broken" /\ lease' = "refused" /\ UNCHANGED warned
    /\ UNCHANGED <<req, srv, phrases, variant>>

(* firstCapabilityWarning, of transcribe: a strict request is refused.     *)
Degradations == {"hotwords_unavailable", "decoding_method_unavailable"}

StrictAnswer ==
    /\ asked = "answered" /\ lease \in {"base", "variant"} /\ req.strict /\ warned \cap Degradations # {}
    /\ lease' = "refused"
    /\ UNCHANGED <<req, srv, asked, phrases, variant, warned>>

OptNext == ApplyDictionaries \/ BuildVariant \/ Acquire \/ StrictAnswer

OptSpec == OptInit /\ [][OptNext]_optvars

-----------------------------------------------------------------------------
(* Properties.                                                             *)

(* The recogniser the loader is told to build.                             *)
Effective == IF variant.method # "" THEN variant.method ELSE IF req.model.method # "" THEN req.model.method ELSE Greedy

(* "Nothing that fails this check may reach the loader" (hotwords.go:77),  *)
(* whose answer to what it cannot do is to end the process.                *)
LoaderIsSafe ==
    lease = "variant" =>
        /\ variant.method # "" => DecodingSupport(req.model, variant.method)
        /\ variant.hotwords => HotwordsSupport(req.model, Effective)

(* "every reason it cannot be built degrades to the base instance plus a   *)
(* warning naming the reason" (variant.go:18): what a request asked for is *)
(* in force, or the answer says that it is not.                            *)
NothingIsDroppedSilently ==
    (asked = "answered" /\ lease \in {"base", "variant"}) =>
        /\ (phrases \in {"some", "broken"} /\ ~(lease = "variant" /\ variant.hotwords)) =>
              "hotwords_unavailable" \in warned
        /\ (req.method = Beam /\ ~(lease = "variant" /\ variant.method = Beam)) =>
              warned \cap Degradations # {}

(* "a server-wide setting must not put a warning on every request to a     *)
(* model it was never meant for" (variant.go:77): on a model that cannot   *)
(* use the server's dictionaries a request without options is answered     *)
(* without a warning.  On one that can it is answered too, whether they    *)
(* exist or not, but not when the store cannot be read (variant.go:146).   *)
StandingIsQuiet ==
    (req.words = "none" /\ req.dict = "none" /\ req.method = "" /\ ~req.paths /\ asked = "answered") =>
        /\ (lease = "refused" /\ ~req.strict) =>
              srv.budget = "broken" \/ (srv.store = "fails" /\ srv.standing # "none" /\ HotwordsCapability(req.model))
        /\ ~HotwordsCapability(req.model) => warned = {} /\ lease = "base"

(* A warning alone "hides a typo in a parameter behind a result that looks *)
(* fine" (variant.go:108): a key that names nothing is refused, or the     *)
(* answer says that it was not applied, as it does for a key that is the   *)
(* configuration's as well.                                                *)
NoTypoIsHidden ==
    (asked = "answered" /\ lease # "refused" /\ (req.dict = "missing" \/ (req.dict = "standing" /\ srv.standing # "there"))) =>
        warned \cap {"hotwords_unavailable", "hotwords_dict_missing"} # {}

(* A request gets what it asks for or hears why not, and nothing that      *)
(* would break the native loader (variant.go).                             *)
RequestsAreHonest == LoaderIsSafe /\ NothingIsDroppedSilently /\ StandingIsQuiet /\ NoTypoIsHidden
=============================================================================
