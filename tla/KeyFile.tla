-------------------------------- MODULE KeyFile --------------------------------
(***************************************************************************)
(* The configuration file's keys (cmd/nanoasr/keys.go, init.go;            *)
(* config/edit.go, load.go): commands that issue and remove them and write *)
(* a first file, each a process of its own, interrupted at any step, and   *)
(* the server that loads what is there.  The two names of the file, its    *)
(* own and the temporary one all commands share, lead to inodes; a text is *)
(* the sequence of its keys, and a text cut off or written over is Garbled *)
(* ("an empty file decodes to a zero node": it has no keys).               *)
(***************************************************************************)
EXTENDS Managed, Sequences, SequencesExt

CONSTANTS
    Command,            \* processes, each runs one command
    KeyName,            \* names of keys; NoLabel is no name
    Secret,             \* NewKeySecret's, distinct
    NoLabel, Garbled, None,
    Originals           \* bound: texts of the file at first, or None

VARIABLES
    inode,              \* "path", "tmp" -> inode or None
    text,               \* inode -> text
    cmd,                \* command -> [at, doc, fd, keys: what it changes, drops]
    served,             \* the server: [how: "down", "refused", "up", keys]
    owed,               \* history: keys there at first or printed, not reported removed
    maybe,              \* history: keys a command that has not reported may have changed
    excused             \* history: two commands at once, or init over the file

keyvars == <<inode, text, cmd, served, owed, maybe, excused>>

NamedKey(n, s) == [name |-> n, key |-> s]
NamedKeys == [name : KeyName \cup {NoLabel, "admin", "user"}, key : Secret]

(* A secret is there once, and so is a name.                               *)
NoTwins(doc) ==
    \A j, k \in DOMAIN doc : j # k =>
        /\ doc[j].key # doc[k].key
        /\ doc[j].name # doc[k].name \/ doc[j].name = NoLabel

(* Bound: what an operator wrote by hand has no twins.  No loader checks   *)
(* this; with twins the first of a name is the one that is removed.        *)
ASSUME KeyAssumption ==
    /\ \A t \in Originals \ {None} : t \in Seq(NamedKeys) /\ NoTwins(t)
    /\ Garbled \notin Seq(NamedKeys) /\ None \notin Nat \cup Seq(NamedKeys) \cup {Garbled}

Idle == [at |-> "idle", doc |-> <<>>, fd |-> None, keys |-> {}, drops |-> FALSE]

KeysIn(doc) == {k.key : k \in ToSet(doc)}

KeyInit ==
    /\ \E t \in Originals :
          /\ inode = [f \in {"path", "tmp"} |-> IF f = "path" /\ t # None THEN 1 ELSE None]
          /\ text = IF t = None THEN <<>> ELSE <<t>>
          /\ owed = IF t = None THEN {} ELSE KeysIn(t)
          /\ excused = (t = None)
    /\ cmd = [c \in Command |-> Idle] /\ served = [how |-> "down", keys |-> {}] /\ maybe = {}

-----------------------------------------------------------------------------
FileText == IF inode["path"] = None THEN None ELSE text[inode["path"]]

(* openDocument: what cannot be read or parsed ends the command.           *)
Readable == FileText \notin {None, Garbled}

Running(c) == cmd[c].at \notin {"idle", "ok", "error", "gone"}
Quits(c, how) == cmd' = [cmd EXCEPT ![c].at = how]

Unused(s) == s \notin owed \cup maybe /\ \A i \in DOMAIN text : text[i] # Garbled => s \notin KeysIn(text[i])

(* Mutant: a name is given twice.                                          *)
MayAddAlways(doc, n, s) == s \notin KeysIn(doc)

(* AddKey: "Names must be unique".                                         *)
MayAdd(doc, n, s) ==
    /\ n # NoLabel => \A k \in ToSet(doc) : k.name # n
    /\ s \notin KeysIn(doc)

(* RemoveKey: the first key with this name or secret.                      *)
Without(doc, x) ==
    LET hit == {i \in DOMAIN doc : doc[i].name = x \/ doc[i].key = x}
    IN IF hit = {} THEN doc ELSE RemoveAt(doc, CHOOSE i \in hit : \A j \in hit : i <= j)

(* What removing keys leaves.  Bound: two at most, the second by its name. *)
Removals(doc) ==
    {Without(doc, x) : x \in KeyName \cup Secret} \cup {Without(Without(doc, x), y) : x, y \in KeyName}

(* From here on the command's change may be in the file or not.            *)
Saves(c, doc, keys, drops) ==
    /\ cmd' = [cmd EXCEPT ![c] = [at |-> "saving", doc |-> doc, fd |-> None, keys |-> keys, drops |-> drops]]
    /\ maybe' = maybe \cup keys
    /\ excused' = (excused \/ \E d \in Command : Running(d))

(* issueKey.                                                               *)
Issue(c) ==
    /\ cmd[c].at = "idle"
    /\ \E n \in KeyName, s \in Secret :
          /\ Unused(s) /\ \A d \in Command : s \notin cmd[d].keys
          /\ IF Readable /\ MayAdd(FileText, n, s)
             THEN Saves(c, Append(FileText, NamedKey(n, s)), {s}, FALSE)
             ELSE Quits(c, "error") /\ UNCHANGED <<maybe, excused>>
    /\ UNCHANGED <<inode, text, served, owed>>

(* removeKeys: those that are there are removed though others are not.     *)
RemoveFrom(c) ==
    /\ cmd[c].at = "idle"
    /\ \/ /\ Readable
          /\ \E left \in Removals(FileText) :
                left # FileText /\ Saves(c, left, KeysIn(FileText) \ KeysIn(left), TRUE)
       \/ /\ Readable => FileText \in Removals(FileText)
          /\ Quits(c, "error") /\ UNCHANGED <<maybe, excused>>
    /\ UNCHANGED <<inode, text, served, owed>>

-----------------------------------------------------------------------------
(* os.WriteFile: the file is made or truncated, then written.              *)
Opened(c, f, next) ==
    LET i == IF inode[f] = None THEN Len(text) + 1 ELSE inode[f]
    IN /\ inode' = [inode EXCEPT ![f] = i]
       /\ text' = IF inode[f] = None THEN Append(text, <<>>) ELSE [text EXCEPT ![i] = <<>>]
       /\ cmd' = [cmd EXCEPT ![c].at = next, ![c].fd = i]

(* What another has written since stays where it is longer.                *)
Written(c) ==
    LET over == text[cmd[c].fd]
    IN IF over = Garbled THEN Garbled ELSE IF Len(over) > Len(cmd[c].doc) THEN Garbled ELSE cmd[c].doc

(* Mutant: the file is written where it is.                                *)
WriteOver == "path"

(* "through a temporary one in the same directory".                        *)
SaveThrough == "tmp"

OpenSave(c) ==
    /\ cmd[c].at = "saving" /\ Opened(c, SaveThrough, "writing")
    /\ UNCHANGED <<served, owed, maybe, excused>>

WriteSave(c) ==
    /\ cmd[c].at \in {"writing", "initwriting"}
    /\ text' = [text EXCEPT ![cmd[c].fd] = Written(c)]
    /\ Quits(c, IF cmd[c].at = "writing" THEN "renaming" ELSE "loading")
    /\ UNCHANGED <<inode, served, owed, maybe, excused>>

(* The disk is full, or the process is interrupted while it writes.        *)
WriteCut(c) ==
    /\ cmd[c].at \in {"writing", "initwriting"} /\ \E how \in {"error", "gone"} : Quits(c, how)
    /\ text' = [text EXCEPT ![cmd[c].fd] = Garbled]
    /\ UNCHANGED <<inode, served, owed, maybe, excused>>

(* The rename, and what the command prints.  Another's rename may have     *)
(* taken the temporary file away.                                          *)
RenameSave(c) ==
    /\ cmd[c].at = "renaming"
    /\ IF inode["tmp"] = None
       THEN Quits(c, "error") /\ UNCHANGED <<inode, owed, maybe>>
       ELSE /\ inode' = [path |-> inode["tmp"], tmp |-> None] /\ Quits(c, "ok")
            /\ owed' = IF cmd[c].drops THEN owed \ cmd[c].keys ELSE owed \cup cmd[c].keys
            /\ maybe' = maybe \ cmd[c].keys
    /\ UNCHANGED <<text, served, excused>>

(* initCommand: two keys, written where the file belongs.                  *)
InitFile(c) ==
    /\ cmd[c].at = "idle"
    /\ \E force \in BOOLEAN, a, u \in Secret :
          /\ a # u /\ Unused(a) /\ Unused(u) /\ \A d \in Command : {a, u} \cap cmd[d].keys = {}
          /\ IF FileText # None /\ ~force THEN Quits(c, "error") /\ UNCHANGED <<maybe, excused>>
             ELSE /\ cmd' = [cmd EXCEPT ![c] = [at |-> "init", doc |-> <<NamedKey("admin", a), NamedKey("user", u)>>,
                                                fd |-> None, keys |-> {a, u}, drops |-> FALSE]]
                  /\ maybe' = maybe \cup owed \cup {a, u} /\ excused' = TRUE
    /\ UNCHANGED <<inode, text, served, owed>>

OpenInit(c) ==
    /\ cmd[c].at = "init" /\ Opened(c, "path", "initwriting")
    /\ UNCHANGED <<served, owed, maybe, excused>>

(* "the generated configuration did not load": the settings given to init  *)
(* may be ones Validate rejects.  With nobody else about, what was printed *)
(* is in the file from here on.                                            *)
LoadInit(c) ==
    /\ cmd[c].at = "loading"
    /\ \E how \in {"ok", "error"} :
          /\ Quits(c, how)
          /\ IF how = "ok" /\ Readable /\ \A d \in Command \ {c} : ~Running(d) /\ cmd[d].fd # inode["path"]
             THEN owed' = cmd[c].keys /\ maybe' = {} /\ excused' = (FileText # cmd[c].doc)
             ELSE UNCHANGED <<owed, maybe, excused>>
    /\ UNCHANGED <<inode, text, served>>

KillCommand(c) == Running(c) /\ Quits(c, "gone") /\ UNCHANGED <<inode, text, served, owed, maybe, excused>>

(* Load: "apikey mode with no keys" is refused.                            *)
Loaded ==
    IF ~Readable \/ FileText = <<>> THEN [how |-> "refused", keys |-> {}]
    ELSE [how |-> "up", keys |-> KeysIn(FileText)]

RestartServer == served' = Loaded /\ served' # served /\ UNCHANGED <<inode, text, cmd, owed, maybe, excused>>

KeyNext ==
    \/ RestartServer
    \/ \E c \in Command :
          \/ Issue(c) \/ RemoveFrom(c) \/ InitFile(c)
          \/ OpenSave(c) \/ WriteSave(c) \/ WriteCut(c) \/ RenameSave(c)
          \/ OpenInit(c) \/ LoadInit(c) \/ KillCommand(c)

KeySpec == KeyInit /\ [][KeyNext]_keyvars

-----------------------------------------------------------------------------
(* Properties.                                                             *)

(* "an interrupted write cannot leave a server with no keys at all"        *)
(* (keys.go:146-147), "changes one list and nothing else" (edit.go:20):    *)
(* whatever command was interrupted wherever, as long as they run one      *)
(* after the other, the file is whole, has every key that was printed and  *)
(* not removed, no key that was removed, and loads.                        *)
KeysAreKept ==
    ~excused =>
        /\ Readable
        /\ owed \ maybe \subseteq KeysIn(FileText) /\ KeysIn(FileText) \subseteq owed \cup maybe
        /\ owed \ maybe # {} => Loaded.how = "up"

(* "two keys called "ci" would make `nanoasr key remove ci` ambiguous"     *)
(* (edit.go:114-116): however commands overlap, no text that can be read   *)
(* has two keys of one name or one secret.                                 *)
OneNameOneKey == \A i \in DOMAIN text : text[i] # Garbled => NoTwins(text[i])

(* Settings and keys outlast whoever changes them: a save is whole or not  *)
(* at all, the keys that were printed are in the file, a restart that is   *)
(* needed is announced and settles (controller.go, keys.go:146).           *)
SettingsOutlast == RestartSettles /\ RestartIsAnnounced /\ SettingsAreWhole /\ KeysAreKept /\ OneNameOneKey
=============================================================================
