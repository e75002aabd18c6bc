----------------------------- MODULE SpeakerNames -----------------------------
(***************************************************************************)
(* Pipeline.RenameSpeakers (internal/pipeline/pipeline.go) of one finished *)
(* job: the record is read, changed and written back as a whole, by        *)
(* several clients, while the history may be purged.                       *)
(***************************************************************************)
EXTENDS Naturals, FiniteSets

CONSTANTS
    Renamer,    \* clients; each gives its own name
    Voice       \* the speakers of the job

Unnamed == "none"

ASSUME RenamerAssumption == Unnamed \notin Renamer

VARIABLES
    jobRow,     \* the stored record: there, and speaker -> name
    renaming,   \* who has Pipeline.renaming, or Unnamed
    renames,    \* client -> what it read and wants
    acked       \* history: speaker -> the name acknowledged last

spvars == <<jobRow, renaming, renames, acked>>

SpInit ==
    /\ jobRow = [there |-> TRUE, names |-> [s \in Voice |-> Unnamed]]
    /\ renaming = Unnamed /\ renames = [c \in Renamer |-> [stage |-> "idle"]]
    /\ acked = [s \in Voice |-> Unnamed]

-----------------------------------------------------------------------------
(* What a client asks for: names for some speakers, some of them unknown   *)
(* to the job or not fit to be a name.                                     *)
RenameAsked == [who : SUBSET (Voice \cup {"unknown"}) \ {{}}, fit : BOOLEAN]

(* record, and the checks: "Everything is checked before anything changes".*)
Acceptable(q) == jobRow.there /\ q.who \subseteq Voice /\ q.fit

Rereads(c, q) == renames' = [renames EXCEPT ![c] = [stage |-> "read", who |-> q.who, names |-> jobRow.names]]

(* Mutant: the lock is taken for the write only.                           *)
RenameReadsUnlocked(c, q) ==
    /\ renames[c].stage = "idle" /\ Acceptable(q) /\ Rereads(c, q)
    /\ UNCHANGED <<jobRow, renaming, acked>>

RenameReads(c, q) ==
    /\ renaming = Unnamed /\ renames[c].stage = "idle" /\ Acceptable(q) /\ Rereads(c, q)
    /\ renaming' = c
    /\ UNCHANGED <<jobRow, acked>>

(* Mutant: the record is stored whether or not there is a row.             *)
UpsertRow(c) == [there |-> TRUE, names |-> [s \in Voice |-> IF s \in renames[c].who THEN c ELSE renames[c].names[s]]]

(* Update: UPDATE ... WHERE id, of no row if there is none.                *)
UpdateRow(c) ==
    IF jobRow.there
    THEN [jobRow EXCEPT !.names = [s \in Voice |-> IF s \in renames[c].who THEN c ELSE renames[c].names[s]]]
    ELSE jobRow

(* The write may fail; the client is told.                                 *)
RenameWrites(c) ==
    /\ renames[c].stage = "read"
    /\ \/ /\ jobRow' = UpdateRow(c)
          /\ acked' = IF jobRow.there THEN [s \in Voice |-> IF s \in renames[c].who THEN c ELSE acked[s]] ELSE acked
       \/ UNCHANGED <<jobRow, acked>>
    /\ renaming' = Unnamed /\ renames' = [renames EXCEPT ![c] = [stage |-> "idle"]]

(* The history's age limit takes the row.                                  *)
RowPurged ==
    /\ jobRow.there /\ jobRow' = [jobRow EXCEPT !.there = FALSE]
    /\ UNCHANGED <<renaming, renames, acked>>

SpNext ==
    \/ \E c \in Renamer : RenameWrites(c) \/ (\E q \in RenameAsked : RenameReads(c, q))
    \/ RowPurged

SpSpec == SpInit /\ [][SpNext]_spvars

-----------------------------------------------------------------------------
(* Properties.                                                             *)

(* "two at once would each write back the other's old names"               *)
(* (pipeline.go:142): every name that was acknowledged last is the one     *)
(* stored, and a refused or failed rename changes none.                    *)
RenamesAreKept == jobRow.there => jobRow.names = acked

(* "Update writes a state transition" of a row there is (store.go:123): a  *)
(* rename that overlaps the purge does not bring the job back.             *)
PurgedStaysGone == [][~jobRow.there => ~jobRow'.there]_jobRow
=============================================================================
