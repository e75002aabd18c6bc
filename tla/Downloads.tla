------------------------------ MODULE Downloads ------------------------------
(***************************************************************************)
(* The models directory, its index and the downloads into it               *)
(* (internal/registry: remote.go, local.go, and HTTPDownloader.run of      *)
(* download.go).  One download runs per model however many ask; a caller   *)
(* waits for one or watches its progress; models are removed and downloads *)
(* cancelled meanwhile.  What is inside a model, how one file is fetched   *)
(* (module Fetch) and who may download are left out.                       *)
(***************************************************************************)
EXTENDS Naturals, FiniteSets

CONSTANTS Offered,        \* the catalog
          Asker,       \* requests that need a model, or watch its download
          Remover,      \* requests that remove one
          Download,     \* bound: how many downloads are ever started
          Concurrency,        \* RemoteOptions.Concurrency
          Inbox,        \* the capacity of a subscriber's channel
          Nobody

ASSUME DownloadsAssumption ==
    IsFiniteSet(Download) /\ Nobody \notin Download \cup Offered /\ Concurrency \in Nat

VARIABLES
    folder,     \* folder[m]: "absent", "bare" (no manifest yet) or "complete"
    index,      \* Local.byKey: the models the last scan found
    inflight,   \* Remote.inflight
    slots,      \* how many of Remote.slots are taken
    dl,         \* the downloads
    asker,     \* what a caller is doing
    inbox,      \* the progress a watching caller has not read
    remover     \* what a remover is doing

dlvars == <<folder, index, inflight, slots, dl, asker, inbox, remover>>

NoDownload == [m |-> Nobody, pc |-> "unused", cancelled |-> FALSE, failed |-> FALSE, seen |-> {}, subs |-> {}]
NotAsking == [pc |-> "idle", m |-> Nobody, d |-> Nobody]
EmptyInbox == [unread |-> 0, closed |-> FALSE]

DlInit ==
    /\ folder = [m \in Offered |-> "absent"] /\ index = {}
    /\ inflight = [m \in Offered |-> Nobody]
    /\ slots = 0
    /\ dl = [d \in Download |-> NoDownload]
    /\ asker = [c \in Asker |-> NotAsking]
    /\ inbox = [c \in Asker |-> EmptyInbox]
    /\ remover = [r \in Remover |-> [pc |-> "idle", m |-> Nobody, seen |-> {}]]

Installed == {m \in Offered : folder[m] = "complete"}

-----------------------------------------------------------------------------
(* A caller: Ensure and Fetch.                                             *)

AskerIs(c, r) == asker' = [asker EXCEPT ![c] = r]

Ensure(c, m, pc) ==
    /\ asker[c].pc = "idle"
    /\ IF m \in index THEN UNCHANGED asker      \* Dir answers
       ELSE AskerIs(c, [pc |-> pc, m |-> m, d |-> Nobody])
    /\ UNCHANGED <<folder, index, inflight, slots, dl, inbox, remover>>

(* The next download to be started, if the bound allows one.                *)
Fresh(d) == /\ dl[d].pc = "unused"
            /\ d = CHOOSE e \in Download : dl[e].pc = "unused"

(* Mutant: the table is not looked at again under the lock.                *)
BeginAnew(c) ==
    \E d \in Download :
        /\ asker[c].pc \in {"ensuring", "fetching"} /\ Fresh(d)
        /\ dl' = [dl EXCEPT ![d] = [NoDownload EXCEPT !.m = asker[c].m, !.pc = "waiting"]]
        /\ inflight' = [inflight EXCEPT ![asker[c].m] = d]
        /\ AskerIs(c, [asker[c] EXCEPT !.pc = IF @ = "ensuring" THEN "waiting" ELSE "joining", !.d = d])
        /\ UNCHANGED <<folder, index, slots, inbox, remover>>

(* begin: join the download of the model, or start one.                    *)
Begin(c) ==
    LET m == asker[c].m IN
    /\ asker[c].pc \in {"ensuring", "fetching"}
    /\ \E d \in Download :
         /\ IF inflight[m] # Nobody THEN d = inflight[m] /\ UNCHANGED <<dl, inflight>>
            ELSE /\ Fresh(d)
                 /\ dl' = [dl EXCEPT ![d] = [NoDownload EXCEPT !.m = m, !.pc = "waiting"]]
                 /\ inflight' = [inflight EXCEPT ![m] = d]
         /\ AskerIs(c, [asker[c] EXCEPT !.pc = IF @ = "ensuring" THEN "waiting" ELSE "joining", !.d = d])
    /\ UNCHANGED <<folder, index, slots, inbox, remover>>

(* subscribe: a download that is over has nothing more to tell.            *)
Subscribe(c) ==
    LET d == asker[c].d IN
    /\ asker[c].pc = "joining"
    /\ IF dl[d].pc \in {"closing", "over"}
       THEN inbox' = [inbox EXCEPT ![c].closed = TRUE] /\ UNCHANGED dl
       ELSE dl' = [dl EXCEPT ![d].subs = @ \cup {c}] /\ UNCHANGED inbox
    /\ AskerIs(c, [asker[c] EXCEPT !.pc = "watching"])
    /\ UNCHANGED <<folder, index, inflight, slots, remover>>

ReadProgress(c) ==
    /\ asker[c].pc = "watching" /\ inbox[c].unread > 0
    /\ inbox' = [inbox EXCEPT ![c].unread = @ - 1]
    /\ UNCHANGED <<folder, index, inflight, slots, dl, asker, remover>>

(* The outcome: of Ensure when done is closed, of Fetch when its channel   *)
(* is closed and read.                                                     *)
Answered(c) ==
    /\ \/ asker[c].pc = "waiting" /\ dl[asker[c].d].pc = "over"
       \/ asker[c].pc = "watching" /\ inbox[c].closed /\ inbox[c].unread = 0
    /\ AskerIs(c, NotAsking) /\ inbox' = [inbox EXCEPT ![c] = EmptyInbox]
    /\ UNCHANGED <<folder, index, inflight, slots, dl, remover>>

(* The caller gives up; the download goes on for whoever else waits.       *)
GiveUp(c) ==
    /\ asker[c].pc = "waiting" /\ AskerIs(c, NotAsking)
    /\ UNCHANGED <<folder, index, inflight, slots, dl, inbox, remover>>

(* Cancel.                                                                 *)
CancelDownload(m) ==
    /\ inflight[m] # Nobody
    /\ dl' = [dl EXCEPT ![inflight[m]].cancelled = TRUE]
    /\ UNCHANGED <<folder, index, inflight, slots, asker, inbox, remover>>

-----------------------------------------------------------------------------
(* A download: Remote.run around HTTPDownloader.run.                       *)

DownloadIs(d, r) == dl' = [dl EXCEPT ![d] = r]
OnlyDownload == <<asker, inbox, remover>>

TakeSlot(d) ==
    /\ dl[d].pc = "waiting" /\ slots < Concurrency
    /\ slots' = slots + 1
    /\ DownloadIs(d, [dl[d] EXCEPT !.pc = "fetching"])
    /\ UNCHANGED <<OnlyDownload, folder, index, inflight>>

(* Cancelled before it had a slot.                                         *)
NeverStarts(d) ==
    /\ dl[d].pc = "waiting" /\ dl[d].cancelled
    /\ DownloadIs(d, [dl[d] EXCEPT !.pc = "leaving", !.failed = TRUE])
    /\ UNCHANGED <<OnlyDownload, folder, index, inflight, slots>>

(* broadcast: whoever does not read in time misses an update.              *)
Broadcast(d) ==
    /\ dl[d].pc = "fetching" /\ dl[d].subs # {}
    /\ inbox' = [c \in Asker |-> IF c \in dl[d].subs /\ inbox[c].unread < Inbox
                                  THEN [inbox[c] EXCEPT !.unread = @ + 1] ELSE inbox[c]]
    /\ UNCHANGED <<folder, index, inflight, slots, dl, asker, remover>>

(* Every source was tried or the archive is here: from now on nobody looks *)
(* at the context (Unpack and the renames do not).                         *)
Fetched(d) ==
    /\ dl[d].pc = "fetching" /\ ~dl[d].cancelled
    /\ DownloadIs(d, [dl[d] EXCEPT !.pc = "unpacked"])
    /\ UNCHANGED <<OnlyDownload, folder, index, inflight, slots>>

MayFail == {"fetching", "unpacked", "cleared", "installed"}

(* Mutant: a download that failed keeps its slot.                          *)
FetchFailsInSlot(d) ==
    /\ dl[d].pc \in MayFail
    /\ DownloadIs(d, [dl[d] EXCEPT !.pc = "leaving", !.failed = TRUE])
    /\ UNCHANGED <<OnlyDownload, folder, index, inflight, slots>>

(* No source has it, it was cancelled, or the disk refuses it: what was    *)
(* cleared or renamed by then stays so.                                    *)
FetchFails(d) ==
    /\ dl[d].pc \in MayFail
    /\ DownloadIs(d, [dl[d] EXCEPT !.pc = "freeing", !.failed = TRUE])
    /\ UNCHANGED <<OnlyDownload, folder, index, inflight, slots>>

(* The old directory goes, the new one is renamed into its place and then  *)
(* gets its manifest.                                                      *)
ClearTarget(d) ==
    /\ dl[d].pc = "unpacked"
    /\ folder' = [folder EXCEPT ![dl[d].m] = "absent"]
    /\ DownloadIs(d, [dl[d] EXCEPT !.pc = "cleared"])
    /\ UNCHANGED <<OnlyDownload, index, inflight, slots>>

RenameTarget(d) ==
    /\ dl[d].pc = "cleared"
    /\ folder' = [folder EXCEPT ![dl[d].m] = "bare"]
    /\ DownloadIs(d, [dl[d] EXCEPT !.pc = "installed"])
    /\ UNCHANGED <<OnlyDownload, index, inflight, slots>>

WriteManifest(d) ==
    /\ dl[d].pc = "installed"
    /\ folder' = [folder EXCEPT ![dl[d].m] = IF @ = "bare" THEN "complete" ELSE @]
    /\ DownloadIs(d, [dl[d] EXCEPT !.pc = "described", !.failed = folder[dl[d].m] # "bare"])
    /\ UNCHANGED <<OnlyDownload, index, inflight, slots>>

(* Refresh scans without the lock and installs what it saw under it.       *)
RefreshScans(d) ==
    /\ dl[d].pc = "described"
    /\ IF dl[d].failed \/ dl[d].cancelled
       THEN DownloadIs(d, [dl[d] EXCEPT !.pc = "freeing", !.failed = TRUE])
       ELSE DownloadIs(d, [dl[d] EXCEPT !.pc = "scanned", !.seen = Installed])
    /\ UNCHANGED <<OnlyDownload, folder, index, inflight, slots>>

RefreshInstalls(d) ==
    /\ dl[d].pc = "scanned"
    /\ index' = dl[d].seen
    /\ DownloadIs(d, [dl[d] EXCEPT !.pc = "indexed", !.seen = {}])
    /\ UNCHANGED <<OnlyDownload, folder, inflight, slots>>

LookUp(d) ==
    /\ dl[d].pc = "indexed"
    /\ DownloadIs(d, [dl[d] EXCEPT !.pc = "freeing", !.failed = dl[d].m \notin index])
    /\ UNCHANGED <<OnlyDownload, folder, index, inflight, slots>>

FreeSlot(d) ==
    /\ dl[d].pc = "freeing" /\ slots' = slots - 1
    /\ DownloadIs(d, [dl[d] EXCEPT !.pc = "leaving"])
    /\ UNCHANGED <<OnlyDownload, folder, index, inflight>>

(* Mutant: the outcome is read before the download leaves the table.       *)
LeaveUnread(d) ==
    /\ dl[d].pc = "leaving"
    /\ inflight' = [inflight EXCEPT ![dl[d].m] = Nobody]
    /\ DownloadIs(d, [dl[d] EXCEPT !.pc = "left"])
    /\ UNCHANGED <<OnlyDownload, folder, index, slots>>

(* Out of the table, and one that was cancelled has failed.                *)
LeaveTable(d) ==
    /\ dl[d].pc = "leaving"
    /\ inflight' = [inflight EXCEPT ![dl[d].m] = Nobody]
    /\ DownloadIs(d, [dl[d] EXCEPT !.pc = "left", !.failed = @ \/ dl[d].cancelled])
    /\ UNCHANGED <<OnlyDownload, folder, index, slots>>

(* finish: no new subscribers, ...                                         *)
CloseSubscriptions(d) ==
    /\ dl[d].pc = "left"
    /\ DownloadIs(d, [dl[d] EXCEPT !.pc = "closing"])
    /\ UNCHANGED <<OnlyDownload, folder, index, inflight, slots>>

(* Mutant: the subscribers that are behind are left as they are.           *)
FinishSome(d) ==
    /\ dl[d].pc = "closing"
    /\ inbox' = [c \in Asker |->
         IF c \in dl[d].subs /\ inbox[c].unread < Inbox
         THEN [unread |-> inbox[c].unread + 1, closed |-> TRUE] ELSE inbox[c]]
    /\ DownloadIs(d, [NoDownload EXCEPT !.pc = "over"])
    /\ UNCHANGED <<folder, index, inflight, slots, asker, remover>>

(* ... the last word to those who have room for it, and every channel and  *)
(* done is closed.                                                         *)
Finish(d) ==
    /\ dl[d].pc = "closing"
    /\ inbox' = [c \in Asker |->
         IF c \notin dl[d].subs THEN inbox[c]
         ELSE IF inbox[c].unread < Inbox
              THEN [unread |-> inbox[c].unread + 1, closed |-> TRUE]
              ELSE [inbox[c] EXCEPT !.closed = TRUE]]
    /\ DownloadIs(d, [NoDownload EXCEPT !.pc = "over"])
    /\ UNCHANGED <<folder, index, inflight, slots, asker, remover>>

-----------------------------------------------------------------------------
(* Remove: not while it is downloaded; then the directory, then a Refresh. *)

RemoverIs(r, x) == remover' = [remover EXCEPT ![r] = x]
OnlyRemover == <<inflight, slots, dl, asker, inbox>>

RemoveChecks(r, m) ==
    /\ remover[r].pc = "idle" /\ inflight[m] = Nobody /\ m \in index
    /\ RemoverIs(r, [pc |-> "removing", m |-> m, seen |-> {}])
    /\ UNCHANGED <<OnlyRemover, folder, index>>

RemoveDir(r) ==
    /\ remover[r].pc = "removing"
    /\ folder' = [folder EXCEPT ![remover[r].m] = "absent"]
    /\ RemoverIs(r, [remover[r] EXCEPT !.pc = "removed"])
    /\ UNCHANGED <<OnlyRemover, index>>

RemoveScans(r) ==
    /\ remover[r].pc = "removed"
    /\ RemoverIs(r, [remover[r] EXCEPT !.pc = "scanned", !.seen = Installed])
    /\ UNCHANGED <<OnlyRemover, folder, index>>

RemoveReindexes(r) ==
    /\ remover[r].pc = "scanned"
    /\ index' = remover[r].seen
    /\ RemoverIs(r, [pc |-> "idle", m |-> Nobody, seen |-> {}])
    /\ UNCHANGED <<OnlyRemover, folder>>

(* The process dies: what is on disk stays as it is, and the next one      *)
(* scans it.                                                               *)
RegistryRestarts ==
    /\ folder' = folder /\ index' = Installed
    /\ inflight' = [m \in Offered |-> Nobody] /\ slots' = 0
    /\ dl' = [d \in Download |-> IF dl[d].pc = "unused" THEN dl[d] ELSE [NoDownload EXCEPT !.pc = "lost"]]
    /\ asker' = [c \in Asker |-> NotAsking] /\ inbox' = [c \in Asker |-> EmptyInbox]
    /\ remover' = [r \in Remover |-> [pc |-> "idle", m |-> Nobody, seen |-> {}]]

-----------------------------------------------------------------------------
DownloadSteps(d) ==
    \/ TakeSlot(d) \/ NeverStarts(d) \/ Fetched(d) \/ FetchFails(d) \/ ClearTarget(d) \/ RenameTarget(d) \/ WriteManifest(d)
    \/ RefreshScans(d) \/ RefreshInstalls(d) \/ LookUp(d) \/ FreeSlot(d) \/ LeaveTable(d)
    \/ CloseSubscriptions(d) \/ Finish(d)

AskerSteps(c) == Begin(c) \/ Subscribe(c) \/ ReadProgress(c) \/ Answered(c)

RemoverSteps(r) == RemoveDir(r) \/ RemoveScans(r) \/ RemoveReindexes(r)

DlNext ==
    \/ \E d \in Download : DownloadSteps(d) \/ Broadcast(d)
    \/ \E c \in Asker : AskerSteps(c) \/ GiveUp(c)
                         \/ \E m \in Offered, pc \in {"ensuring", "fetching"} : Ensure(c, m, pc)
    \/ \E m \in Offered : CancelDownload(m)
    \/ \E r \in Remover : RemoverSteps(r) \/ \E m \in Offered : RemoveChecks(r, m)
    \/ RegistryRestarts

DlSpec == DlInit /\ [][DlNext]_dlvars

-----------------------------------------------------------------------------
(* Properties.                                                             *)

InWork == {"fetching", "unpacked", "cleared", "installed", "described", "scanned", "indexed", "freeing"}

(* "One download runs per model no matter how many callers ask for it"     *)
(* (remote.go:33): nobody else works on the directory of a model, and      *)
(* whoever works on it is in the table (remote.go:189, remote.go:241).     *)
OneDownloadPerModel ==
    \A d, e \in Download :
        (dl[d].pc \in InWork \cup {"waiting", "leaving"}) =>
            /\ inflight[dl[d].m] = d
            /\ (dl[e].pc \in InWork \cup {"waiting", "leaving"} /\ dl[e].m = dl[d].m) => e = d

(* A slot is held exactly by a download between the slot and its end, on   *)
(* every path out (remote.go:256).                                         *)
SlotsExact == slots = Cardinality({d \in Download : dl[d].pc \in InWork}) /\ slots <= Concurrency

(* "Every caller waiting on it gets the cancellation as its outcome"       *)
(* (remote.go:209): one that Cancel found in the table never reports       *)
(* success, however late it came.                                          *)
CancelledIsReported ==
    \A d \in Download : (dl[d].pc \in {"left", "closing"} /\ dl[d].cancelled) => dl[d].failed

(* Whoever waits for a download, or watches one, learns that it is over    *)
(* (remote.go:379).                                                        *)
AskersAreAnswered ==
    \A c \in Asker : asker[c].pc \in {"waiting", "watching"} ~> asker[c].pc = "idle"
=============================================================================
