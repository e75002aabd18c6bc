-------------------------------- MODULE Fetch --------------------------------
(***************************************************************************)
(* Fetching one file of a model and unpacking it (internal/registry:       *)
(* fetch, attempt and copyWithProgress of download.go, and unpack.go).     *)
(* The sources are tried in order, each a few times; what a broken         *)
(* connection left is resumed, by the next source as well.  A byte is      *)
(* right or wrong, never what it is.                                       *)
(***************************************************************************)
EXTENDS Naturals

CONSTANTS Sources,      \* the URL and its mirrors
          Retries,      \* attempts per source
          FileLen,      \* the bytes of the file that is wanted
          FetchLimit,   \* want.limit
          MaxFiles, MaxFileBytes, MaxUnpackedBytes      \* UnpackLimits

ASSUME FetchAssumption ==
    /\ Sources \in Nat \ {0} /\ Retries \in Nat \ {0} /\ FileLen \in Nat /\ FetchLimit \in Nat
    /\ MaxFiles \in Nat /\ MaxFileBytes \in Nat /\ MaxUnpackedBytes \in Nat

VARIABLES
    serves,     \* what each source has, and whether it answers ranges
    source, attempt,    \* the loop counters of fetch
    fpc,
    disk,       \* dest: how many bytes, and whether they are a prefix of the file
    hashed,     \* the same of what went through the hasher
    dropped,    \* the context has ended
    unpacked    \* the counters of the extraction, and what it put on the disk

fcvars == <<serves, source, attempt, fpc, disk, hashed, dropped, unpacked>>

Nothing == [len |-> 0, right |-> TRUE]

(* A source has the file, something else of any length, or nothing.        *)
Offers == [len : 0..(FetchLimit + 1), right : {FALSE}, range : BOOLEAN]
            \cup [len : {FileLen}, right : {TRUE}, range : BOOLEAN]

(* What an archive may hold: its sizes are what it says and what they are. *)
Entry == [regular : {TRUE}, declared : 0..MaxFileBytes + 1, size : 0..MaxUnpackedBytes + 1]
            \cup [regular : {FALSE}, declared : {0}, size : {0}]

Untouched == [files |-> 0, total |-> 0, disk |-> 0, ok |-> TRUE]

FcInit ==
    /\ serves \in [1..Sources -> Offers]
    /\ source = 1 /\ attempt = 0 /\ fpc = "trying"
    /\ disk = Nothing /\ hashed = Nothing /\ dropped = FALSE
    /\ unpacked = Untouched

-----------------------------------------------------------------------------
(* The next attempt after an error that may go away, or that will not.     *)
Retry == IF attempt + 1 < Retries
         THEN attempt' = attempt + 1 /\ fpc' = "trying" /\ UNCHANGED source
         ELSE attempt' = 0 /\ source' = source + 1
              /\ fpc' = IF source < Sources THEN "trying" ELSE "failed"

NextSource == attempt' = 0 /\ source' = source + 1
              /\ fpc' = IF source < Sources THEN "trying" ELSE "failed"

(* The context is looked at before an attempt, during the pause before a   *)
(* second one and between reads.                                           *)
FetchStops ==
    /\ dropped /\ fpc \in {"trying", "receiving"} /\ fpc' = "failed"
    /\ UNCHANGED <<serves, source, attempt, disk, hashed, dropped, unpacked>>

FetchDropped ==
    /\ ~dropped /\ fpc \in {"trying", "receiving"} /\ dropped' = TRUE
    /\ UNCHANGED <<serves, source, attempt, fpc, disk, hashed, unpacked>>

(* No connection, or an answer that is none.                               *)
Unreachable ==
    /\ fpc = "trying" /\ ~dropped
    /\ Retry
    /\ UNCHANGED <<serves, disk, hashed, dropped, unpacked>>

(* 404, 403, 410.                                                          *)
Missing ==
    /\ fpc = "trying" /\ ~dropped
    /\ NextSource
    /\ UNCHANGED <<serves, disk, hashed, dropped, unpacked>>

(* The server sends everything: the file is truncated, the hasher reset.   *)
StartOver == disk' = Nothing /\ hashed' = Nothing

(* What is on the disk is hashed and the rest is asked for.  A range that  *)
(* begins behind the end is no answer (416); a file over the limit is      *)
(* refused if its size is told.                                            *)
Answers ==
    LET s == serves[source]  resumed == disk.len > 0 /\ s.range IN
    /\ fpc = "trying" /\ ~dropped
    /\ IF resumed /\ disk.len >= s.len THEN Retry /\ UNCHANGED <<disk, hashed>>
       ELSE \/ s.len > FetchLimit /\ NextSource /\ UNCHANGED <<disk, hashed>>
            \/ /\ fpc' = "receiving" /\ UNCHANGED <<source, attempt>>
               /\ IF resumed THEN hashed' = disk /\ UNCHANGED disk ELSE StartOver
    /\ UNCHANGED <<serves, dropped, unpacked>>

With(b) == [len |-> b.len + 1, right |-> b.right /\ serves[source].right]

(* Mutant: only what this attempt received counts.                         *)
ReceiveUncounted ==
    /\ fpc = "receiving" /\ ~dropped /\ disk.len < serves[source].len
    /\ disk' = With(disk) /\ hashed' = With(hashed)
    /\ UNCHANGED <<serves, source, attempt, fpc, dropped, unpacked>>

(* The limit is on the file, not on the attempt.                           *)
Receive ==
    /\ fpc = "receiving" /\ ~dropped /\ disk.len < serves[source].len
    /\ IF disk.len + 1 > FetchLimit THEN NextSource /\ UNCHANGED <<disk, hashed>>
       ELSE disk' = With(disk) /\ hashed' = With(hashed) /\ UNCHANGED <<source, attempt, fpc>>
    /\ UNCHANGED <<serves, dropped, unpacked>>

ConnectionBreaks ==
    /\ fpc = "receiving" /\ ~dropped
    /\ Retry
    /\ UNCHANGED <<serves, disk, hashed, dropped, unpacked>>

(* Mutant: a file of the right length is believed.                         *)
VerifyLength ==
    /\ fpc = "receiving" /\ ~dropped /\ disk.len >= serves[source].len
    /\ IF hashed.len = FileLen
       THEN fpc' = "fetched" /\ UNCHANGED <<source, attempt, disk>>
       ELSE NextSource /\ disk' = Nothing
    /\ UNCHANGED <<serves, hashed, dropped, unpacked>>

(* A file that does not match is removed, and this source is not asked     *)
(* again.                                                                  *)
Verify ==
    /\ fpc = "receiving" /\ ~dropped /\ disk.len >= serves[source].len
    /\ IF hashed = [len |-> FileLen, right |-> TRUE]
       THEN fpc' = "fetched" /\ UNCHANGED <<source, attempt, disk>>
       ELSE NextSource /\ disk' = Nothing
    /\ UNCHANGED <<serves, hashed, dropped, unpacked>>

-----------------------------------------------------------------------------
(* extractTar, extractZip.                                                 *)

(* Mutant: the size that is declared is the size that counts.              *)
ExtractTrusting(x, e) ==
    IF ~e.regular \/ x.files + 1 > MaxFiles \/ e.declared > MaxFileBytes \/ x.total >= MaxUnpackedBytes
    THEN [x EXCEPT !.ok = FALSE]
    ELSE [files |-> x.files + 1, total |-> x.total + e.declared, disk |-> x.disk + e.size,
          ok |-> x.total + e.declared <= MaxUnpackedBytes]

(* One entry after those of x: its declared size is checked, its real one  *)
(* is what is written, one byte over the allowance at most.                *)
Extract(x, e) ==
    IF ~e.regular \/ x.files + 1 > MaxFiles \/ e.declared > MaxFileBytes \/ x.total >= MaxUnpackedBytes
    THEN [x EXCEPT !.ok = FALSE]
    ELSE LET left    == MaxUnpackedBytes - x.total
             written == IF e.size <= left THEN e.size ELSE left + 1
         IN [files |-> x.files + 1, total |-> x.total + written, disk |-> x.disk + written, ok |-> written <= left]

(* The archive that was fetched: its next entry.                           *)
Unpack ==
    /\ fpc = "fetched" /\ unpacked.ok
    /\ \E e \in Entry : unpacked' = Extract(unpacked, e)
    /\ UNCHANGED <<serves, source, attempt, fpc, disk, hashed, dropped>>

-----------------------------------------------------------------------------
Fetching == FetchStops \/ Unreachable \/ Missing \/ Answers \/ Receive \/ ConnectionBreaks \/ Verify

FcNext == Fetching \/ FetchDropped \/ Unpack

FcSpec == FcInit /\ [][FcNext]_fcvars

-----------------------------------------------------------------------------
(* Properties.                                                             *)

(* "verifies the checksum before anyone unpacks or loads anything"         *)
(* (download.go:265): whatever prefixes other sources left, whatever was   *)
(* resumed or sent again, what is unpacked is the file.                    *)
FetchedIsWanted == fpc = "fetched" => disk = [len |-> FileLen, right |-> TRUE]

(* No mixture of attempts grows over the limit (download.go:421).          *)
NeverOverLimit == disk.len <= FetchLimit

(* "a decompression bomb declares whatever it likes" (unpack.go:193): the  *)
(* disk takes what the limit allows and one byte, whatever is declared,    *)
(* and an archive that was accepted keeps every limit.                     *)
UnpackedIsBounded ==
    /\ unpacked.disk <= MaxUnpackedBytes + 1
    /\ unpacked.ok => /\ unpacked.disk <= MaxUnpackedBytes /\ unpacked.disk = unpacked.total
                      /\ unpacked.files <= MaxFiles
=============================================================================
