------------------------------ MODULE JobHistory ------------------------------
(***************************************************************************)
(* The job history as clients see it: Pipeline.ListJobs                    *)
(* (internal/pipeline/pipeline.go) over the jobs table                     *)
(* (internal/store/sqlite/store.go), while jobs are submitted, end and are *)
(* purged.  A caller walks the pages of a listing by its cursor.           *)
(***************************************************************************)
EXTENDS Naturals, Sequences, SequencesExt

CONSTANTS
    HistId,     \* job ids, naturals: their order is the order of the texts
    Stamps,     \* the last instant; several jobs may be created in one
    Limit,      \* rows of a page
    Owner,      \* keys
    Queries     \* what callers list: [owner, admin, status]

ASSUME HistoryAssumption == HistId \subseteq Nat /\ IsFiniteSet(HistId) /\ Limit \in Nat \ {0}

NoRow == [there |-> FALSE, was |-> FALSE]
Gone == [there |-> FALSE, was |-> TRUE]

VARIABLES
    hrows,      \* id -> its row, NoRow or, of a purged one, Gone
    hclock,     \* now
    walk        \* the listing under way

histvars == <<hrows, hclock, walk>>

HistInit ==
    /\ hrows = [i \in HistId |-> NoRow] /\ hclock = 0
    /\ walk = [stage |-> "none"]

-----------------------------------------------------------------------------
(* What the queue and time do.                                             *)
HistCreate(i, o) ==
    /\ hrows[i] = NoRow
    /\ hrows' = [hrows EXCEPT ![i] = [there |-> TRUE, at |-> hclock, owner |-> o, status |-> "queued"]]
    /\ UNCHANGED <<hclock, walk>>

HistEnds(i) ==
    /\ hrows[i].there /\ hrows[i].status = "queued"
    /\ hrows' = [hrows EXCEPT ![i].status = "succeeded"]
    /\ UNCHANGED <<hclock, walk>>

HistTick == hclock < Stamps /\ hclock' = hclock + 1 /\ UNCHANGED <<hrows, walk>>

(* Purge: the jobs that ended longest ago.                                 *)
HistPurge(old) ==
    /\ old # {} /\ \A i \in old : hrows[i].there /\ hrows[i].status # "queued"
    /\ hrows' = [i \in HistId |-> IF i \in old THEN Gone ELSE hrows[i]]
    /\ UNCHANGED <<hclock, walk>>

-----------------------------------------------------------------------------
(* ListJobs and Store.List.                                                *)
Matches(i, f) ==
    /\ hrows[i].there
    /\ f.admin \/ hrows[i].owner = f.owner
    /\ f.status = {} \/ hrows[i].status \in f.status

(* "ORDER BY created_at DESC, id DESC"                                     *)
Sooner(a, b) == a.at > b.at \/ (a.at = b.at /\ a.id > b.id)

(* Mutant: the cursor is the time alone.                                   *)
BeyondTime(cursor, i) == cursor = <<>> \/ hrows[i].at < cursor[1].at

(* The composite comparison with the last row of the page before.          *)
Beyond(cursor, i) == cursor = <<>> \/ Sooner(cursor[1], [at |-> hrows[i].at, id |-> i])

WalkBegins(f) ==
    /\ walk.stage = "none"
    /\ walk' = [stage |-> "walking", filter |-> f, cursor |-> <<>>, seen |-> <<>>,
                start |-> {i \in HistId : Matches(i, f)}]
    /\ UNCHANGED <<hrows, hclock>>

(* All the rows the query finds, in its order.                             *)
Sorted(found) ==
    {s \in [1..Cardinality(found) -> found] :
        Range(s) = found /\ \A x, y \in DOMAIN s : x < y => Sooner(s[x], s[y])}

Found == {[at |-> hrows[i].at, id |-> i] : i \in {j \in HistId : Matches(j, walk.filter) /\ Beyond(walk.cursor, j)}}

(* One more than a page has is asked for, to know whether there is another.*)
ListPage ==
    /\ walk.stage = "walking"
    /\ \E sorted \in Sorted(Found) :
          walk' = IF Len(sorted) > Limit
                  THEN [walk EXCEPT !.seen = @ \o SubSeq(sorted, 1, Limit), !.cursor = <<sorted[Limit]>>]
                  ELSE [walk EXCEPT !.seen = @ \o sorted, !.stage = "done"]
    /\ UNCHANGED <<hrows, hclock>>

HistNext ==
    \/ \E i \in HistId : HistEnds(i) \/ (\E o \in Owner : HistCreate(i, o))
    \/ \E old \in SUBSET HistId : HistPurge(old)
    \/ HistTick \/ ListPage
    \/ \E f \in Queries : WalkBegins(f)

HistSpec == HistInit /\ [][HistNext]_histvars

-----------------------------------------------------------------------------
(* Properties.                                                             *)

(* "Composite comparison, because created_at alone is not unique: two jobs *)
(* submitted in the same millisecond would make a page boundary either     *)
(* skip one or repeat one" (store.go:222): a walk names no job twice and   *)
(* leaves out none that was there all the time.                            *)
WalkIsWhole ==
    walk.stage # "none" =>
        /\ \A x, y \in DOMAIN walk.seen : x < y => Sooner(walk.seen[x], walk.seen[y])
        /\ walk.stage = "done" =>
              \A i \in walk.start : Matches(i, walk.filter) => \E x \in DOMAIN walk.seen : walk.seen[x].id = i
=============================================================================
