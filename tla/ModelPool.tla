----------------------------- MODULE ModelPool -----------------------------
(***************************************************************************)
(* The pool of loaded models (internal/pool/pool.go) with the requests that*)
(* borrow from it and the administrator's operations on it                 *)
(* (internal/service/models.go).                                           *)
(*                                                                         *)
(* A client is a goroutine inside AcquireVariant or holding the lease it   *)
(* returned; loading a model takes no lock, so a load runs between two     *)
(* critical sections of its client.  An entry is the pool's record of one  *)
(* instance, with the recogniser built for it.                             *)
(***************************************************************************)
EXTENDS Weighted

CONSTANTS
    Client,
    Admin,          \* goroutines serving Reload and Delete
    Key,            \* instances: the base instance of a model or a variant
    Base,           \* Base[k]: the base instance of the same model
    Entry,          \* records; more than can be in use at once
    None,
    Rss,            \* Rss[k]: resources.approx_rss_mb
    MaxResident, MaxRss, MaxVariants

ASSUME PoolAssumption ==
    /\ IsFiniteSet(Client) /\ IsFiniteSet(Key) /\ IsFiniteSet(Entry)
    /\ Base \in [Key -> Key]
    /\ \A k \in Key : Base[Base[k]] = Base[k]
    /\ None \notin Entry \cup Key
    /\ Rss \in [Key -> Nat]
    /\ MaxResident \in Nat \ {0} /\ MaxRss \in Nat \ {0} /\ MaxVariants \in Nat

VARIABLES
    current,    \* Pool.current: the entry serving a key, or None
    draining,   \* entries in state ModelDraining that are still in use
    loading,    \* entries whose ready channel is open
    failed,     \* entries with a loadErr
    open,       \* entries whose recogniser has been built and not closed
    refs,       \* entry.refs
    pinned,     \* keys whose serving entry is pinned
    lastUsed,   \* lastUsed of the entry serving a key, as a rank
    closer,     \* Close: "open", "waiting", "done"
    pc, want, mine,     \* clients: counter, key asked for, entry concerned
    apc, target,        \* administrators: counter, model
    unpinned,   \* history: unpinned since the last eviction
    stragglers  \* history: entries still leased when Close gave up

tableVars   == <<current, pinned, lastUsed>>
entryVars   == <<draining, loading, failed, open, refs>>
clientVars  == <<pc, want, mine>>
adminVars   == <<apc, target>>
historyVars == <<unpinned, stragglers>>
vars == <<tableVars, entryVars, closer, clientVars, adminVars, historyVars>>

-----------------------------------------------------------------------------
Served(cur) == {k \in Key : cur[k] # None}
Serving(cur) == {cur[k] : k \in Served(cur)}
Variant(k) == Base[k] # k

Init ==
    /\ current = [k \in Key |-> None]
    /\ draining = {} /\ loading = {} /\ failed = {} /\ open = {}
    /\ refs = [e \in Entry |-> 0]
    /\ pinned = {} /\ lastUsed = [k \in Key |-> 0]
    /\ closer = "open"
    /\ pc = [c \in Client |-> "idle"]
    /\ want = [c \in Client |-> None] /\ mine = [c \in Client |-> None]
    /\ apc = [a \in Admin |-> "idle"] /\ target = [a \in Admin |-> None]
    /\ unpinned = FALSE /\ stragglers = {}

(* A record nobody can reach any more may be used for a new entry.         *)
Free(e) ==
    /\ e \notin Serving(current) \cup draining \cup open
    /\ \A c \in Client : mine[c] # e

(* lastUsed = now, in table cur: k comes last, the others keep their order.*)
Touch(k, cur) ==
    lastUsed' = [x \in Key |->
        IF x \notin Served(cur) THEN 0
        ELSE IF x = k THEN Cardinality(Served(cur))
        ELSE Cardinality({y \in Served(cur) \ {k} : lastUsed[y] <= lastUsed[x]})]

Without(cur, V) == [k \in Key |-> IF k \in V THEN None ELSE cur[k]]

-----------------------------------------------------------------------------
(* Limits and victims of a table cur, for loading = ld and refs = rf.      *)

OverLimit(cur, ld) ==
    \/ Cardinality(Served(cur)) > MaxResident
    \/ Weight({k \in Served(cur) : cur[k] \notin ld}, Rss) > MaxRss

(* Mutant: models with leases are candidates.                              *)
IdleOrLeased(cur, ld, rf) == {k \in Served(cur) \ pinned : cur[k] \notin ld}

(* Ready, without leases, not pinned.                                      *)
Idle(cur, ld, rf) ==
    {k \in Served(cur) \ pinned : rf[cur[k]] = 0 /\ cur[k] \notin ld}

(* lruVictimLocked: variants first, then by age.                           *)
Sooner(j, k) ==
    \/ Variant(j) /\ ~Variant(k)
    \/ Variant(j) = Variant(k) /\ lastUsed'[j] < lastUsed'[k]

(* What the loop of evictLocked takes from the idle models I: the shortest *)
(* run of victims that brings the pool within its limits, or all of them.  *)
Evicts(cur, I, V) ==
    /\ \A j \in V, k \in I \ V : Sooner(j, k)
    /\ V = I \/ ~OverLimit(Without(cur, V), loading')
    /\ \A last \in V : (\A j \in V \ {last} : Sooner(j, last))
                          => OverLimit(Without(cur, V \ {last}), loading')

(* Eviction, as the last thing a critical section does: cur and built are  *)
(* the table and the recognisers as the section has left them.             *)
Reclaim(cur, built) ==
    LET I == Idle(cur, loading', refs') IN
    \E V \in SUBSET I :
        /\ Evicts(cur, I, V)
        /\ current' = Without(cur, V)
        /\ open' = built \ {cur[k] : k \in V}
        /\ pinned' = pinned \cap Served(cur)
        /\ unpinned' = FALSE

-----------------------------------------------------------------------------
(* AcquireVariant.                                                         *)

Goto(c, from, to) ==
    /\ pc[c] = from
    /\ pc' = [pc EXCEPT ![c] = to]
    /\ UNCHANGED <<closer, adminVars, stragglers>>

(* The client's request is over, for it or for good.                       *)
GiveUp(c, from) ==
    /\ Goto(c, from, "idle")
    /\ want' = [want EXCEPT ![c] = None]
    /\ mine' = [mine EXCEPT ![c] = None]

(* refs++ on the entry serving the client's key.                           *)
Lease(c, from) ==
    /\ Goto(c, from, "leased")
    /\ refs' = [refs EXCEPT ![current[want[c]]] = @ + 1]
    /\ mine' = [mine EXCEPT ![c] = current[want[c]]]
    /\ Touch(want[c], current)
    /\ UNCHANGED want

Ask(c, k) ==
    /\ Goto(c, "idle", IF Variant(k) THEN "admitting" ELSE "trying")
    /\ want' = [want EXCEPT ![c] = k]
    /\ UNCHANGED <<tableVars, entryVars, mine, unpinned>>

(* admitVariant: the check, in a critical section of its own.              *)
AdmitVariant(c) ==
    LET resident == {v \in Served(current) : Variant(v) /\ Base[v] = Base[want[c]]}
        admits == MaxVariants > 0
                  /\ (want[c] \in resident \/ Cardinality(resident) < MaxVariants)
    IN
    /\ pc[c] = "admitting"
    /\ \/ admits /\ Goto(c, "admitting", "trying") /\ UNCHANGED <<want, mine>>
       \/ ~admits /\ GiveUp(c, "admitting")
    /\ UNCHANGED <<tableVars, entryVars, unpinned>>

TryClosed(c) ==
    /\ closer # "open"
    /\ GiveUp(c, "trying")
    /\ UNCHANGED <<tableVars, entryVars, unpinned>>

Ready(k) == current[k] # None /\ current[k] \notin loading

TryReady(c) ==
    /\ closer = "open" /\ pc[c] = "trying" /\ Ready(want[c])
    /\ Lease(c, "trying")
    /\ UNCHANGED <<current, pinned, draining, loading, failed, open, unpinned>>

TryWait(c) ==
    /\ closer = "open" /\ pc[c] = "trying"
    /\ current[want[c]] \in loading
    /\ Goto(c, "trying", "waiting")
    /\ mine' = [mine EXCEPT ![c] = current[want[c]]]
    /\ UNCHANGED <<tableVars, entryVars, want, unpinned>>

(* Nothing serves the key: a placeholder claims it.                        *)
TryLoad(c) ==
    /\ closer = "open" /\ pc[c] = "trying"
    /\ current[want[c]] = None
    /\ Goto(c, "trying", "loading")
    /\ \E e \in Entry :
          /\ Free(e)
          /\ current' = [current EXCEPT ![want[c]] = e]
          /\ mine' = [mine EXCEPT ![c] = e]
          /\ loading' = loading \cup {e} /\ failed' = failed \ {e}
          /\ refs' = [refs EXCEPT ![e] = 0]
    /\ pinned' = pinned \ {want[c]}
    /\ Touch(want[c], current')
    /\ UNCHANGED <<draining, open, want, unpinned>>

(* ready was closed: an error is final, anything else is looked at again.  *)
WaitOver(c) ==
    /\ pc[c] = "waiting" /\ mine[c] \notin loading
    /\ \/ mine[c] \in failed /\ GiveUp(c, "waiting")
       \/ /\ mine[c] \notin failed
          /\ Goto(c, "waiting", "trying")
          /\ mine' = [mine EXCEPT ![c] = None]
          /\ UNCHANGED want
    /\ UNCHANGED <<tableVars, entryVars, unpinned>>

WaitTimesOut(c) ==
    /\ GiveUp(c, "waiting")
    /\ UNCHANGED <<tableVars, entryVars, unpinned>>

(* Mutant: the failed load removes whatever serves the key.                *)
LoadFailsBlindly(c) ==
    /\ GiveUp(c, "loading")
    /\ loading' = loading \ {mine[c]} /\ failed' = failed \cup {mine[c]}
    /\ current' = [current EXCEPT ![want[c]] = None]
    /\ pinned' = pinned \cap Served(current')
    /\ UNCHANGED <<lastUsed, draining, open, refs, unpinned>>

(* materialise failed: only the client's own placeholder is removed.       *)
LoadFails(c) ==
    /\ GiveUp(c, "loading")
    /\ loading' = loading \ {mine[c]} /\ failed' = failed \cup {mine[c]}
    /\ current' = [current EXCEPT ![want[c]] = IF @ = mine[c] THEN None ELSE @]
    /\ pinned' = pinned \cap Served(current')
    /\ UNCHANGED <<lastUsed, draining, open, refs, unpinned>>

(* Mutant: the new model does not push anything out.                       *)
LoadSucceedsOnly(c) ==
    /\ pc[c] = "loading" /\ current[want[c]] = mine[c]
    /\ Lease(c, "loading")
    /\ loading' = loading \ {mine[c]} /\ open' = open \cup {mine[c]}
    /\ UNCHANGED <<current, pinned, draining, failed, unpinned>>

LoadSucceeds(c) ==
    /\ pc[c] = "loading" /\ current[want[c]] = mine[c]
    /\ Lease(c, "loading")
    /\ loading' = loading \ {mine[c]}
    /\ Reclaim(current, open \cup {mine[c]})
    /\ UNCHANGED <<draining, failed>>

(* Mutant: the retired load takes the key back.                            *)
LoadResurrects(c) ==
    /\ pc[c] = "loading" /\ current[want[c]] # mine[c]
    /\ Goto(c, "loading", "leased")
    /\ loading' = loading \ {mine[c]} /\ open' = open \cup {mine[c]}
    /\ refs' = [refs EXCEPT ![mine[c]] = 1]
    /\ current' = [current EXCEPT ![want[c]] = mine[c]]
    /\ UNCHANGED <<pinned, lastUsed, draining, failed, want, mine, unpinned>>

(* Mutant: ready is not closed when the load was retired.                  *)
LoadSilent(c) ==
    /\ pc[c] = "loading" /\ current[want[c]] # mine[c]
    /\ GiveUp(c, "loading")
    /\ UNCHANGED <<tableVars, entryVars, unpinned>>

(* Mutant: the fresh entry is handed out without counting the lease.       *)
LoadRetiredUncounted(c) ==
    /\ pc[c] = "loading" /\ current[want[c]] # mine[c] /\ Ready(want[c])
    /\ Goto(c, "loading", "leased")
    /\ loading' = loading \ {mine[c]}
    /\ mine' = [mine EXCEPT ![c] = current[want[c]]]
    /\ UNCHANGED <<tableVars, draining, failed, open, refs, want, unpinned>>

(* The placeholder was retired meanwhile: the recogniser just built is     *)
(* closed, and a fresh entry serves the client if there is one.            *)
LoadRetired(c) ==
    /\ pc[c] = "loading" /\ current[want[c]] # mine[c]
    /\ loading' = loading \ {mine[c]}
    /\ \/ /\ Ready(want[c])
          /\ Lease(c, "loading")
          /\ UNCHANGED failed
       \/ /\ ~Ready(want[c])
          /\ GiveUp(c, "loading")
          /\ failed' = failed \cup {mine[c]}
          /\ UNCHANGED <<refs, lastUsed>>
    /\ UNCHANGED <<current, pinned, draining, open, unpinned>>

(* lastUsed = now on an entry that may have stopped serving.               *)
TouchMine(c) ==
    IF current[want[c]] = mine[c] THEN Touch(want[c], current) ELSE UNCHANGED lastUsed

(* Mutant: a drained entry stays open.                                     *)
ReleaseKeepsDrained(c) ==
    /\ GiveUp(c, "leased")
    /\ refs' = [refs EXCEPT ![mine[c]] = @ - 1]
    /\ TouchMine(c)
    /\ UNCHANGED <<draining, loading, failed>>
    /\ Reclaim(current, open)

(* Mutant: the release does not look at the limits.                        *)
ReleaseOnly(c) ==
    LET last == {e \in draining : e = mine[c] /\ refs[e] = 1} IN
    /\ GiveUp(c, "leased")
    /\ refs' = [refs EXCEPT ![mine[c]] = @ - 1]
    /\ TouchMine(c)
    /\ draining' = draining \ last /\ open' = open \ last
    /\ UNCHANGED <<current, pinned, loading, failed, unpinned>>

(* release: the last lease of a drained entry closes it.                   *)
Release(c) ==
    LET last == {e \in draining : e = mine[c] /\ refs[e] <= 1} IN
    /\ GiveUp(c, "leased")
    /\ refs' = [refs EXCEPT ![mine[c]] = IF @ > 0 THEN @ - 1 ELSE 0]
    /\ TouchMine(c)
    /\ draining' = draining \ last
    /\ UNCHANGED <<loading, failed>>
    /\ Reclaim(current, open \ last)

Acquiring(c) ==
    \/ AdmitVariant(c) \/ TryClosed(c) \/ TryReady(c) \/ TryWait(c) \/ TryLoad(c)
    \/ WaitOver(c)
Loading(c) == LoadFails(c) \/ LoadSucceeds(c) \/ LoadRetired(c)

-----------------------------------------------------------------------------
(* Reload, Unload, Pin, Sweep, Delete, Close.                              *)

Instances(k) == {x \in Served(current) : Base[x] = k}
InUse(E) == {e \in E : refs[e] > 0}

(* retireLocked for the keys R: what is in use drains, the rest is closed. *)
Drain(R) == draining' = draining \cup InUse({current[k] : k \in R})

(* Mutant: entries in use are closed with the others.                      *)
ClosingInUse(R) == {current[k] : k \in R}

Closing(R) == {current[k] : k \in R} \ InUse(Entry)

GotoAdmin(a, from, to, k) ==
    /\ apc[a] = from
    /\ apc' = [apc EXCEPT ![a] = to]
    /\ target' = [target EXCEPT ![a] = k]
    /\ UNCHANGED <<closer, clientVars, stragglers>>

(* Reload builds the new instance without the lock.                        *)
ReloadStart(a, k) ==
    /\ ~Variant(k)
    /\ GotoAdmin(a, "idle", "building", k)
    /\ UNCHANGED <<tableVars, entryVars, unpinned>>

(* materialise failed, or the revision is not the one asked for.           *)
ReloadFails(a) ==
    /\ GotoAdmin(a, "building", "idle", None)
    /\ UNCHANGED <<tableVars, entryVars, unpinned>>

(* The swap. Nothing asks whether the pool has been closed meanwhile. The  *)
(* new entry inherits the pin: pinned keeps the key.                       *)
ReloadInstalls(a) ==
    LET k == target[a]
        R == Instances(k)
    IN
    /\ GotoAdmin(a, "building", "idle", None)
    /\ \E e \in Entry :
          LET swapped == [Without(current, R) EXCEPT ![k] = e] IN
          /\ Free(e)
          /\ refs' = [refs EXCEPT ![e] = 0]
          /\ Touch(k, swapped)
          /\ Drain(R)
          /\ UNCHANGED <<loading, failed>>
          /\ Reclaim(swapped, (open \ Closing(R)) \cup {e})

(* retireLocked and retireVariantsLocked.                                  *)
Retire(R) ==
    /\ current' = Without(current, R)
    /\ pinned' = pinned \ R
    /\ Drain(R)
    /\ open' = open \ Closing(R)
    /\ UNCHANGED <<lastUsed, loading, failed, refs>>

(* Mutant: the pin outlives the entry.                                     *)
UnloadKeepsPin(k) ==
    /\ ~Variant(k) /\ current[k] # None
    /\ current' = Without(current, Instances(k))
    /\ Drain(Instances(k))
    /\ open' = open \ Closing(Instances(k))
    /\ UNCHANGED <<lastUsed, loading, failed, refs, pinned, closer, clientVars,
                   adminVars, historyVars>>

Unload(k) ==
    /\ ~Variant(k) /\ current[k] # None
    /\ Retire(Instances(k))
    /\ UNCHANGED <<closer, clientVars, adminVars, historyVars>>

Pin(k, b) ==
    /\ ~Variant(k) /\ current[k] # None
    /\ pinned' = IF b THEN pinned \cup {k} ELSE pinned \ {k}
    /\ unpinned' = (unpinned \/ ~b)
    /\ UNCHANGED <<current, lastUsed, entryVars, closer, clientVars, adminVars, stragglers>>

(* Sweep: oldest is the rank up to which models have been idle too long.   *)
Sweep(oldest) ==
    LET V == {k \in Idle(current, loading, refs) : lastUsed[k] <= oldest} IN
    /\ V # {}
    /\ Retire(V)
    /\ UNCHANGED <<closer, clientVars, adminVars, historyVars>>

(* Models.Delete: the look at the list of serving instances ...            *)
DeleteCheck(a, k) ==
    /\ ~Variant(k)
    /\ InUse({current[x] : x \in Instances(k)}) = {}
    /\ GotoAdmin(a, "idle", "checked", k)
    /\ UNCHANGED <<tableVars, entryVars, unpinned>>

(* ... Unload, which may find nothing to unload ...                        *)
DeleteUnload(a) ==
    LET k == target[a] IN
    /\ GotoAdmin(a, "checked", "removing", k)
    /\ Retire(IF current[k] = None THEN {} ELSE Instances(k))
    /\ UNCHANGED unpinned

(* ... and the removal of the files.                                       *)
DeleteRemove(a) ==
    /\ GotoAdmin(a, "removing", "idle", None)
    /\ UNCHANGED <<tableVars, entryVars, unpinned>>

CloseBegin ==
    /\ closer = "open"
    /\ closer' = "waiting"
    /\ UNCHANGED <<tableVars, entryVars, clientVars, adminVars, historyVars>>

(* The leases are back or closeDrainTimeout has passed. Pool.draining is   *)
(* forgotten; the state of an entry on it stays, and so does release's     *)
(* duty to close it.                                                       *)
CloseEnd ==
    /\ closer = "waiting"
    /\ closer' = "done"
    /\ stragglers' = InUse(Serving(current) \cup draining)
    /\ current' = [k \in Key |-> None] /\ pinned' = {}
    /\ draining' = InUse(draining)
    /\ open' = (open \ (Serving(current) \cup draining)) \cup stragglers'
    /\ UNCHANGED <<lastUsed, loading, failed, refs, clientVars, adminVars, unpinned>>

-----------------------------------------------------------------------------
AdminStep(a) ==
    \/ \E k \in Key : ReloadStart(a, k) \/ DeleteCheck(a, k)
    \/ ReloadFails(a) \/ ReloadInstalls(a) \/ DeleteUnload(a) \/ DeleteRemove(a)

Next ==
    \/ \E c \in Client : \/ \E k \in Key : Ask(c, k)
                         \/ Acquiring(c) \/ Loading(c) \/ WaitTimesOut(c) \/ Release(c)
    \/ \E a \in Admin : AdminStep(a)
    \/ \E k \in Key : Unload(k) \/ \E b \in BOOLEAN : Pin(k, b)
    \/ \E oldest \in 1..Cardinality(Key) : Sweep(oldest)
    \/ CloseBegin \/ CloseEnd

Spec == Init /\ [][Next]_vars

(* A load ends, by the client's deadline if by nothing else; a waiter that *)
(* can go on does; a request ends and its handler releases the lease.      *)
Fairness ==
    \A c \in Client : WF_vars(Acquiring(c)) /\ WF_vars(Loading(c)) /\ WF_vars(Release(c))

FairSpec == Spec /\ Fairness

-----------------------------------------------------------------------------
(* Types of the variables of the pool, its clients and administrators; an  *)
(* entry serves one key, and only what serves is pinned.                   *)
TypeOK ==
    /\ current \in [Key -> Entry \cup {None}]
    /\ \A j, k \in Served(current) : current[j] = current[k] => j = k
    /\ draining \subseteq Entry /\ loading \subseteq Entry
    /\ failed \subseteq Entry /\ open \subseteq Entry
    /\ refs \in [Entry -> Nat]
    /\ pinned \subseteq Served(current) /\ lastUsed \in [Key -> 0..Cardinality(Key)]
    /\ closer \in {"open", "waiting", "done"}
    /\ pc \in [Client -> {"idle", "admitting", "trying", "waiting", "loading", "leased"}]
    /\ want \in [Client -> Key \cup {None}] /\ mine \in [Client -> Entry \cup {None}]
    /\ apc \in [Admin -> {"idle", "building", "checked", "removing"}]
    /\ target \in [Admin -> Key \cup {None}]
    /\ unpinned \in BOOLEAN /\ stragglers \subseteq Entry

Users(e) == {c \in Client : pc[c] = "leased" /\ mine[c] = e}

(* Nobody decodes on a recogniser that has been closed, whatever evicts,   *)
(* unloads, swaps or shuts down meanwhile: "an entry with refs > 0 is      *)
(* never unloaded".                                                        *)
LeasesAreOpen == \A e \in Entry : Users(e) # {} => e \in open

(* The reference count is the number of leases out, for every path by      *)
(* which AcquireVariant hands one out and for release.                     *)
RefsExact == \A e \in Entry : refs[e] = Cardinality(Users(e))

(* An open recogniser is reachable: it serves, it drains, or Close left it *)
(* to its last user. In particular a load that lost its placeholder closes *)
(* what it built, and a failed load does not drop a model a Reload         *)
(* installed meanwhile.                                                    *)
NothingLeaks == open \subseteq Serving(current) \cup draining \cup stragglers

(* What drains is in use: release closes it with its last lease, and       *)
(* nothing that is not leased is kept waiting.                             *)
DrainingInUse == \A e \in draining : e \notin Serving(current) /\ Users(e) # {}

(* "the pool can legitimately sit over its limit while everything is in    *)
(* use" (evictLocked): no idle model is kept while the pool is over its    *)
(* limits, unless a load is in flight or an administrator has just         *)
(* unpinned one.                                                           *)
OverOnlyInUse ==
    OverLimit(current, loading) =>
        \/ Idle(current, loading, refs) = {}
        \/ Serving(current) \cap loading # {}
        \/ unpinned

(* A placeholder retired while it was loading never serves: a load does    *)
(* not resurrect a model an explicit Unload or Reload just retired.        *)
UnloadIsFinal ==
    [][\A e \in loading : e \notin Serving(current) => e \notin Serving(current')]_vars

(* Whoever waits for another request's load is woken, whether it succeeds, *)
(* fails or is retired.                                                    *)
WaitersWake == \A c \in Client : pc[c] = "waiting" ~> pc[c] # "waiting"

(* A hot swap completes: what drains is closed in the end.                 *)
SwapsComplete == \A e \in Entry : e \in draining ~> e \notin open

(* A hot swap in full: whoever decodes has a model that is open, none is   *)
(* open that nobody will close, and what is over the limit is in use       *)
(* (pool.go:272, pool.go:353, pool.go:408).                                *)
SwapsAreSafe == TypeOK /\ LeasesAreOpen /\ RefsExact /\ NothingLeaks /\ DrainingInUse /\ OverOnlyInUse

(* ... and it comes to its end: waiters are woken, retired models close.   *)
SwapsEnd == WaitersWake /\ SwapsComplete
=============================================================================
