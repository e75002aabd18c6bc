--------------------------- MODULE ModelPoolProofs ---------------------------
(***************************************************************************)
(* Theorems about the pool of models, for every finite set of clients,     *)
(* models, variants and records, every resident-set size and every limit.  *)
(***************************************************************************)
EXTENDS ModelPool

-----------------------------------------------------------------------------
(* The inductive invariant: SwapsAreSafe and what it rests on.             *)

(* A request in progress has a key; it is tied to an entry from the moment *)
(* it waits for it, loads it or holds it; administrators name models.      *)
ClientsFit ==
    /\ \A c \in Client : pc[c] # "idle" => want[c] \in Key
    /\ \A c \in Client : mine[c] # None <=> pc[c] \in {"waiting", "loading", "leased"}
    /\ \A a \in Admin : apc[a] # "idle" => target[a] \in Key /\ ~Variant(target[a])

(* Every entry being loaded has exactly one client loading it, is in       *)
(* nobody's use, and serves no other key than that client's, if any.       *)
LoadsFit ==
    /\ \A c \in Client : pc[c] = "loading" => mine[c] \in loading
    /\ \A c, d \in Client :
          pc[c] = "loading" /\ pc[d] = "loading" /\ mine[c] = mine[d] => c = d
    /\ \A e \in loading : \E c \in Client : pc[c] = "loading" /\ mine[c] = e
    /\ \A e \in loading : Users(e) = {} /\ e \notin open \cup draining
    /\ \A c \in Client, k \in Key :
          pc[c] = "loading" /\ current[k] = mine[c] => want[c] = k

(* What serves has a recogniser or is getting one.                         *)
ServingIsOpen == Serving(current) \subseteq loading \cup open

(* OverOnlyInUse without the placeholders: a load may start over an idle   *)
(* model and fail, and the limits must hold of what is then left.          *)
Settled == {k \in Served(current) : current[k] \notin loading}
SettledFits ==
    \/ Cardinality(Settled) <= MaxResident /\ Weight(Settled, Rss) <= MaxRss
    \/ Idle(current, loading, refs) = {}
    \/ unpinned

(* Only Close leaves leases behind.                                        *)
StragglersAreClosed == closer # "done" => stragglers = {}

PoolInv ==
    /\ TypeOK /\ ClientsFit /\ LoadsFit
    /\ ServingIsOpen /\ LeasesAreOpen /\ RefsExact /\ NothingLeaks /\ DrainingInUse
    /\ SettledFits /\ StragglersAreClosed

-----------------------------------------------------------------------------
(* Facts about tables, limits and counts.                                  *)

(* Fewer models are no heavier.                                            *)
LEMMA FewerFit ==
    ASSUME NEW A, NEW B, A \subseteq B, B \subseteq Key
    PROVE  /\ IsFiniteSet(A)
           /\ Cardinality(A) \in Nat /\ Cardinality(B) \in Nat
           /\ Weight(A, Rss) \in Nat /\ Weight(B, Rss) \in Nat
           /\ Cardinality(A) <= Cardinality(B)
           /\ Weight(A, Rss) <= Weight(B, Rss)
<1>1. IsFiniteSet(B) /\ \A k \in B : Rss[k] \in Nat
  BY PoolAssumption, FS_Subset
<1>2. IsFiniteSet(A) /\ Cardinality(A) <= Cardinality(B)
  BY <1>1, FS_Subset
<1>3. Cardinality(A) \in Nat /\ Cardinality(B) \in Nat
  BY <1>1, <1>2, FS_CardinalityType
<1>4. Weight(A, Rss) <= Weight(B, Rss)
  BY <1>1, WeightMonotone
<1>5. Weight(A, Rss) \in Nat /\ Weight(B, Rss) \in Nat
  <2>1. \A k \in A : Rss[k] \in Nat
    BY <1>1
  <2>. QED  BY <1>1, <1>2, <2>1, WeightNat
<1>. QED  BY <1>2, <1>3, <1>4, <1>5

(* A rank of lastUsed never exceeds the number of keys.                    *)
LEMMA TouchType ==
    ASSUME NEW k \in Key, NEW cur, Touch(k, cur)
    PROVE  lastUsed' \in [Key -> 0..Cardinality(Key)]
<1>1. ASSUME NEW A \in SUBSET Key PROVE Cardinality(A) \in 0..Cardinality(Key)
  BY FewerFit
<1>2. Cardinality(Served(cur)) \in 0..Cardinality(Key)
  BY <1>1 DEF Served
<1>3. ASSUME NEW x \in Key
      PROVE  Cardinality({y \in Served(cur) \ {k} : lastUsed[y] <= lastUsed[x]})
                 \in 0..Cardinality(Key)
  BY <1>1 DEF Served
<1>4. 0 \in 0..Cardinality(Key)
  BY FewerFit
<1> HIDE DEF Served
<1>. QED  BY <1>2, <1>3, <1>4, Zenon DEF Touch

(* The entry is in use exactly when its count is positive.                 *)
LEMMA CountIsUse ==
    ASSUME PoolInv, NEW e \in Entry
    PROVE  /\ refs[e] \in Nat
           /\ refs[e] > 0 <=> Users(e) # {}
           /\ refs[e] = 0 <=> Users(e) = {}
<1>1. IsFiniteSet(Users(e))
  BY PoolAssumption, FS_Subset DEF Users
<1>2. Cardinality(Users(e)) \in Nat /\ (Cardinality(Users(e)) = 0 <=> Users(e) = {})
  BY <1>1, FS_EmptySet, FS_CardinalityType
<1>. QED  BY <1>2 DEF PoolInv, RefsExact

(* A record nobody can reach is nobody's load and nobody's lease.          *)
LEMMA FreeIsFresh ==
    ASSUME PoolInv, NEW e \in Entry, Free(e)
    PROVE  /\ e # None /\ e \notin loading /\ Users(e) = {} /\ refs[e] = 0
           /\ \A k \in Key : current[k] # e
           /\ \A c \in Client : mine[c] # e
<1>1. e # None
  BY PoolAssumption
<1>2. e \notin loading
  BY DEF PoolInv, LoadsFit, Free
<1>3. Users(e) = {}
  BY DEF Users, Free
<1>4. \A k \in Key : current[k] # e
  BY <1>1 DEF Free, Serving, Served
<1>. QED  BY <1>1, <1>2, <1>3, <1>4, CountIsUse DEF Free

(* A lease more and a lease less change the number of users by one.        *)
LEMMA OneUserMore ==
    ASSUME NEW U \in SUBSET Client, NEW c \in Client, c \notin U
    PROVE  Cardinality(U \cup {c}) = Cardinality(U) + 1
BY PoolAssumption, FS_Subset, FS_AddElement

(* One user gone from a finite set of users is one less in the count.      *)
LEMMA OneUserLess ==
    ASSUME NEW U \in SUBSET Client, NEW c \in U
    PROVE  Cardinality(U \ {c}) = Cardinality(U) - 1
BY PoolAssumption, FS_Subset, FS_RemoveElement

-----------------------------------------------------------------------------
(* A new pool serves nothing and holds nothing.                            *)
LEMMA PoolInvInit == Init => PoolInv
<1> SUFFICES ASSUME Init PROVE PoolInv
  OBVIOUS
<1> USE PoolAssumption DEF Init
<1>1. Served(current) = {} /\ Serving(current) = {} /\ \A e \in Entry : Users(e) = {}
  BY DEF Served, Serving, Users
<1>2. TypeOK
  <2>1. 0 \in 0..Cardinality(Key)
    BY FewerFit
  <2>. QED  BY <1>1, <2>1 DEF TypeOK
<1>3. ClientsFit /\ LoadsFit
  BY DEF ClientsFit, LoadsFit
<1>4. RefsExact
  BY <1>1, FS_EmptySet DEF RefsExact
<1>5. Idle(current, loading, refs) = {}
  BY <1>1 DEF Idle
<1>. QED
  BY <1>1, <1>2, <1>3, <1>4, <1>5 DEF PoolInv, ServingIsOpen, LeasesAreOpen,
     NothingLeaks, DrainingInUse, SettledFits, StragglersAreClosed

(* Steps that only move clients that neither load nor hold, or             *)
(* administrators, or Close.                                               *)
LEMMA QuietStep ==
    ASSUME PoolInv, TypeOK', ClientsFit',
           UNCHANGED <<current, pinned, draining, loading, open, refs, stragglers, unpinned>>,
           closer' # "done" => closer # "done",
           \A c \in Client :
              /\ pc'[c] = "leased" <=> pc[c] = "leased"
              /\ pc'[c] = "loading" <=> pc[c] = "loading"
              /\ pc[c] \in {"loading", "leased"} => mine'[c] = mine[c] /\ want'[c] = want[c]
    PROVE  PoolInv'
<1>1. \A e \in Entry : Users(e)' = Users(e)
  BY DEF Users
<1>2. LoadsFit'
  <2> USE DEF PoolInv, LoadsFit
  <2>1. \A c \in Client : pc'[c] = "loading" => mine'[c] \in loading'
    OBVIOUS
  <2>2. \A c, d \in Client :
          pc'[c] = "loading" /\ pc'[d] = "loading" /\ mine'[c] = mine'[d] => c = d
    OBVIOUS
  <2>3. \A e \in loading' : \E c \in Client : pc'[c] = "loading" /\ mine'[c] = e
    OBVIOUS
  <2>4. \A e \in loading' : Users(e)' = {} /\ e \notin open' \cup draining'
    BY <1>1 DEF TypeOK
  <2>5. \A c \in Client, k \in Key :
          pc'[c] = "loading" /\ current'[k] = mine'[c] => want'[c] = k
    OBVIOUS
  <2>. QED  BY <2>1, <2>2, <2>3, <2>4, <2>5
<1>3. RefsExact' /\ LeasesAreOpen'
  BY <1>1 DEF PoolInv, RefsExact, LeasesAreOpen
<1>4. DrainingInUse'
  BY <1>1 DEF PoolInv, DrainingInUse, Serving, Served, TypeOK
<1>5. SettledFits'
  BY DEF PoolInv, SettledFits, Settled, Idle, Served
<1>. QED
  BY <1>2, <1>3, <1>4, <1>5 DEF PoolInv, ServingIsOpen, NothingLeaks, StragglersAreClosed,
     Serving, Served

(* A client asks for a key: it is tied to no entry yet.                    *)
LEMMA AskKeepsInv ==
    ASSUME PoolInv, NEW c \in Client, NEW k \in Key, Ask(c, k)
    PROVE  PoolInv'
<1> USE DEF PoolInv, Ask, Goto, tableVars, entryVars, adminVars
<1>1. TypeOK'
  BY DEF TypeOK, Served
<1>2. ClientsFit'
  BY <1>1, PoolAssumption DEF ClientsFit, TypeOK
<1>. QED  BY <1>1, <1>2, QuietStep DEF TypeOK

(* AdmitVariant, a refusal of a closed pool, a wait begun, ended or timed  *)
(* out.                                                                    *)
LEMMA QuietAcquireKeepsInv ==
    ASSUME PoolInv, NEW c \in Client,
           AdmitVariant(c) \/ TryClosed(c) \/ TryWait(c) \/ WaitOver(c) \/ WaitTimesOut(c)
    PROVE  PoolInv'
<1> USE DEF PoolInv, AdmitVariant, TryClosed, TryWait, WaitOver, WaitTimesOut, GiveUp, Goto,
            tableVars, entryVars, adminVars
<1>1. TypeOK'
  BY DEF TypeOK, Served
<1>2. ClientsFit'
  BY <1>1, PoolAssumption DEF ClientsFit, TypeOK
<1>. QED  BY <1>1, <1>2, QuietStep DEF TypeOK

(* The steps of an administrator that leave the pool alone, and the        *)
(* beginning of Close.                                                     *)
LEMMA QuietAdminKeepsInv ==
    ASSUME PoolInv,
           \/ CloseBegin
           \/ \E a \in Admin : \/ \E k \in Key : ReloadStart(a, k) \/ DeleteCheck(a, k)
                               \/ ReloadFails(a) \/ DeleteRemove(a)
    PROVE  PoolInv'
<1> USE DEF PoolInv, CloseBegin, ReloadStart, DeleteCheck, ReloadFails, DeleteRemove, GotoAdmin,
            tableVars, entryVars, adminVars, clientVars, historyVars
<1>1. TypeOK'
  BY DEF TypeOK, Served
<1>2. ClientsFit'
  BY DEF ClientsFit, TypeOK
<1>. QED  BY <1>1, <1>2, QuietStep DEF TypeOK

(* Fewer settled models and fewer idle ones: the limits still hold, or     *)
(* still everything is in use.                                             *)
LEMMA FewerSettled ==
    ASSUME PoolInv, Settled' \subseteq Settled,
           Idle(current, loading, refs)' \subseteq Idle(current, loading, refs),
           unpinned => unpinned'
    PROVE  SettledFits'
<1>1. Settled \subseteq Key
  BY DEF Settled, Served
<1>2. /\ Cardinality(Settled') \in Nat /\ Cardinality(Settled) \in Nat
      /\ Weight(Settled', Rss) \in Nat /\ Weight(Settled, Rss) \in Nat
      /\ Cardinality(Settled') <= Cardinality(Settled)
      /\ Weight(Settled', Rss) <= Weight(Settled, Rss)
  BY <1>1, FewerFit
<1> HIDE DEF Settled
<1>3. CASE Cardinality(Settled) <= MaxResident /\ Weight(Settled, Rss) <= MaxRss
  <2>1. Cardinality(Settled') <= MaxResident
    BY <1>2, <1>3, PoolAssumption
  <2>2. Weight(Settled', Rss) <= MaxRss
    BY <1>2, <1>3, PoolAssumption
  <2>. QED  BY <2>1, <2>2 DEF SettledFits
<1>4. CASE Idle(current, loading, refs) = {} \/ unpinned
  BY <1>4 DEF SettledFits
<1>. QED  BY <1>3, <1>4 DEF PoolInv, SettledFits

(* The administrator pins or unpins a model: only what eviction may take   *)
(* changes, and the limits may now wait for the next eviction.             *)
LEMMA PinKeepsInv ==
    ASSUME PoolInv, NEW k \in Key, NEW b \in BOOLEAN, Pin(k, b)
    PROVE  PoolInv'
<1> USE DEF PoolInv, Pin, entryVars, clientVars, adminVars
<1>1. TypeOK'
  BY DEF TypeOK, Served
<1>2. ClientsFit' /\ LoadsFit'
  BY DEF ClientsFit, LoadsFit, Users
<1>3. SettledFits'
  <2>1. CASE b
    BY <2>1, FewerSettled DEF Settled, Idle, Served
  <2>2. CASE ~b
    BY <2>2 DEF SettledFits
  <2>. QED  BY <2>1, <2>2
<1>. QED
  BY <1>1, <1>2, <1>3 DEF ServingIsOpen, LeasesAreOpen, RefsExact, NothingLeaks, DrainingInUse,
     StragglersAreClosed, Serving, Served, Users

-----------------------------------------------------------------------------
(* Critical sections that end by evicting.                                 *)

(* What Reclaim takes out of a table is idle and closed, nothing else is   *)
(* closed, and afterwards the limits hold or nothing idle is left.         *)
LEMMA ReclaimTakesIdle ==
    ASSUME NEW cur \in [Key -> Entry \cup {None}], NEW built,
           \A j, k \in Served(cur) : cur[j] = cur[k] => j = k,
           Reclaim(cur, built)
    PROVE  /\ current' \in [Key -> Entry \cup {None}]
           /\ \A j, k \in Served(current') : current'[j] = current'[k] => j = k
           /\ pinned' \subseteq Served(current')
           /\ unpinned' = FALSE
           /\ open' \subseteq built
           /\ \A k \in Key : current'[k] \in {cur[k], None}
           /\ \A k \in Served(cur) :
                 IF current'[k] = None
                 THEN cur[k] \notin open' /\ cur[k] \notin loading' /\ refs'[cur[k]] = 0
                 ELSE cur[k] \in built => cur[k] \in open'
           /\ \A e \in built \ open' : \E k \in Served(cur) : cur[k] = e /\ current'[k] = None
           /\ SettledFits'
<1> DEFINE I == Idle(cur, loading', refs')
<1>1. PICK V \in SUBSET I :
          /\ Evicts(cur, I, V)
          /\ current' = Without(cur, V)
          /\ open' = built \ {cur[k] : k \in V}
          /\ pinned' = pinned \cap Served(cur)
          /\ unpinned' = FALSE
  BY DEF Reclaim
<1>2. /\ V \subseteq Served(cur) \ pinned
      /\ \A k \in V : cur[k] \notin loading' /\ refs'[cur[k]] = 0
  BY <1>1 DEF Idle
<1>3. \A k \in Key : current'[k] = IF k \in V THEN None ELSE cur[k]
  BY <1>1 DEF Without
<1>4. current' \in [Key -> Entry \cup {None}]
  BY <1>1 DEF Without
<1>5. Served(current') = Served(cur) \ V
  BY <1>3 DEF Served
<1>6. \A k \in Served(cur) : cur[k] \in {cur[j] : j \in V} <=> k \in V
  BY <1>2
<1>7. \A k \in Served(cur) : current'[k] = None <=> k \in V
  BY <1>3 DEF Served
<1>8. SettledFits'
  <2>1. CASE V = I
    <3>1. Idle(current, loading, refs)' = {}
      <4> SUFFICES ASSUME NEW k \in Served(current') \ pinned',
                          refs'[current'[k]] = 0, current'[k] \notin loading'
                   PROVE  FALSE
        BY DEF Idle
      <4>1. k \in Served(cur) /\ k \notin V /\ current'[k] = cur[k]
        BY <1>3, <1>5 DEF Served
      <4>2. k \notin pinned
        BY <1>1, <4>1
      <4>. QED  BY <2>1, <4>1, <4>2 DEF Idle
    <3>. QED  BY <3>1 DEF SettledFits
  <2>2. CASE ~OverLimit(current', loading')
    <3>1. Settled' = {k \in Served(current') : current'[k] \notin loading'}
      BY DEF Settled
    <3>2. Settled' \subseteq Served(current') /\ Served(current') \subseteq Key
      BY <3>1 DEF Served
    <3>3. /\ ~(Cardinality(Served(current')) > MaxResident)
          /\ ~(Weight(Settled', Rss) > MaxRss)
      BY <2>2, <3>1 DEF OverLimit
    <3>4. /\ Cardinality(Settled') \in Nat /\ Cardinality(Served(current')) \in Nat
          /\ Weight(Settled', Rss) \in Nat
          /\ Cardinality(Settled') <= Cardinality(Served(current'))
      BY <3>2, FewerFit
    <3> HIDE DEF Settled
    <3>5. Cardinality(Settled') <= MaxResident /\ Weight(Settled', Rss) <= MaxRss
      BY <3>3, <3>4, PoolAssumption
    <3>. QED  BY <3>5 DEF SettledFits
  <2>. QED  BY <1>1, <2>1, <2>2 DEF Evicts
<1>9. pinned' \subseteq Served(current') /\ unpinned' = FALSE /\ open' \subseteq built
  BY <1>1, <1>2, <1>5
<1>10. \A j, k \in Served(current') : current'[j] = current'[k] => j = k
  BY <1>3, <1>5 DEF Served
<1>11. \A k \in Key : current'[k] \in {cur[k], None}
  BY <1>3
<1>12. \A k \in Served(cur) :
          IF current'[k] = None
          THEN cur[k] \notin open' /\ cur[k] \notin loading' /\ refs'[cur[k]] = 0
          ELSE cur[k] \in built => cur[k] \in open'
  BY <1>1, <1>2, <1>6, <1>7
<1>13. \A e \in built \ open' : \E k \in Served(cur) : cur[k] = e /\ current'[k] = None
  BY <1>1, <1>2, <1>7
<1> HIDE DEF I
<1>. QED  BY <1>4, <1>8, <1>9, <1>10, <1>11, <1>12, <1>13, Zenon

(* It is enough that the invariant holds of the table and the recognisers  *)
(* as the section has left them.                                           *)
LEMMA ReclaimKeepsInv ==
    ASSUME NEW cur \in [Key -> Entry \cup {None}], NEW built \in SUBSET Entry,
           Reclaim(cur, built),
           \A j, k \in Served(cur) : cur[j] = cur[k] => j = k,
           draining' \subseteq Entry, loading' \subseteq Entry, failed' \subseteq Entry,
           refs' \in [Entry -> Nat], lastUsed' \in [Key -> 0..Cardinality(Key)],
           closer' \in {"open", "waiting", "done"},
           pc' \in [Client -> {"idle", "admitting", "trying", "waiting", "loading", "leased"}],
           want' \in [Client -> Key \cup {None}], mine' \in [Client -> Entry \cup {None}],
           apc' \in [Admin -> {"idle", "building", "checked", "removing"}],
           target' \in [Admin -> Key \cup {None}], stragglers' \subseteq Entry,
           ClientsFit', RefsExact', StragglersAreClosed',
           \A c \in Client : pc'[c] = "loading" => mine'[c] \in loading',
           \A c, d \in Client :
              pc'[c] = "loading" /\ pc'[d] = "loading" /\ mine'[c] = mine'[d] => c = d,
           \A e \in loading' : \E c \in Client : pc'[c] = "loading" /\ mine'[c] = e,
           \A e \in loading' : Users(e)' = {} /\ e \notin built \cup draining',
           \A c \in Client, k \in Key :
              pc'[c] = "loading" /\ cur[k] = mine'[c] => want'[c] = k,
           Serving(cur) \subseteq loading' \cup built,
           \A e \in Entry : Users(e)' # {} => e \in built,
           built \subseteq Serving(cur) \cup draining' \cup stragglers',
           \A e \in draining' : e \notin Serving(cur) /\ Users(e)' # {}
    PROVE  PoolInv'
<1>1. /\ current' \in [Key -> Entry \cup {None}]
      /\ \A j, k \in Served(current') : current'[j] = current'[k] => j = k
      /\ pinned' \subseteq Served(current')
      /\ unpinned' = FALSE
      /\ open' \subseteq built
      /\ \A k \in Key : current'[k] \in {cur[k], None}
      /\ \A k \in Served(cur) :
            IF current'[k] = None
            THEN cur[k] \notin open' /\ cur[k] \notin loading' /\ refs'[cur[k]] = 0
            ELSE cur[k] \in built => cur[k] \in open'
      /\ \A e \in built \ open' : \E k \in Served(cur) : cur[k] = e /\ current'[k] = None
      /\ SettledFits'
  BY ReclaimTakesIdle
<1>2. TypeOK'
  BY <1>1 DEF TypeOK
<1>3. /\ Served(current') \subseteq Served(cur)
      /\ \A k \in Served(current') : current'[k] = cur[k]
      /\ Serving(current') \subseteq Serving(cur)
  BY <1>1 DEF Served, Serving
<1>4. LoadsFit'
  <2>1. \A e \in loading' : Users(e)' = {} /\ e \notin open' \cup draining'
    BY <1>1
  <2>2. \A c \in Client, k \in Key :
           pc'[c] = "loading" /\ current'[k] = mine'[c] => want'[c] = k
    <3> SUFFICES ASSUME NEW c \in Client, NEW k \in Key,
                        pc'[c] = "loading", current'[k] = mine'[c]
                 PROVE  want'[c] = k
      OBVIOUS
    <3>1. current'[k] # None
      BY DEF ClientsFit
    <3>. QED  BY <1>1, <3>1
  <2>. QED  BY <2>1, <2>2 DEF LoadsFit
<1>5. ServingIsOpen'
  BY <1>1, <1>3 DEF ServingIsOpen, Serving, Served
<1>6. LeasesAreOpen'
  <2> SUFFICES ASSUME NEW e \in Entry, Users(e)' # {}
               PROVE  e \in open'
    BY DEF LeasesAreOpen
  <2>1. IsFiniteSet(Users(e)')
    BY PoolAssumption, FS_Subset DEF Users
  <2>2. refs'[e] # 0
    BY <2>1, FS_EmptySet DEF RefsExact
  <2>. QED  BY <1>1, <2>2
<1>7. NothingLeaks'
  <2> SUFFICES ASSUME NEW e \in open', e \notin draining', e \notin stragglers'
               PROVE  e \in Serving(current')
    BY DEF NothingLeaks
  <2>1. PICK k \in Served(cur) : cur[k] = e
    BY <1>1 DEF Serving
  <2>2. current'[k] = e /\ k \in Served(current')
    BY <1>1, <2>1 DEF Served
  <2>. QED  BY <2>2 DEF Serving
<1>8. DrainingInUse'
  BY <1>3 DEF DrainingInUse
<1>. QED  BY <1>1, <1>2, <1>4, <1>5, <1>6, <1>7, <1>8 DEF PoolInv

-----------------------------------------------------------------------------
(* Leases handed out, loads and their ends.                                *)

(* One lease more on e is one user more of e, and of nothing else.         *)
LEMMA LeaseCounts ==
    ASSUME PoolInv, NEW c \in Client, pc[c] # "leased", NEW e \in Entry,
           pc' = [pc EXCEPT ![c] = "leased"], mine' = [mine EXCEPT ![c] = e],
           refs' = [refs EXCEPT ![e] = @ + 1]
    PROVE  /\ Users(e)' = Users(e) \cup {c}
           /\ \A x \in Entry \ {e} : Users(x)' = Users(x)
           /\ refs' \in [Entry -> Nat] /\ RefsExact'
           /\ \A x \in Entry : refs'[x] >= refs[x]
<1> USE DEF PoolInv, TypeOK
<1>1. Users(e)' = Users(e) \cup {c} /\ c \notin Users(e)
  BY DEF Users
<1>2. \A x \in Entry \ {e} : Users(x)' = Users(x)
  BY DEF Users
<1>3. Cardinality(Users(e) \cup {c}) = Cardinality(Users(e)) + 1
  BY <1>1, OneUserMore DEF Users
<1>4. RefsExact'
  BY <1>1, <1>2, <1>3 DEF RefsExact
<1>. QED  BY <1>1, <1>2, <1>4

(* A client that finds the entry of its key loaded takes its lease.        *)
LEMMA TryReadyKeepsInv ==
    ASSUME PoolInv, NEW c \in Client, TryReady(c)
    PROVE  PoolInv'
<1>0. want[c] \in Key /\ current[want[c]] \in Entry
  BY DEF PoolInv, TypeOK, ClientsFit, TryReady, Ready
<1> PICK e \in Entry : e = current[want[c]]
  BY <1>0
<1>1. want[c] \in Key /\ e \notin loading /\ pc[c] = "trying" /\ pc[c] # "leased"
  BY <1>0 DEF TryReady, Ready
<1>2. e \in Serving(current) /\ e \in open
  BY <1>1, PoolAssumption DEF Serving, Served, PoolInv, ServingIsOpen
<1>3. /\ pc' = [pc EXCEPT ![c] = "leased"] /\ mine' = [mine EXCEPT ![c] = e]
      /\ refs' = [refs EXCEPT ![e] = @ + 1] /\ Touch(want[c], current)
      /\ UNCHANGED <<current, pinned, draining, loading, failed, open, unpinned, want,
                     closer, apc, target, stragglers>>
  BY DEF TryReady, Lease, Goto, adminVars
<1>4. /\ Users(e)' = Users(e) \cup {c}
      /\ \A x \in Entry \ {e} : Users(x)' = Users(x)
      /\ refs' \in [Entry -> Nat] /\ RefsExact'
      /\ \A x \in Entry : refs'[x] >= refs[x]
  BY <1>1, <1>3, LeaseCounts
<1>5. TypeOK'
  <2>1. lastUsed' \in [Key -> 0..Cardinality(Key)]
    BY <1>1, <1>3, TouchType
  <2>. QED  BY <1>1, <1>3, <1>4, <2>1 DEF PoolInv, TypeOK, Served
<1>6. ClientsFit'
  BY <1>1, <1>3, PoolAssumption DEF PoolInv, TypeOK, ClientsFit
<1>7. LoadsFit'
  BY <1>1, <1>3, <1>4 DEF PoolInv, TypeOK, LoadsFit
<1>8. ServingIsOpen' /\ NothingLeaks' /\ StragglersAreClosed'
  BY <1>3 DEF PoolInv, ServingIsOpen, NothingLeaks, StragglersAreClosed, Serving, Served
<1>9. LeasesAreOpen'
  BY <1>2, <1>3, <1>4 DEF PoolInv, LeasesAreOpen
<1>10. DrainingInUse'
  <2>1. Serving(current)' = Serving(current) /\ draining' = draining /\ draining \subseteq Entry
    BY <1>3 DEF Serving, Served, PoolInv, TypeOK
  <2>. QED  BY <1>4, <2>1 DEF PoolInv, DrainingInUse
<1>11. SettledFits'
  <2>1. Settled' = Settled
    BY <1>3 DEF Settled, Served
  <2>2. Idle(current, loading, refs)' \subseteq Idle(current, loading, refs)
    <3> SUFFICES ASSUME NEW k \in Served(current) \ pinned, current[k] \notin loading,
                        refs'[current[k]] = 0
                 PROVE  refs[current[k]] = 0
      BY <1>3 DEF Idle, Served
    <3>1. current[k] \in Entry
      BY DEF PoolInv, TypeOK, Served
    <3>. QED  BY <1>4, <3>1 DEF PoolInv, TypeOK
  <2>. QED  BY <1>3, <2>1, <2>2, FewerSettled
<1>. QED  BY <1>4, <1>5, <1>6, <1>7, <1>8, <1>9, <1>10, <1>11 DEF PoolInv

(* A client that finds nothing serving its key puts a placeholder there.   *)
LEMMA TryLoadKeepsInv ==
    ASSUME PoolInv, NEW c \in Client, TryLoad(c)
    PROVE  PoolInv'
<1> DEFINE k == want[c]
<1>1. k \in Key /\ current[k] = None /\ pc[c] = "trying" /\ closer = "open"
  BY DEF PoolInv, TypeOK, ClientsFit, TryLoad
<1>2. PICK e \in Entry :
          /\ Free(e)
          /\ current' = [current EXCEPT ![k] = e]
          /\ mine' = [mine EXCEPT ![c] = e]
          /\ loading' = loading \cup {e} /\ failed' = failed \ {e}
          /\ refs' = [refs EXCEPT ![e] = 0]
  BY DEF TryLoad
<1>3. /\ pc' = [pc EXCEPT ![c] = "loading"] /\ pinned' = pinned \ {k} /\ Touch(k, current')
      /\ UNCHANGED <<draining, open, want, unpinned, closer, apc, target, stragglers>>
  BY DEF TryLoad, Goto, adminVars
<1> HIDE DEF k
<1>4. /\ e # None /\ e \notin loading /\ Users(e) = {} /\ refs[e] = 0
      /\ \A x \in Key : current[x] # e
      /\ \A d \in Client : mine[d] # e
  BY <1>2, FreeIsFresh
<1>5. \A x \in Entry : Users(x)' = Users(x)
  BY <1>1, <1>2, <1>3, <1>4 DEF Users, PoolInv, TypeOK
<1>6. refs' = refs
  BY <1>2, <1>4 DEF PoolInv, TypeOK
<1>7. Served(current') = Served(current) \cup {k} /\ Serving(current') = Serving(current) \cup {e}
  <2>1. Served(current') = Served(current) \cup {k}
    BY <1>1, <1>2, <1>4 DEF Served, PoolInv, TypeOK
  <2>2. \A x \in Served(current) : current'[x] = current[x]
    BY <1>1, <1>2 DEF Served, PoolInv, TypeOK
  <2>3. current'[k] = e
    BY <1>1, <1>2 DEF PoolInv, TypeOK
  <2>. QED  BY <2>1, <2>2, <2>3 DEF Serving
<1>8. TypeOK'
  <2>1. lastUsed' \in [Key -> 0..Cardinality(Key)]
    BY <1>1, <1>3, TouchType
  <2>2. current' \in [Key -> Entry \cup {None}]
    BY <1>2 DEF PoolInv, TypeOK
  <2>3. \A i, j \in Served(current') : current'[i] = current'[j] => i = j
    BY <1>1, <1>2, <1>4 DEF PoolInv, TypeOK, Served
  <2>4. pinned' \subseteq Served(current')
    BY <1>3, <1>7 DEF PoolInv, TypeOK
  <2>. QED  BY <1>1, <1>2, <1>3, <1>6, <2>1, <2>2, <2>3, <2>4 DEF PoolInv, TypeOK
<1>9. ClientsFit'
  BY <1>1, <1>2, <1>3, <1>4 DEF PoolInv, TypeOK, ClientsFit
<1>10. LoadsFit'
  <2> USE DEF PoolInv, TypeOK
  <2>1. \A d \in Client : pc'[d] = "loading" => mine'[d] \in loading'
    BY <1>2, <1>3 DEF LoadsFit
  <2>2. \A d, f \in Client :
           pc'[d] = "loading" /\ pc'[f] = "loading" /\ mine'[d] = mine'[f] => d = f
    BY <1>2, <1>3, <1>4 DEF LoadsFit
  <2>3. \A x \in loading' : \E d \in Client : pc'[d] = "loading" /\ mine'[d] = x
    <3> SUFFICES ASSUME NEW x \in loading'
                 PROVE  \E d \in Client : pc'[d] = "loading" /\ mine'[d] = x
      OBVIOUS
    <3>1. CASE x = e
      BY <1>2, <1>3, <3>1
    <3>2. CASE x \in loading
      <4>1. PICK d \in Client : pc[d] = "loading" /\ mine[d] = x
        BY <3>2 DEF LoadsFit
      <4>2. d # c
        BY <1>1, <4>1
      <4>. QED  BY <1>2, <1>3, <4>1, <4>2
    <3>. QED  BY <1>2, <3>1, <3>2
  <2>4. \A x \in loading' : Users(x)' = {} /\ x \notin open' \cup draining'
    BY <1>2, <1>3, <1>4, <1>5 DEF LoadsFit, Free
  <2>5. \A d \in Client, x \in Key :
           pc'[d] = "loading" /\ current'[x] = mine'[d] => want'[d] = x
    BY <1>1, <1>2, <1>3, <1>4 DEF LoadsFit, k
  <2>. QED  BY <2>1, <2>2, <2>3, <2>4, <2>5 DEF LoadsFit
<1>11. ServingIsOpen' /\ NothingLeaks' /\ StragglersAreClosed'
  BY <1>2, <1>3, <1>7 DEF PoolInv, ServingIsOpen, NothingLeaks, StragglersAreClosed
<1>12. LeasesAreOpen' /\ RefsExact'
  BY <1>3, <1>5, <1>6 DEF PoolInv, LeasesAreOpen, RefsExact
<1>13. DrainingInUse'
  <2>1. e \notin draining
    BY <1>2 DEF Free
  <2>. QED  BY <1>3, <1>5, <1>7, <2>1 DEF PoolInv, TypeOK, DrainingInUse
<1>14. SettledFits'
  <2>1. \A x \in Served(current') : current'[x] \notin loading' =>
            x \in Served(current) /\ x # k /\ current'[x] = current[x] /\ current[x] \notin loading
    BY <1>1, <1>2, <1>7 DEF PoolInv, TypeOK, Served
  <2>2. Settled' \subseteq Settled
    BY <2>1 DEF Settled
  <2>3. Idle(current, loading, refs)' \subseteq Idle(current, loading, refs)
    BY <1>3, <1>6, <2>1 DEF Idle
  <2>. QED  BY <1>3, <2>2, <2>3, FewerSettled
<1>. QED  BY <1>8, <1>9, <1>10, <1>11, <1>12, <1>13, <1>14 DEF PoolInv

(* A load that failed takes out its own placeholder, and nothing else.     *)
LEMMA LoadFailsKeepsInv ==
    ASSUME PoolInv, NEW c \in Client, LoadFails(c)
    PROVE  PoolInv'
<1>1. mine[c] \in loading /\ want[c] \in Key /\ pc[c] = "loading"
  BY DEF PoolInv, LoadsFit, ClientsFit, LoadFails, GiveUp, Goto
<1> PICK e \in Entry : e = mine[c]
  BY <1>1 DEF PoolInv, TypeOK
<1> PICK k \in Key : k = want[c]
  BY <1>1
<1>2. /\ pc' = [pc EXCEPT ![c] = "idle"] /\ want' = [want EXCEPT ![c] = None]
      /\ mine' = [mine EXCEPT ![c] = None]
      /\ loading' = loading \ {e} /\ failed' = failed \cup {e}
      /\ current' = [current EXCEPT ![k] = IF @ = e THEN None ELSE @]
      /\ pinned' = pinned \cap Served(current')
      /\ UNCHANGED <<lastUsed, draining, open, refs, unpinned, closer, apc, target, stragglers>>
  BY DEF LoadFails, GiveUp, Goto, adminVars
<1>2a. draining' = draining /\ loading' = loading \ {e}
  BY <1>2
<1>3. \A x \in Key : current[x] = e => x = k
  BY <1>1 DEF PoolInv, LoadsFit
<1>4. \A x \in Key : current'[x] = IF current[x] = e THEN None ELSE current[x]
  BY <1>2, <1>3 DEF PoolInv, TypeOK
<1>5. e # None /\ e \in loading /\ Users(e) = {} /\ e \notin open
  BY <1>1, PoolAssumption DEF PoolInv, LoadsFit
<1>6. /\ Served(current') = {x \in Served(current) : current[x] # e}
      /\ \A x \in Served(current') : current'[x] = current[x]
      /\ Serving(current') = Serving(current) \ {e}
  BY <1>4, <1>5 DEF Served, Serving
<1>7. \A x \in Entry : Users(x)' = Users(x)
  BY <1>1, <1>2, PoolAssumption DEF Users, PoolInv, TypeOK
<1>8. TypeOK'
  <2>1. current' \in [Key -> Entry \cup {None}]
    BY <1>2 DEF PoolInv, TypeOK
  <2>2. \A i, j \in Served(current') : current'[i] = current'[j] => i = j
    BY <1>6 DEF PoolInv, TypeOK
  <2>. QED  BY <1>2, <2>1, <2>2 DEF PoolInv, TypeOK
<1>9. ClientsFit'
  BY <1>2, PoolAssumption DEF PoolInv, TypeOK, ClientsFit
<1>10. LoadsFit'
  <2> USE DEF PoolInv, TypeOK
  <2>1. \A d \in Client : pc'[d] = "loading" => pc[d] = "loading" /\ d # c /\ mine'[d] = mine[d]
                                               /\ want'[d] = want[d]
    BY <1>2
  <2>2. \A d \in Client : pc'[d] = "loading" => mine'[d] \in loading'
    BY <1>1, <1>2, <2>1 DEF LoadsFit
  <2>3. \A x \in loading' : \E d \in Client : pc'[d] = "loading" /\ mine'[d] = x
    BY <1>2 DEF LoadsFit
  <2>4. \A x \in loading' : Users(x)' = {} /\ x \notin open' \cup draining'
    BY <1>2, <1>7 DEF LoadsFit
  <2>5. \A d, f \in Client :
           pc'[d] = "loading" /\ pc'[f] = "loading" /\ mine'[d] = mine'[f] => d = f
    BY <2>1 DEF LoadsFit
  <2>6. \A d \in Client, x \in Key :
           pc'[d] = "loading" /\ current'[x] = mine'[d] => want'[d] = x
    BY <1>4, <2>1, PoolAssumption DEF LoadsFit
  <2>. QED  BY <2>2, <2>3, <2>4, <2>5, <2>6 DEF LoadsFit
<1>11. ServingIsOpen' /\ NothingLeaks' /\ StragglersAreClosed'
  BY <1>2, <1>5, <1>6 DEF PoolInv, ServingIsOpen, NothingLeaks, StragglersAreClosed
<1>12. LeasesAreOpen' /\ RefsExact'
  BY <1>2, <1>7 DEF PoolInv, LeasesAreOpen, RefsExact
<1>13. DrainingInUse'
  BY <1>6, <1>7, <1>2a DEF PoolInv, TypeOK, DrainingInUse
<1>14. SettledFits'
  <2>1. \A x \in Served(current') :
           current'[x] \notin loading' => x \in Served(current) /\ current'[x] = current[x]
                                          /\ current[x] \notin loading
    BY <1>6, <1>2a
  <2>2. Settled' \subseteq Settled
    BY <2>1 DEF Settled
  <2>3. Idle(current, loading, refs)' \subseteq Idle(current, loading, refs)
    BY <1>2, <2>1 DEF Idle
  <2>. QED  BY <1>2, <2>2, <2>3, FewerSettled
<1>. QED  BY <1>8, <1>9, <1>10, <1>11, <1>12, <1>13, <1>14 DEF PoolInv

(* A load that succeeded opens the entry, leases it to the loader and      *)
(* makes room.                                                             *)
LEMMA LoadSucceedsKeepsInv ==
    ASSUME PoolInv, NEW c \in Client, LoadSucceeds(c)
    PROVE  PoolInv'
<1> USE DEF PoolInv, TypeOK
<1>1. mine[c] \in loading /\ want[c] \in Key /\ pc[c] = "loading" /\ pc[c] # "leased"
  BY DEF LoadsFit, ClientsFit, LoadSucceeds
<1> PICK e \in Entry : e = mine[c]
  BY <1>1
<1>2. /\ pc' = [pc EXCEPT ![c] = "leased"] /\ mine' = [mine EXCEPT ![c] = e]
      /\ refs' = [refs EXCEPT ![e] = @ + 1] /\ Touch(want[c], current)
      /\ loading' = loading \ {e} /\ current[want[c]] = e
      /\ UNCHANGED <<draining, failed, want, closer, apc, target, stragglers>>
  BY DEF LoadSucceeds, Lease, Goto, adminVars
<1>3. Reclaim(current, open \cup {e})
  BY DEF LoadSucceeds
<1>4. /\ Users(e)' = Users(e) \cup {c}
      /\ \A x \in Entry \ {e} : Users(x)' = Users(x)
      /\ refs' \in [Entry -> Nat] /\ RefsExact'
  BY <1>1, <1>2, LeaseCounts
<1>5. lastUsed' \in [Key -> 0..Cardinality(Key)]
  BY <1>1, <1>2, TouchType
<1>6. ClientsFit' /\ StragglersAreClosed'
  BY <1>1, <1>2, PoolAssumption DEF ClientsFit, StragglersAreClosed
<1>7. e \in Serving(current) /\ e \notin draining
  BY <1>1, <1>2, PoolAssumption DEF Serving, Served, LoadsFit
<1>8. \A d \in Client : pc'[d] = "loading" => pc[d] = "loading" /\ d # c /\ mine'[d] = mine[d]
                                             /\ want'[d] = want[d]
  BY <1>2
<1>9. \A d \in Client : pc'[d] = "loading" => mine'[d] \in loading'
  BY <1>1, <1>2, <1>8 DEF LoadsFit
<1>10. \A d, f \in Client :
          pc'[d] = "loading" /\ pc'[f] = "loading" /\ mine'[d] = mine'[f] => d = f
  BY <1>8 DEF LoadsFit
<1>11. \A x \in loading' : \E d \in Client : pc'[d] = "loading" /\ mine'[d] = x
  BY <1>2 DEF LoadsFit
<1>12. \A x \in loading' : Users(x)' = {} /\ x \notin (open \cup {e}) \cup draining'
  BY <1>2, <1>4 DEF LoadsFit
<1>13. \A d \in Client, x \in Key :
          pc'[d] = "loading" /\ current[x] = mine'[d] => want'[d] = x
  BY <1>8 DEF LoadsFit
<1>14. Serving(current) \subseteq loading' \cup (open \cup {e})
  BY <1>2 DEF ServingIsOpen
<1>15. \A x \in Entry : Users(x)' # {} => x \in open \cup {e}
  BY <1>4 DEF LeasesAreOpen
<1>16. open \cup {e} \subseteq Serving(current) \cup draining' \cup stragglers'
  BY <1>2, <1>7 DEF NothingLeaks
<1>17. \A x \in draining' : x \notin Serving(current) /\ Users(x)' # {}
  BY <1>2, <1>4, <1>7 DEF DrainingInUse
<1>18. /\ current \in [Key -> Entry \cup {None}] /\ open \cup {e} \in SUBSET Entry
       /\ \A j, k \in Served(current) : current[j] = current[k] => j = k
       /\ draining' \subseteq Entry /\ loading' \subseteq Entry /\ failed' \subseteq Entry
       /\ closer' \in {"open", "waiting", "done"}
       /\ pc' \in [Client -> {"idle", "admitting", "trying", "waiting", "loading", "leased"}]
       /\ want' \in [Client -> Key \cup {None}] /\ mine' \in [Client -> Entry \cup {None}]
       /\ apc' \in [Admin -> {"idle", "building", "checked", "removing"}]
       /\ target' \in [Admin -> Key \cup {None}] /\ stragglers' \subseteq Entry
  BY <1>2
<1> HIDE DEF PoolInv, TypeOK
<1>. QED  BY <1>3, <1>4, <1>5, <1>6, <1>9, <1>10, <1>11, <1>12, <1>13, <1>14, <1>15, <1>16,
             <1>17, <1>18, ReclaimKeepsInv

(* A load that finds its placeholder retired closes what it built; its     *)
(* client leases what serves the key now, or gives up.                     *)
LEMMA LoadRetiredKeepsInv ==
    ASSUME PoolInv, NEW c \in Client, LoadRetired(c)
    PROVE  PoolInv'
<1>1. /\ mine[c] \in loading /\ want[c] \in Key
      /\ pc[c] = "loading" /\ pc[c] # "leased" /\ current[want[c]] # mine[c]
  BY DEF PoolInv, LoadsFit, ClientsFit, LoadRetired
<1> PICK e \in Entry : e = mine[c]
  BY <1>1 DEF PoolInv, TypeOK
<1>2. /\ loading' = loading \ {e}
      /\ UNCHANGED <<current, pinned, draining, open, unpinned, closer, apc, target, stragglers>>
  BY DEF LoadRetired, Lease, GiveUp, Goto, adminVars
<1>3. e \notin Serving(current) /\ e \in loading /\ Users(e) = {}
  BY <1>1 DEF PoolInv, LoadsFit, Serving, Served
<1>4. Served(current') = Served(current) /\ Serving(current') = Serving(current)
  BY <1>2
<1>5. /\ TypeOK' /\ ClientsFit' /\ RefsExact'
      /\ \A x \in Entry : Users(x) \subseteq Users(x)'
      /\ \A x \in Entry : Users(x)' # {} => Users(x) # {} \/ x \in open
      /\ \A x \in loading' : Users(x)' = {}
      /\ \A d \in Client \ {c} : pc'[d] = pc[d] /\ want'[d] = want[d] /\ mine'[d] = mine[d]
      /\ pc'[c] # "loading"
      /\ \A x \in Entry : refs'[x] >= refs[x]
  <2>1. CASE Ready(want[c]) /\ Lease(c, "loading") /\ UNCHANGED failed
    <3>1. current[want[c]] \in Entry \ loading
      BY <1>1, <2>1 DEF Ready, PoolInv, TypeOK
    <3> PICK f \in Entry : f = current[want[c]]
      BY <3>1
    <3>2. /\ pc' = [pc EXCEPT ![c] = "leased"] /\ mine' = [mine EXCEPT ![c] = f]
          /\ refs' = [refs EXCEPT ![f] = @ + 1] /\ Touch(want[c], current)
          /\ UNCHANGED <<want, failed>>
      BY <2>1 DEF Lease, Goto
    <3>3. /\ Users(f)' = Users(f) \cup {c}
          /\ \A x \in Entry \ {f} : Users(x)' = Users(x)
          /\ refs' \in [Entry -> Nat] /\ RefsExact'
          /\ \A x \in Entry : refs'[x] >= refs[x]
      BY <1>1, <3>2, LeaseCounts
    <3>4. lastUsed' \in [Key -> 0..Cardinality(Key)]
      BY <1>1, <3>2, TouchType
    <3>5. TypeOK'
      BY <1>2, <1>4, <3>2, <3>3, <3>4 DEF PoolInv, TypeOK
    <3>6. ClientsFit'
      BY <1>1, <1>2, <3>2, PoolAssumption DEF PoolInv, TypeOK, ClientsFit
    <3>7. f \in open /\ f \notin loading
      BY <1>1, <3>1, PoolAssumption DEF PoolInv, ServingIsOpen, Serving, Served
    <3>8. \A x \in loading' : Users(x)' = {}
      BY <1>2, <3>3, <3>7 DEF PoolInv, TypeOK, LoadsFit
    <3>9. /\ \A d \in Client \ {c} : pc'[d] = pc[d] /\ want'[d] = want[d] /\ mine'[d] = mine[d]
          /\ pc'[c] # "loading"
      BY <3>2 DEF PoolInv, TypeOK
    <3>10. /\ \A x \in Entry : Users(x) \subseteq Users(x)'
           /\ \A x \in Entry : Users(x)' # {} => Users(x) # {} \/ x \in open
      BY <3>3, <3>7
    <3>. QED  BY <3>3, <3>5, <3>6, <3>8, <3>9, <3>10
  <2>2. CASE GiveUp(c, "loading") /\ failed' = failed \cup {e} /\ UNCHANGED <<refs, lastUsed>>
    <3>1. /\ pc' = [pc EXCEPT ![c] = "idle"] /\ want' = [want EXCEPT ![c] = None]
          /\ mine' = [mine EXCEPT ![c] = None]
      BY <2>2 DEF GiveUp, Goto
    <3>2. \A x \in Entry : Users(x)' = Users(x)
      BY <1>1, <3>1, PoolAssumption DEF Users, PoolInv, TypeOK
    <3>3. TypeOK'
      BY <1>2, <1>4, <2>2, <3>1 DEF PoolInv, TypeOK
    <3>4. ClientsFit'
      BY <1>2, <3>1, PoolAssumption DEF PoolInv, TypeOK, ClientsFit
    <3>5. RefsExact' /\ \A x \in Entry : refs'[x] >= refs[x]
      BY <2>2, <3>2 DEF PoolInv, TypeOK, RefsExact
    <3>6. \A x \in loading' : Users(x)' = {}
      BY <1>2, <3>2 DEF PoolInv, TypeOK, LoadsFit
    <3>7. /\ \A d \in Client \ {c} : pc'[d] = pc[d] /\ want'[d] = want[d] /\ mine'[d] = mine[d]
          /\ pc'[c] # "loading"
      BY <3>1 DEF PoolInv, TypeOK
    <3>. QED  BY <3>2, <3>3, <3>4, <3>5, <3>6, <3>7
  <2>. QED  BY <2>1, <2>2 DEF LoadRetired
<1>6. LoadsFit'
  <2>1. \A d \in Client : pc'[d] = "loading" => pc[d] = "loading" /\ d # c /\ mine'[d] = mine[d]
                                               /\ want'[d] = want[d]
    BY <1>5
  <2>2. \A d \in Client : pc'[d] = "loading" => mine'[d] \in loading'
    BY <1>1, <1>2, <2>1 DEF PoolInv, LoadsFit
  <2>3. \A x \in loading' : \E d \in Client : pc'[d] = "loading" /\ mine'[d] = x
    <3> SUFFICES ASSUME NEW x \in loading, x # e
                 PROVE  \E d \in Client : pc'[d] = "loading" /\ mine'[d] = x
      BY <1>2
    <3>1. PICK d \in Client : pc[d] = "loading" /\ mine[d] = x
      BY DEF PoolInv, LoadsFit
    <3>. QED  BY <1>5, <3>1
  <2>4. \A x \in loading' : Users(x)' = {} /\ x \notin open' \cup draining'
    BY <1>2, <1>5 DEF PoolInv, LoadsFit
  <2>5. \A d, f \in Client :
           pc'[d] = "loading" /\ pc'[f] = "loading" /\ mine'[d] = mine'[f] => d = f
    BY <2>1 DEF PoolInv, LoadsFit
  <2>6. \A d \in Client, x \in Key :
           pc'[d] = "loading" /\ current'[x] = mine'[d] => want'[d] = x
    BY <1>2, <2>1 DEF PoolInv, LoadsFit
  <2>. QED  BY <2>2, <2>3, <2>4, <2>5, <2>6 DEF LoadsFit
<1>7. ServingIsOpen' /\ NothingLeaks' /\ StragglersAreClosed'
  BY <1>2, <1>3, <1>4 DEF PoolInv, ServingIsOpen, NothingLeaks, StragglersAreClosed
<1>8. LeasesAreOpen'
  BY <1>2, <1>5 DEF PoolInv, LeasesAreOpen
<1>9. DrainingInUse'
  <2> SUFFICES ASSUME NEW x \in draining
               PROVE  x \notin Serving(current') /\ Users(x)' # {}
    BY <1>2 DEF DrainingInUse
  <2>. QED  BY <1>4, <1>5 DEF PoolInv, TypeOK, DrainingInUse
<1>10. SettledFits'
  <2>1. \A x \in Served(current) : current[x] # e /\ current[x] \in Entry
    BY <1>3 DEF Serving, Served, PoolInv, TypeOK
  <2>2. Settled' \subseteq Settled
    BY <1>2, <2>1 DEF Settled, Served
  <2>3. Idle(current, loading, refs)' \subseteq Idle(current, loading, refs)
    <3> SUFFICES ASSUME NEW x \in Served(current) \ pinned, current[x] \notin loading',
                        refs'[current[x]] = 0
                 PROVE  current[x] \notin loading /\ refs[current[x]] = 0
      BY <1>2, <1>4 DEF Idle
    <3>1. refs[current[x]] \in Nat /\ refs'[current[x]] >= refs[current[x]]
      BY <1>5, <2>1 DEF PoolInv, TypeOK
    <3>. QED  BY <1>2, <2>1, <3>1
  <2>. QED  BY <1>2, <2>2, <2>3, FewerSettled
<1>. QED  BY <1>5, <1>6, <1>7, <1>8, <1>9, <1>10 DEF PoolInv

-----------------------------------------------------------------------------
(* Leases given back, models retired, swapped and shut down.               *)

(* A lease is returned; the last user of a drained entry closes it.        *)
LEMMA ReleaseKeepsInv ==
    ASSUME PoolInv, NEW c \in Client, Release(c)
    PROVE  PoolInv'
<1> USE DEF PoolInv, TypeOK
<1>1. pc[c] = "leased" /\ want[c] \in Key /\ mine[c] \in Entry
  BY DEF ClientsFit, Release, GiveUp, Goto
<1> PICK e \in Entry : e = mine[c]
  BY <1>1
<1> DEFINE last == {x \in draining : x = e /\ refs[x] <= 1}
<1>2. /\ pc' = [pc EXCEPT ![c] = "idle"] /\ want' = [want EXCEPT ![c] = None]
      /\ mine' = [mine EXCEPT ![c] = None] /\ draining' = draining \ last
      /\ UNCHANGED <<loading, failed, closer, apc, target, stragglers>>
  BY DEF Release, GiveUp, Goto, adminVars
<1>3. refs' = [refs EXCEPT ![e] = IF @ > 0 THEN @ - 1 ELSE 0] /\ TouchMine(c)
  BY DEF Release
<1>4. Reclaim(current, open \ last)
  BY DEF Release
<1>5. c \in Users(e) /\ Users(e)' = Users(e) \ {c}
  BY <1>1, <1>2, PoolAssumption DEF Users
<1>6. \A x \in Entry \ {e} : Users(x)' = Users(x)
  BY <1>1, <1>2, PoolAssumption DEF Users
<1>7. refs[e] > 0 /\ refs[e] \in Nat
  BY <1>5, CountIsUse
<1>8. refs' = [refs EXCEPT ![e] = @ - 1] /\ refs' \in [Entry -> Nat]
  BY <1>3, <1>7
<1>9. RefsExact'
  <2>1. Cardinality(Users(e) \ {c}) = Cardinality(Users(e)) - 1
    BY <1>5, OneUserLess DEF Users
  <2>. QED  BY <1>5, <1>6, <1>8, <2>1 DEF RefsExact
<1>10. lastUsed' \in [Key -> 0..Cardinality(Key)]
  BY <1>1, <1>3, TouchType DEF TouchMine
<1>11. ClientsFit' /\ StragglersAreClosed'
  BY <1>2, PoolAssumption DEF ClientsFit, StragglersAreClosed
<1>12. e \notin loading /\ e \in open
  BY <1>5 DEF LoadsFit, LeasesAreOpen
<1>13. \A x \in draining' : x \notin Serving(current) /\ Users(x)' # {}
  <2> SUFFICES ASSUME NEW x \in draining'
               PROVE  Users(x)' # {}
    BY <1>2 DEF DrainingInUse
  <2>1. CASE x = e
    <3>1. refs'[e] > 0
      BY <1>2, <1>7, <1>8, <2>1
    <3>2. refs'[e] = Cardinality(Users(e)')
      BY <1>9 DEF RefsExact
    <3>3. Cardinality({}) = 0
      BY FS_EmptySet
    <3>4. Users(e)' # {}
      <4> SUFFICES ASSUME Users(e)' = {} PROVE FALSE
        OBVIOUS
      <4>1. refs'[e] = 0
        BY <3>2, <3>3, Zenon
      <4>. QED  BY <3>1, <4>1
    <3>. QED  BY <2>1, <3>4
  <2>2. CASE x # e
    BY <1>2, <1>6, <2>2 DEF DrainingInUse
  <2>. QED  BY <2>1, <2>2
<1>14. \A x \in Entry : Users(x)' # {} => x \in open \ last
  <2> SUFFICES ASSUME NEW x \in Entry, Users(x)' # {}
               PROVE  x \in open \ last
    OBVIOUS
  <2>1. x \in open
    BY <1>6, <1>12 DEF LeasesAreOpen
  <2>2. CASE x = e /\ refs[e] <= 1
    <3>1. refs'[e] = 0
      BY <1>7, <1>8, <2>2
    <3>2. IsFiniteSet(Users(e)')
      BY PoolAssumption, FS_Subset DEF Users
    <3>3. Users(e)' = {}
      BY <1>9, <3>1, <3>2, FS_EmptySet DEF RefsExact
    <3>. QED  BY <2>2, <3>3
  <2>. QED  BY <2>1, <2>2
<1>15. open \ last \subseteq Serving(current) \cup draining' \cup stragglers'
  BY <1>2 DEF NothingLeaks
<1>16. Serving(current) \subseteq loading' \cup (open \ last)
  <2>1. \A x \in last : x \notin Serving(current)
    BY DEF DrainingInUse
  <2>. QED  BY <1>2, <2>1 DEF ServingIsOpen
<1>17. \A d \in Client : pc'[d] = "loading" => pc[d] = "loading" /\ d # c /\ mine'[d] = mine[d]
                                              /\ want'[d] = want[d]
  BY <1>2
<1>18. \A d \in Client : pc'[d] = "loading" => mine'[d] \in loading'
  BY <1>2, <1>17 DEF LoadsFit
<1>19. \A d, f \in Client :
          pc'[d] = "loading" /\ pc'[f] = "loading" /\ mine'[d] = mine'[f] => d = f
  BY <1>17 DEF LoadsFit
<1>20. \A x \in loading' : \E d \in Client : pc'[d] = "loading" /\ mine'[d] = x
  BY <1>1, <1>2 DEF LoadsFit
<1>21. \A x \in loading' : Users(x)' = {} /\ x \notin (open \ last) \cup draining'
  BY <1>2, <1>6, <1>12 DEF LoadsFit
<1>22. \A d \in Client, x \in Key :
          pc'[d] = "loading" /\ current[x] = mine'[d] => want'[d] = x
  BY <1>17 DEF LoadsFit
<1>23. /\ current \in [Key -> Entry \cup {None}] /\ open \ last \in SUBSET Entry
       /\ \A j, k \in Served(current) : current[j] = current[k] => j = k
       /\ draining' \subseteq Entry /\ loading' \subseteq Entry /\ failed' \subseteq Entry
       /\ closer' \in {"open", "waiting", "done"}
       /\ pc' \in [Client -> {"idle", "admitting", "trying", "waiting", "loading", "leased"}]
       /\ want' \in [Client -> Key \cup {None}] /\ mine' \in [Client -> Entry \cup {None}]
       /\ apc' \in [Admin -> {"idle", "building", "checked", "removing"}]
       /\ target' \in [Admin -> Key \cup {None}] /\ stragglers' \subseteq Entry
  BY <1>2
<1> HIDE DEF PoolInv, TypeOK, last
<1>. QED  BY <1>4, <1>8, <1>9, <1>10, <1>11, <1>13, <1>14, <1>15, <1>16, <1>18, <1>19, <1>20,
             <1>21, <1>22, <1>23, ReclaimKeepsInv

(* Everything that takes keys out of the table, drains what is in use and  *)
(* closes the rest, and leaves clients and counts alone.                   *)
LEMMA RetireKeepsInv ==
    ASSUME PoolInv, NEW R \in SUBSET Served(current), Retire(R), TypeOK', ClientsFit',
           UNCHANGED <<closer, clientVars, unpinned, stragglers>>
    PROVE  PoolInv'
<1>1. /\ \A k \in Key : current'[k] = IF k \in R THEN None ELSE current[k]
      /\ pinned' = pinned \ R
      /\ draining' = draining \cup {e \in {current[k] : k \in R} : refs[e] > 0}
      /\ open' = open \ ({current[k] : k \in R} \ {e \in Entry : refs[e] > 0})
  BY DEF Retire, Without, Drain, Closing, InUse
<1>2. UNCHANGED <<loading, failed, refs, pc, want, mine, closer, unpinned, stragglers>>
  BY DEF Retire, clientVars
<1>3. /\ Served(current') = Served(current) \ R
      /\ \A k \in Served(current') : current'[k] = current[k]
  BY <1>1 DEF Served
<1>4. \A k \in R : current[k] \in Entry /\ current[k] \notin Serving(current')
  BY <1>3 DEF PoolInv, TypeOK, Serving, Served
<1>5. Serving(current) = Serving(current') \cup {current[k] : k \in R}
  <2>1. Served(current) = Served(current') \cup R
    BY <1>3
  <2>. QED  BY <1>3, <2>1 DEF Serving
<1>6. \A x \in Entry : Users(x)' = Users(x) /\ (refs[x] > 0 <=> Users(x) # {})
  BY <1>2, CountIsUse DEF Users
<1>7. LoadsFit'
  <2>1. \A e \in loading' : Users(e)' = {} /\ e \notin open' \cup draining'
    BY <1>1, <1>2, <1>6 DEF PoolInv, TypeOK, LoadsFit
  <2>2. \A c \in Client, k \in Key :
           pc'[c] = "loading" /\ current'[k] = mine'[c] => want'[c] = k
    BY <1>1, <1>2 DEF PoolInv, LoadsFit, ClientsFit
  <2>. QED  BY <1>2, <2>1, <2>2 DEF PoolInv, LoadsFit
<1>8. ServingIsOpen'
  BY <1>1, <1>2, <1>4, <1>5 DEF PoolInv, ServingIsOpen
<1>9. LeasesAreOpen' /\ RefsExact'
  BY <1>1, <1>2, <1>6 DEF PoolInv, LeasesAreOpen, RefsExact
<1>10. NothingLeaks'
  BY <1>1, <1>2, <1>5 DEF PoolInv, TypeOK, NothingLeaks
<1>11. DrainingInUse'
  BY <1>1, <1>4, <1>5, <1>6 DEF PoolInv, TypeOK, DrainingInUse
<1>12. SettledFits'
  <2>1. Settled' \subseteq Settled
    BY <1>2, <1>3 DEF Settled
  <2>2. Idle(current, loading, refs)' \subseteq Idle(current, loading, refs)
    BY <1>1, <1>2, <1>3 DEF Idle
  <2>. QED  BY <1>2, <2>1, <2>2, FewerSettled
<1>. QED
  BY <1>2, <1>7, <1>8, <1>9, <1>10, <1>11, <1>12 DEF PoolInv, StragglersAreClosed

(* Retiring keeps the types of what it changes.                            *)
LEMMA RetireType ==
    ASSUME PoolInv, NEW R \in SUBSET Served(current), Retire(R)
    PROVE  /\ current' \in [Key -> Entry \cup {None}]
           /\ \A j, k \in Served(current') : current'[j] = current'[k] => j = k
           /\ pinned' \subseteq Served(current')
           /\ draining' \subseteq Entry /\ open' \subseteq Entry
<1>1. current' = [k \in Key |-> IF k \in R THEN None ELSE current[k]] /\ pinned' = pinned \ R
  BY DEF Retire, Without
<1>2. Served(current') = Served(current) \ R
  BY <1>1 DEF Served
<1>3. draining' \subseteq Entry /\ open' \subseteq Entry
  BY DEF Retire, Drain, Closing, InUse, PoolInv, TypeOK, Served
<1>. QED  BY <1>1, <1>2, <1>3 DEF PoolInv, TypeOK, Served

(* Unload, Sweep and the second step of Delete.                            *)
LEMMA UnloadingKeepsInv ==
    ASSUME PoolInv,
           \/ \E k \in Key : Unload(k)
           \/ \E oldest \in 1..Cardinality(Key) : Sweep(oldest)
           \/ \E a \in Admin : DeleteUnload(a)
    PROVE  PoolInv'
<1>1. ASSUME NEW k \in Key, Unload(k) PROVE PoolInv'
  <2> USE <1>1 DEF Unload, adminVars, clientVars, historyVars
  <2>1. Instances(k) \in SUBSET Served(current)
    BY DEF Instances
  <2>2. TypeOK'
    BY <2>1, RetireType DEF Retire, PoolInv, TypeOK
  <2>3. ClientsFit'
    BY DEF PoolInv, ClientsFit
  <2>. QED  BY <2>1, <2>2, <2>3, RetireKeepsInv
<1>2. ASSUME NEW oldest \in 1..Cardinality(Key), Sweep(oldest) PROVE PoolInv'
  <2> USE DEF adminVars, clientVars, historyVars
  <2>1. PICK V \in SUBSET Served(current) : Retire(V)
    BY <1>2 DEF Sweep, Idle
  <2>2. UNCHANGED <<closer, clientVars, adminVars, historyVars>>
    BY <1>2 DEF Sweep
  <2>3. TypeOK'
    BY <2>1, <2>2, RetireType DEF Retire, PoolInv, TypeOK
  <2>4. ClientsFit'
    BY <2>2 DEF PoolInv, ClientsFit
  <2>. QED  BY <2>1, <2>2, <2>3, <2>4, RetireKeepsInv
<1>3. ASSUME NEW a \in Admin, DeleteUnload(a) PROVE PoolInv'
  <2> USE DEF clientVars
  <2>1. PICK V \in SUBSET Served(current) : Retire(V)
    BY <1>3 DEF DeleteUnload, Instances
  <2>2. /\ apc' = [apc EXCEPT ![a] = "removing"] /\ target' = [target EXCEPT ![a] = target[a]]
        /\ apc[a] = "checked" /\ UNCHANGED <<closer, clientVars, stragglers, unpinned>>
    BY <1>3 DEF DeleteUnload, GotoAdmin
  <2>3. TypeOK'
    BY <2>1, <2>2, RetireType DEF Retire, PoolInv, TypeOK
  <2>4. ClientsFit'
    BY <2>2 DEF PoolInv, TypeOK, ClientsFit
  <2>. QED  BY <2>1, <2>2, <2>3, <2>4, RetireKeepsInv
<1>. QED  BY <1>1, <1>2, <1>3

(* Reload puts one new entry in the place of the model and its variants,   *)
(* which drain or are closed.                                              *)
LEMMA ReloadInstallsKeepsInv ==
    ASSUME PoolInv, NEW a \in Admin, ReloadInstalls(a)
    PROVE  PoolInv'
<1> USE DEF PoolInv, TypeOK
<1>1. target[a] \in Key /\ ~Variant(target[a]) /\ apc[a] = "building"
  BY DEF ClientsFit, ReloadInstalls, GotoAdmin
<1> PICK k \in Key : k = target[a]
  BY <1>1
<1> DEFINE R == Instances(k)
           swapped(e) == [Without(current, R) EXCEPT ![k] = e]
           built(e) == (open \ Closing(R)) \cup {e}
<1>2. PICK e \in Entry :
          /\ Free(e)
          /\ refs' = [refs EXCEPT ![e] = 0]
          /\ Touch(k, swapped(e))
          /\ Drain(R)
          /\ UNCHANGED <<loading, failed>>
          /\ Reclaim(swapped(e), built(e))
  BY DEF ReloadInstalls
<1>3. /\ apc' = [apc EXCEPT ![a] = "idle"] /\ target' = [target EXCEPT ![a] = None]
      /\ UNCHANGED <<pc, want, mine, closer, stragglers>>
  BY DEF ReloadInstalls, GotoAdmin, clientVars
<1>4. /\ e # None /\ e \notin loading /\ Users(e) = {} /\ refs[e] = 0
      /\ \A x \in Key : current[x] # e
      /\ \A c \in Client : mine[c] # e
      /\ e \notin draining \cup open
  BY <1>2, FreeIsFresh DEF Free
<1>5. refs' = refs
  BY <1>2, <1>4
<1>6. \A x \in Entry : Users(x)' = Users(x) /\ (refs[x] > 0 <=> Users(x) # {})
  BY <1>3, CountIsUse DEF Users
<1>7. R \subseteq Served(current) /\ (k \in Served(current) => k \in R)
  BY <1>1 DEF Instances, Variant
<1> DEFINE cur == swapped(e)
<1>8. /\ cur \in [Key -> Entry \cup {None}] /\ cur[k] = e
      /\ \A x \in Key \ {k} : cur[x] = IF x \in R THEN None ELSE current[x]
  BY <1>7 DEF Without
<1>8a. Reclaim(cur, built(e)) /\ Touch(k, cur)
  BY <1>2
<1>8b. /\ draining' = draining \cup {x \in {current[y] : y \in R} : refs[x] > 0}
      /\ built(e) = (open \ ({current[y] : y \in R} \ {x \in Entry : refs[x] > 0})) \cup {e}
  BY <1>2 DEF Drain, InUse, Closing
<1>8c. UNCHANGED <<loading, failed>>
  BY <1>2
<1> HIDE DEF R, cur, built
<1>9. /\ Served(cur) = (Served(current) \ R) \cup {k}
      /\ \A x \in Served(current) \ R : x # k /\ cur[x] = current[x]
  BY <1>4, <1>7, <1>8 DEF Served
<1>10. \A i, j \in Served(cur) : cur[i] = cur[j] => i = j
  BY <1>4, <1>8, <1>9 DEF Served
<1>11. Serving(cur) = {current[x] : x \in Served(current) \ R} \cup {e}
  BY <1>8, <1>9 DEF Serving
<1>13. \A y \in R : current[y] \in Entry /\ current[y] \notin Serving(cur)
  BY <1>4, <1>7, <1>11 DEF Served
<1>14. \A x \in Serving(current) : x \in Serving(cur) \/ \E y \in R : x = current[y]
  BY <1>11 DEF Serving
<1>15. lastUsed' \in [Key -> 0..Cardinality(Key)]
  BY <1>8a, TouchType
<1>16. ClientsFit' /\ StragglersAreClosed' /\ RefsExact'
  BY <1>3, <1>5, <1>6 DEF ClientsFit, StragglersAreClosed, RefsExact
<1>17. /\ draining' \subseteq Entry /\ loading' \subseteq Entry /\ failed' \subseteq Entry
       /\ refs' \in [Entry -> Nat] /\ closer' \in {"open", "waiting", "done"}
       /\ pc' \in [Client -> {"idle", "admitting", "trying", "waiting", "loading", "leased"}]
       /\ want' \in [Client -> Key \cup {None}] /\ mine' \in [Client -> Entry \cup {None}]
       /\ apc' \in [Admin -> {"idle", "building", "checked", "removing"}]
       /\ target' \in [Admin -> Key \cup {None}] /\ stragglers' \subseteq Entry
       /\ built(e) \in SUBSET Entry
  BY <1>3, <1>5, <1>8b, <1>8c, <1>13
<1>18. \A x \in loading' : Users(x)' = {} /\ x \notin built(e) \cup draining'
  BY <1>4, <1>6, <1>8b, <1>8c DEF LoadsFit
<1>19. \A c \in Client, x \in Key : pc'[c] = "loading" /\ cur[x] = mine'[c] => want'[c] = x
  BY <1>3, <1>4, <1>8 DEF LoadsFit, ClientsFit
<1>20. /\ \A c \in Client : pc'[c] = "loading" => mine'[c] \in loading'
       /\ \A c, d \in Client :
             pc'[c] = "loading" /\ pc'[d] = "loading" /\ mine'[c] = mine'[d] => c = d
       /\ \A x \in loading' : \E c \in Client : pc'[c] = "loading" /\ mine'[c] = x
  BY <1>3, <1>8c DEF LoadsFit
<1>21. Serving(cur) \subseteq loading' \cup built(e)
  <2> SUFFICES ASSUME NEW x \in Served(current) \ R, current[x] \notin loading
               PROVE  current[x] \in built(e)
    BY <1>8b, <1>8c, <1>11
  <2>1. current[x] \in open
    BY DEF ServingIsOpen, Serving
  <2>2. current[x] \in Serving(cur)
    BY <1>11
  <2>. QED  BY <1>8b, <1>13, <2>1, <2>2
<1>22. \A x \in Entry : Users(x)' # {} => x \in built(e)
  BY <1>6, <1>8b DEF LeasesAreOpen
<1>23. built(e) \subseteq Serving(cur) \cup draining' \cup stragglers'
  <2> SUFFICES ASSUME NEW x \in built(e), x # e, x \notin stragglers, x \notin draining
               PROVE  x \in Serving(cur) \cup draining'
    BY <1>3, <1>11, <1>8b
  <2>1. x \in open /\ x \in Serving(current)
    BY <1>8b DEF NothingLeaks
  <2>. QED  BY <1>8b, <1>14, <2>1
<1>24. \A x \in draining' : x \notin Serving(cur) /\ Users(x)' # {}
  <2>1. ASSUME NEW x \in draining PROVE x \notin Serving(cur) /\ Users(x)' # {}
    <3>1. x \notin Serving(current) /\ x # e
      BY <1>4 DEF DrainingInUse
    <3>2. x \notin Serving(cur)
      BY <1>11, <3>1 DEF Serving
    <3>. QED  BY <1>6, <3>2 DEF DrainingInUse
  <2>2. ASSUME NEW y \in R, NEW x, x = current[y], refs[x] > 0
        PROVE  x \notin Serving(cur) /\ Users(x)' # {}
    BY <1>6, <1>13, <2>2
  <2>. QED  BY <1>8b, <2>1, <2>2
<1> HIDE DEF PoolInv, TypeOK
<1>. QED  BY <1>8, <1>10, <1>15, <1>16, <1>17, <1>18, <1>19, <1>20, <1>21, <1>22, <1>23, <1>24,
             <1>8a, ReclaimKeepsInv

(* Close empties the table: what nobody holds is closed, what is still     *)
(* held is among the stragglers.                                           *)
LEMMA CloseEndKeepsInv ==
    ASSUME PoolInv, CloseEnd
    PROVE  PoolInv'
<1> USE DEF PoolInv, TypeOK, CloseEnd, clientVars, adminVars
<1>1. \A x \in Entry : Users(x)' = Users(x) /\ (refs[x] > 0 <=> Users(x) # {})
  BY CountIsUse DEF Users
<1>2. Served(current)' = {} /\ Serving(current)' = {}
  BY DEF Served, Serving
<1>3. Serving(current) \subseteq Entry
  BY DEF Serving, Served
<1>4. /\ stragglers' = {x \in Serving(current) \cup draining : refs[x] > 0}
      /\ draining' = {x \in draining : refs[x] > 0}
  BY DEF InUse
<1>5. open' = stragglers'
  <2>1. open \subseteq Serving(current) \cup draining
    BY DEF StragglersAreClosed, NothingLeaks
  <2>. QED  BY <2>1
<1>6. TypeOK'
  BY <1>2, <1>3, <1>4, <1>5
<1>7. ClientsFit' /\ RefsExact' /\ StragglersAreClosed'
  BY <1>1 DEF ClientsFit, RefsExact, StragglersAreClosed
<1>8. LoadsFit'
  BY <1>1, <1>4, <1>5, PoolAssumption, ZenonT(60) DEF LoadsFit, ClientsFit
<1>9. ServingIsOpen' /\ NothingLeaks'
  BY <1>2, <1>5 DEF ServingIsOpen, NothingLeaks
<1>10. LeasesAreOpen'
  BY <1>1, <1>3, <1>4, <1>5 DEF LeasesAreOpen, StragglersAreClosed, NothingLeaks
<1>11. DrainingInUse'
  BY <1>1, <1>2, <1>4 DEF DrainingInUse
<1>12. SettledFits'
  BY <1>2 DEF SettledFits, Idle
<1>. QED  BY <1>6, <1>7, <1>8, <1>9, <1>10, <1>11, <1>12

-----------------------------------------------------------------------------
(* Every step of clients and administrators keeps the invariant.           *)
LEMMA PoolInvStep == PoolInv /\ [Next]_vars => PoolInv'
<1> SUFFICES ASSUME PoolInv, [Next]_vars PROVE PoolInv'
  OBVIOUS
<1>1. ASSUME NEW c \in Client, NEW k \in Key, Ask(c, k) PROVE PoolInv'
  BY <1>1, AskKeepsInv
<1>2. ASSUME NEW c \in Client,
             AdmitVariant(c) \/ TryClosed(c) \/ TryWait(c) \/ WaitOver(c) \/ WaitTimesOut(c)
      PROVE  PoolInv'
  BY <1>2, QuietAcquireKeepsInv
<1>3. ASSUME NEW c \in Client, TryReady(c) PROVE PoolInv'
  BY <1>3, TryReadyKeepsInv
<1>4. ASSUME NEW c \in Client, TryLoad(c) PROVE PoolInv'
  BY <1>4, TryLoadKeepsInv
<1>5. ASSUME NEW c \in Client, Loading(c) PROVE PoolInv'
  BY <1>5, LoadFailsKeepsInv, LoadSucceedsKeepsInv, LoadRetiredKeepsInv DEF Loading
<1>6. ASSUME NEW c \in Client, Release(c) PROVE PoolInv'
  BY <1>6, ReleaseKeepsInv
<1>7. ASSUME NEW a \in Admin, AdminStep(a) PROVE PoolInv'
  <2>1. CASE \/ \E k \in Key : ReloadStart(a, k) \/ DeleteCheck(a, k)
             \/ ReloadFails(a) \/ DeleteRemove(a)
    BY <2>1, QuietAdminKeepsInv
  <2>2. CASE ReloadInstalls(a)
    BY <2>2, ReloadInstallsKeepsInv
  <2>3. CASE DeleteUnload(a)
    BY <2>3, UnloadingKeepsInv
  <2>. QED  BY <1>7, <2>1, <2>2, <2>3 DEF AdminStep
<1>8. ASSUME NEW k \in Key, Unload(k) PROVE PoolInv'
  BY <1>8, UnloadingKeepsInv
<1>9. ASSUME NEW k \in Key, NEW b \in BOOLEAN, Pin(k, b) PROVE PoolInv'
  BY <1>9, PinKeepsInv
<1>10. ASSUME NEW oldest \in 1..Cardinality(Key), Sweep(oldest) PROVE PoolInv'
  BY <1>10, UnloadingKeepsInv
<1>11. CASE CloseBegin
  BY <1>11, QuietAdminKeepsInv
<1>12. CASE CloseEnd
  BY <1>12, CloseEndKeepsInv
<1>13. CASE UNCHANGED vars
  <2> USE <1>13 DEF vars, tableVars, entryVars, clientVars, adminVars, historyVars, PoolInv
  <2>1. TypeOK' /\ ClientsFit'
    BY DEF TypeOK, ClientsFit, Served
  <2>. QED  BY <2>1, QuietStep
<1>. QED  BY <1>1, <1>2, <1>3, <1>4, <1>5, <1>6, <1>7, <1>8, <1>9, <1>10, <1>11, <1>12, <1>13
          DEF Next, Acquiring

(* Every behaviour keeps the inductive invariant.                          *)
THEOREM PoolInvariant == Spec => []PoolInv
BY PoolInvInit, PoolInvStep, PTL DEF Spec

(* Type correctness; in particular an entry serves one key at a time and   *)
(* only what serves is pinned.                                             *)
THEOREM PoolTypeOK == Spec => []TypeOK
<1>1. PoolInv => TypeOK
  BY DEF PoolInv
<1>. QED  BY <1>1, PoolInvariant, PTL

(* With no load in flight what is settled is all there is.                 *)
LEMMA SettledMeansOver == PoolInv => OverOnlyInUse
<1> SUFFICES ASSUME PoolInv, Serving(current) \cap loading = {}, OverLimit(current, loading),
                    ~unpinned
             PROVE  Idle(current, loading, refs) = {}
  BY DEF OverOnlyInUse
<1>1. Settled = Served(current) /\ Settled = {k \in Served(current) : current[k] \notin loading}
  BY DEF Settled, Serving
<1>2. Settled \subseteq Key
  BY DEF Settled, Served
<1>3. Cardinality(Settled) \in Nat /\ Weight(Settled, Rss) \in Nat
  BY <1>2, FewerFit
<1> HIDE DEF Settled
<1>4. Cardinality(Settled) > MaxResident \/ Weight(Settled, Rss) > MaxRss
  BY <1>1, Zenon DEF OverLimit
<1>5. ~(Cardinality(Settled) <= MaxResident /\ Weight(Settled, Rss) <= MaxRss)
  BY <1>3, <1>4, PoolAssumption
<1>. QED  BY <1>5 DEF PoolInv, SettledFits

(* pool.go 272, 353, 408: whoever holds a lease has a recogniser that is   *)
(* open, the counts are the leases, no recogniser is open that nobody will *)
(* close, and the pool is over its limits only with what is in use,        *)
(* through any order of loads, evictions, swaps, deletions and shutdown.   *)
THEOREM PoolSwapsAreSafe == Spec => []SwapsAreSafe
<1>1. PoolInv => SwapsAreSafe
  BY SettledMeansOver DEF PoolInv, SwapsAreSafe
<1>. QED  BY <1>1, PoolInvariant, PTL

-----------------------------------------------------------------------------
(* Taking keys out of a table makes nothing serve that did not.            *)
LEMMA WithoutServes ==
    ASSUME NEW cur, NEW V
    PROVE  Serving(Without(cur, V)) \subseteq Serving(cur)
BY DEF Serving, Served, Without

(* Making room only takes entries out of the table.                        *)
LEMMA ReclaimServes ==
    ASSUME NEW cur, NEW built, Reclaim(cur, built)
    PROVE  Serving(current') \subseteq Serving(cur)
BY WithoutServes DEF Reclaim

(* Only a load that begins and a swap that installs make an entry serve,   *)
(* and both take a fresh record.                                           *)
LEMMA OnlyFreshServes ==
    ASSUME PoolInv, Next
    PROVE  \A e \in loading : e \notin Serving(current) => e \notin Serving(current')
<1> DEFINE Kept == Serving(current') \subseteq Serving(current)
           Fresh == \E f \in Entry : /\ f \notin loading
                                     /\ Serving(current') \subseteq Serving(current) \cup {f}
<1> HIDE DEF Kept, Fresh
<1>1. ASSUME NEW c \in Client, NEW k \in Key, Ask(c, k) PROVE Kept
  BY <1>1 DEF Ask, tableVars, Kept
<1>2. ASSUME NEW c \in Client, Acquiring(c) PROVE Kept \/ Fresh
  <2>1. CASE AdmitVariant(c) \/ TryClosed(c) \/ TryReady(c) \/ TryWait(c) \/ WaitOver(c)
    BY <2>1 DEF AdmitVariant, TryClosed, TryReady, TryWait, WaitOver, tableVars, Kept
  <2>2. CASE TryLoad(c)
    <3>1. PICK e \in Entry : Free(e) /\ current' = [current EXCEPT ![want[c]] = e]
      BY <2>2 DEF TryLoad
    <3>2. e \notin loading
      BY <3>1, FreeIsFresh
    <3>3. current \in [Key -> Entry \cup {None}]
      BY DEF PoolInv, TypeOK
    <3>4. \A k \in Key : current'[k] = current[k] \/ current'[k] = e
      BY <3>1, <3>3
    <3>5. Serving(current') \subseteq Serving(current) \cup {e}
      BY <3>4 DEF Serving, Served
    <3>. QED  BY <3>2, <3>5 DEF Fresh
  <2>. QED  BY <1>2, <2>1, <2>2 DEF Acquiring
<1>3. ASSUME NEW c \in Client, Loading(c) PROVE Kept
  <2>1. CASE LoadFails(c)
    <3>1. current' = [current EXCEPT ![want[c]] = IF @ = mine[c] THEN None ELSE @]
      BY <2>1 DEF LoadFails
    <3>2. current \in [Key -> Entry \cup {None}]
      BY DEF PoolInv, TypeOK
    <3>3. \A k \in Key : current'[k] = current[k] \/ current'[k] = None
      BY <3>1, <3>2
    <3>. QED  BY <3>3 DEF Serving, Served, Kept
  <2>2. CASE LoadSucceeds(c)
    BY <2>2, ReclaimServes DEF LoadSucceeds, Kept
  <2>3. CASE LoadRetired(c)
    BY <2>3 DEF LoadRetired, Kept
  <2>. QED  BY <1>3, <2>1, <2>2, <2>3 DEF Loading
<1>4. ASSUME NEW c \in Client, WaitTimesOut(c) \/ Release(c) PROVE Kept
  BY <1>4, ReclaimServes DEF WaitTimesOut, Release, tableVars, Kept
<1>5. ASSUME NEW a \in Admin, AdminStep(a) PROVE Kept \/ Fresh
  <2>1. CASE \/ \E k \in Key : ReloadStart(a, k) \/ DeleteCheck(a, k)
             \/ ReloadFails(a) \/ DeleteRemove(a)
    BY <2>1 DEF ReloadStart, DeleteCheck, ReloadFails, DeleteRemove, tableVars,
       Kept
  <2>2. CASE DeleteUnload(a)
    BY <2>2, WithoutServes DEF DeleteUnload, Retire, Kept
  <2>3. CASE ReloadInstalls(a)
    <3> DEFINE k == target[a]
               R == Instances(k)
    <3>1. PICK e \in Entry :
             Free(e) /\ Serving(current') \subseteq Serving([Without(current, R) EXCEPT ![k] = e])
      BY <2>3, ReclaimServes DEF ReloadInstalls
    <3>2. e \notin loading
      BY <3>1, FreeIsFresh
    <3> HIDE DEF k, R
    <3>3. \A x \in Key : [Without(current, R) EXCEPT ![k] = e][x] \in {current[x], None, e}
      BY DEF Without
    <3>4. Serving([Without(current, R) EXCEPT ![k] = e]) \subseteq Serving(current) \cup {e}
      BY <3>3 DEF Serving, Served
    <3>. QED  BY <3>1, <3>2, <3>4 DEF Fresh
  <2>. QED  BY <1>5, <2>1, <2>2, <2>3 DEF AdminStep
<1>6. ASSUME NEW k \in Key, Unload(k) \/ \E b \in BOOLEAN : Pin(k, b) PROVE Kept
  BY <1>6, WithoutServes DEF Unload, Retire, Pin, Kept
<1>7. ASSUME NEW oldest \in 1..Cardinality(Key), Sweep(oldest) PROVE Kept
  BY <1>7, WithoutServes DEF Sweep, Retire, Kept
<1>8. ASSUME CloseBegin \/ CloseEnd PROVE Kept
  BY <1>8 DEF CloseBegin, CloseEnd, tableVars, Serving, Served, Kept
<1>9. Kept \/ Fresh
  BY <1>1, <1>2, <1>3, <1>4, <1>5, <1>6, <1>7, <1>8 DEF Next
<1>. QED  BY <1>9 DEF Kept, Fresh

(* pool.go 272 and 408: a placeholder retired by an Unload, a Reload or    *)
(* Close while its load was running never serves again.                    *)
THEOREM PoolUnloadIsFinal == Spec => UnloadIsFinal
<1>1. PoolInv /\ [Next]_vars
        => [\A e \in loading : e \notin Serving(current) => e \notin Serving(current')]_vars
  BY OnlyFreshServes
<1>. QED  BY <1>1, PoolInvariant, PTL DEF Spec, UnloadIsFinal

=============================================================================
