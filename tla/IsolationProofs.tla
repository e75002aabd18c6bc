--------------------------- MODULE IsolationProofs ---------------------------
(***************************************************************************)
(* Proofs about the isolation service, for any sessions, workers, voices   *)
(* and limits, and however often the process is started: the work of an    *)
(* isolation is held by exactly one activity and none of it is forgotten   *)
(* (WorkIsHeld), and what a client is shown is on the disk and comes back  *)
(* with the next process (ShownIsKept).  Where MayFail allows it, states   *)
(* may not be written, removals may leave anything behind, and states may  *)
(* not be read at the start, at any step; what the two promises except     *)
(* then is in unsaved and stray.                                           *)
(***************************************************************************)
EXTENDS Isolation, FiniteSetTheorems, TLAPS

(***************************************************************************)
(* The inductive invariant.                                                *)
(***************************************************************************)
Kinds == {"analyse", "extract", "transcribe"}
Tasks == [s : Session, kind : Kinds, todo : SUBSET Voice]
Runs == [pc : {"looking", "asleep", "taken", "working", "decoded", "written", "finishing",
               "failing", "exited"},
         s : Session \cup {None}, kind : Kinds \cup {None}, todo : SUBSET Voice,
         made : Voice \cup {None}]
Follows == [pc : {"none", "submitting", "awaiting", "merged", "failing", "ending"},
            todo : SUBSET Voice, jobs : SUBSET Job, ok : BOOLEAN]
Dirs == [dir : BOOLEAN, upload : BOOLEAN, source : BOOLEAN, tracks : SUBSET Voice,
         transcript : BOOLEAN, saved : Views \cup {None}]

(* A worker's place says of its work: none, a session's, an analysis, or a *)
(* track that is made and not published yet.                               *)
Fit(r) ==
    /\ r.pc \in {"looking", "asleep", "exited"} => r.s = None
    /\ r.pc \notin {"looking", "asleep", "exited"} => r.s \in Session /\ r.kind \in Kinds
    /\ r.pc = "decoded" => r.kind = "analyse"
    /\ r.pc = "written" <=> r.made \in Voice

WorkersFit == worker \in [Worker -> Runs] /\ \A w \in Worker : Fit(worker[w])

(* The values of the other variables.                                      *)
PlainShapes ==
    /\ phase \in {"running", "stopping", "stopped", "down"} /\ starts \in 1 .. MaxStarts
    /\ open \subseteq Session /\ wake \in BOOLEAN
    /\ creating \in [Session -> {"never", "uploading", "uploaded", "created"}]
    /\ pending \in Seq(Tasks)
    /\ job \in [Job -> {"free", "live", "succeeded", "failed", "canceled"}]
    /\ intact \in [Session -> {"yes", "no", "torn"}]
    /\ unsaved \in SUBSET Session /\ stray \in SUBSET Session

ContextShapes ==
    /\ cancel \in [Session -> Worker \cup Session \cup {None}]
    /\ ended \subseteq Worker \cup Session

Shapes ==
    /\ PlainShapes /\ ContextShapes /\ WorkersFit
    /\ follow \in [Session -> Follows]
    /\ view \in [Session -> Views] /\ disk \in [Session -> Dirs]

Creating(s) == creating[s] \in {"uploading", "uploaded"}
Tasked(s) == \E i \in 1 .. Len(pending) : pending[i].s = s
HandsOn(w, s) ==
    worker[w].s = s /\ (worker[w].pc = "finishing" => worker[w].kind = "transcribe")
OneTaskEach ==
    \A i, k \in 1 .. Len(pending) : pending[i].s = pending[k].s => i = k

(* Nobody carries the work of a session that another carries; while it is  *)
(* being uploaded nobody else has come to it at all.                       *)
OneAtMost ==
    \A s \in Session :
        /\ Creating(s) => /\ ~Tasked(s) /\ ~Following(s)
                          /\ \A w \in Worker : worker[w].s # s
        /\ Tasked(s) => ~Following(s) /\ \A w \in Worker : ~HandsOn(w, s)
        /\ \A w \in Worker : HandsOn(w, s) =>
              ~Following(s) /\ \A x \in Worker : HandsOn(x, s) => x = w

BusyIsCarried ==
    \A s \in open : Busy(view[s].status) <=>
        Creating(s) \/ Tasked(s) \/ Following(s) \/ \E w \in Worker : HandsOn(w, s)

(* An identifier that was never given out has left no trace.               *)
FreshFits ==
    \A s \in Session : creating[s] = "never" =>
        /\ s \notin open /\ ~Tasked(s) /\ ~Following(s) /\ disk[s].saved = None
        /\ \A w \in Worker : worker[w].s # s

(* Between two processes only files are left.                              *)
DownFits ==
    phase = "down" =>
        /\ open = {} /\ pending = <<>> /\ wake = FALSE
        /\ \A w \in Worker : worker[w].pc = "exited"
        /\ \A s \in Session : ~Following(s) /\ ~Creating(s)

CarryFits == OneTaskEach /\ OneAtMost /\ BusyIsCarried /\ FreshFits

(* The directory is there from the upload on.  What is shown is in it, a   *)
(* track that is about to be published and the recording that was decoded  *)
(* are too.                                                                *)
FilesOf(s) ==
    s \in open =>
        /\ creating[s] # "uploading" => disk[s].dir
        /\ view[s].tracks \subseteq disk[s].tracks
        /\ view[s].voices # {} => disk[s].source \/ s \in stray
        /\ \A w \in Worker : worker[w].s = s =>
              /\ worker[w].pc = "decoded" => disk[s].source
              /\ worker[w].pc = "written" => worker[w].made \in disk[s].tracks

(* A state file is that of a kept session, and what it says is true of the *)
(* files it lies with, unless it was left behind by a write, a removal or a*)
(* restore that failed.                                                    *)
SavedOf(s) ==
    disk[s].saved # None =>
        /\ phase = "down" \/ (s \in open /\ view[s].keep) \/ s \in stray
        /\ disk[s].saved.keep /\ disk[s].dir
        /\ disk[s].saved.voices # {} => disk[s].source \/ s \in stray
        /\ (disk[s].saved.transcript = "succeeded" /\ ~disk[s].saved.stale) =>
              \/ intact[s] = "yes" /\ disk[s].transcript
              \/ intact[s] = "torn"
              \/ s \in unsaved \cup stray

(* A transcript that is shown as current is, and a follower that is about  *)
(* to say that it has succeeded has.                                       *)
TextOf(s) ==
    /\ follow[s].pc = "failing" => ~follow[s].ok
    /\ s \in open =>
          /\ (follow[s].pc = "ending" /\ follow[s].ok) => intact[s] = "yes" /\ disk[s].transcript
          /\ Current(s) => \/ intact[s] = "yes" /\ disk[s].transcript
                           \/ intact[s] = "torn"

(* What comes back of a session at rest is what is shown of it.            *)
RestOf(s) ==
    (s \in open \ unsaved /\ view[s].keep /\ ~Busy(view[s].status) /\ \A w \in Worker : worker[w].s # s) =>
        disk[s].saved # None /\ Restored(disk[s]) = view[s]

KeptOf(s) == FilesOf(s) /\ SavedOf(s) /\ TextOf(s) /\ RestOf(s)

KeptFits == \A s \in Session : KeptOf(s)

(* No more state files wait for a process than it may keep sessions.       *)
RoomFits ==
    /\ RoomIsKept
    /\ phase = "down" => Cardinality({s \in Session : disk[s].saved # None} \ stray) <= MaxKept

IsolationInv == Shapes /\ CarryFits /\ DownFits /\ NoTaskForgotten /\ RoomFits /\ KeptFits

-----------------------------------------------------------------------------
(* Facts about lines of tasks.                                             *)

Places(kept) == [i \in kept |-> Cardinality({k \in kept : k <= i})]

(* Counting the kept places up to i numbers them, without a gap.           *)
LEMMA PlacesAreNumbered ==
    ASSUME NEW N \in Nat, NEW K \in SUBSET (1 .. N)
    PROVE  /\ Cardinality(K) \in Nat
           /\ \A i \in K : Places(K)[i] \in 1 .. Cardinality(K)
           /\ \A i, k \in K : Places(K)[i] = Places(K)[k] => i = k
           /\ \A p \in 1 .. Cardinality(K) : \E i \in K : Places(K)[i] = p
<1> DEFINE UpTo(i) == {x \in K : x <= i}
           Numbers == 1 .. Cardinality(K)
<1>1. IsFiniteSet(K)
  <2>1. IsFiniteSet(1 .. N)
    BY FS_Interval
  <2>. QED  BY <2>1, FS_Subset
<1>2. Cardinality(K) \in Nat
  BY <1>1, FS_CardinalityType
<1>3. ASSUME NEW i \in K
      PROVE  IsFiniteSet(UpTo(i)) /\ Cardinality(UpTo(i)) \in Numbers
  <2>1. IsFiniteSet(UpTo(i)) /\ Cardinality(UpTo(i)) <= Cardinality(K)
    BY <1>1, FS_Subset
  <2>2. Cardinality(UpTo(i)) \in Nat /\ (Cardinality(UpTo(i)) = 0 <=> UpTo(i) = {})
    BY <2>1, FS_CardinalityType, FS_EmptySet
  <2>3. i \in UpTo(i)
    OBVIOUS
  <2>4. Cardinality(UpTo(i)) # 0
    BY <2>2, <2>3, Zenon
  <2> HIDE DEF UpTo
  <2>. QED  BY <1>2, <2>1, <2>2, <2>4
<1>4. ASSUME NEW i \in K, NEW k \in K, i < k
      PROVE  Cardinality(UpTo(i)) # Cardinality(UpTo(k))
  <2>0. i \in Nat /\ k \in Nat /\ \A x \in K : x \in Nat
    OBVIOUS
  <2>1. UpTo(i) \in SUBSET UpTo(k) /\ k \in UpTo(k) /\ k \notin UpTo(i)
    <3>1. \A x \in K : x <= i => x <= k
      BY <1>4, <2>0
    <3>2. k <= k /\ ~(k <= i)
      BY <1>4, <2>0
    <3>. QED  BY <3>1, <3>2, Zenon
  <2> HIDE DEF UpTo
  <2>. QED  BY <1>3, <2>1, FS_Subset, Zenon
<1>5. \A i, k \in K : Cardinality(UpTo(i)) = Cardinality(UpTo(k)) => i = k
  <2> HIDE DEF UpTo
  <2>1. \A i, k \in K : i < k \/ k < i \/ i = k
    OBVIOUS
  <2>. QED  BY <1>4, <2>1
<1> HIDE DEF UpTo
<1>6. \A i \in K : Places(K)[i] = Cardinality(UpTo(i))
  BY DEF UpTo, Places
<1>7. Places(K) \in Injection(K, Numbers)
  <2>1. DOMAIN Places(K) = K /\ Places(K) = [i \in K |-> Places(K)[i]]
    BY DEF Places
  <2>2. Places(K) \in [K -> Numbers]
    BY <1>3, <1>6, <2>1
  <2>3. IsInjective(Places(K))
    BY <1>5, <1>6, <2>1 DEF IsInjective
  <2>. QED  BY <2>2, <2>3 DEF Injection
<1>8. IsFiniteSet(Numbers) /\ Cardinality(Numbers) = Cardinality(K)
  BY <1>2, FS_Interval
<1>9. Places(K) \in Surjection(K, Numbers)
  BY <1>7, <1>8, FS_Injection, Zenon
<1>10. \A p \in Numbers : \E i \in K : Places(K)[i] = p
  BY <1>9 DEF Surjection
<1>. QED  BY <1>2, <1>3, <1>5, <1>6, <1>10

(* What dropLocked leaves in the line: the tasks of the other sessions.    *)
LEMMA TasksThatStay ==
    ASSUME pending \in Seq(Tasks), OneTaskEach, NEW S, pending' = TasksWithout(S)
    PROVE  /\ pending' \in Seq(Tasks) /\ OneTaskEach'
           /\ \A s \in Session : Tasked(s)' <=> Tasked(s) /\ s \notin S
           /\ pending = <<>> => pending' = <<>>
<1> DEFINE n == Len(pending)
           kept == {i \in 1 .. n : pending[i].s \notin S}
           place == [i \in kept |-> Cardinality({k \in kept : k <= i})]
           from(p) == CHOOSE i \in kept : place[i] = p
<1>1. n \in Nat /\ kept \in SUBSET (1 .. n)
  OBVIOUS
<1>2. /\ Cardinality(kept) \in Nat
      /\ \A i \in kept : place[i] \in 1 .. Cardinality(kept)
      /\ \A i, k \in kept : place[i] = place[k] => i = k
      /\ \A p \in 1 .. Cardinality(kept) : \E i \in kept : place[i] = p
  <2>1. place = Places(kept)
    BY DEF Places
  <2> HIDE DEF kept, n, place
  <2>. QED  BY <1>1, <2>1, PlacesAreNumbered, ZenonT(60)
<1>3. pending' = [p \in 1 .. Cardinality(kept) |-> pending[from(p)]]
  BY DEF TasksWithout
<1>4. \A i \in kept : i \in 1 .. n /\ pending[i] \in Tasks /\ pending[i].s \notin S
  OBVIOUS
<1>5. \A i \in 1 .. n : pending[i].s \notin S => i \in kept
  OBVIOUS
<1> HIDE DEF kept, place
<1>6. \A p \in 1 .. Cardinality(kept) : from(p) \in kept /\ place[from(p)] = p
  BY <1>2, Zenon
<1>7. \A i \in kept : from(place[i]) = i
  BY <1>2, <1>6
<1> HIDE DEF from
<1>8. pending' \in Seq(Tasks) /\ Len(pending') = Cardinality(kept)
  BY <1>2, <1>3, <1>4, <1>6
<1>9. \A p \in 1 .. Cardinality(kept) : pending'[p] = pending[from(p)]
  BY <1>3
<1>10. OneTaskEach'
  <2> SUFFICES ASSUME NEW p \in 1 .. Cardinality(kept), NEW q \in 1 .. Cardinality(kept),
                      pending'[p].s = pending'[q].s
               PROVE  p = q
    BY <1>8 DEF OneTaskEach
  <2>1. from(p) = from(q)
    BY <1>4, <1>6, <1>9 DEF OneTaskEach
  <2>. QED  BY <1>6, <2>1, Zenon
<1>11. ASSUME NEW s \in Session PROVE Tasked(s)' <=> Tasked(s) /\ s \notin S
  <2>1. Tasked(s)' => Tasked(s) /\ s \notin S
    BY <1>4, <1>6, <1>8, <1>9 DEF Tasked
  <2>2. ASSUME Tasked(s), s \notin S PROVE Tasked(s)'
    <3>1. PICK i \in 1 .. n : pending[i].s = s
      BY <2>2 DEF Tasked
    <3>2. i \in kept
      BY <1>5, <2>2, <3>1
    <3>. QED  BY <1>2, <1>7, <1>8, <1>9, <3>1, <3>2 DEF Tasked
  <2>. QED  BY <2>1, <2>2
<1>12. pending = <<>> => pending' = <<>>
  <2>1. pending = <<>> => kept = {}
    BY DEF kept
  <2>2. kept = {} => Cardinality(kept) = 0
    BY FS_EmptySet
  <2>. QED  BY <1>8, <2>1, <2>2
<1>. QED  BY <1>8, <1>10, <1>11, <1>12

(* enqueue, of a session that has nothing in the line.                     *)
LEMMA TaskThatJoins ==
    ASSUME pending \in Seq(Tasks), OneTaskEach, NEW t \in Tasks, ~Tasked(t.s),
           pending' = Append(pending, t)
    PROVE  /\ pending' \in Seq(Tasks) /\ OneTaskEach' /\ pending' # <<>>
           /\ \A s \in Session : Tasked(s)' <=> Tasked(s) \/ s = t.s
<1>1. pending' \in Seq(Tasks) /\ Len(pending') = Len(pending) + 1 /\ Len(pending) \in Nat
  OBVIOUS
<1>2. /\ \A i \in 1 .. Len(pending) : pending'[i] = pending[i]
      /\ pending'[Len(pending) + 1] = t
  OBVIOUS
<1>3. OneTaskEach'
  BY <1>1, <1>2 DEF OneTaskEach, Tasked
<1>4. \A s \in Session : Tasked(s)' <=> Tasked(s) \/ s = t.s
  <2>1. 1 .. Len(pending') = (1 .. Len(pending)) \cup {Len(pending) + 1}
    BY <1>1
  <2>. QED  BY <1>2, <2>1 DEF Tasked
<1>. QED  BY <1>1, <1>3, <1>4

(* next: the first task leaves the line.                                   *)
LEMMA TaskThatLeaves ==
    ASSUME pending \in Seq(Tasks), OneTaskEach, pending # <<>>, pending' = Tail(pending)
    PROVE  /\ pending' \in Seq(Tasks) /\ OneTaskEach'
           /\ Head(pending) \in Tasks /\ Tasked(Head(pending).s)
           /\ \A s \in Session : Tasked(s)' <=> Tasked(s) /\ s # Head(pending).s
           /\ pending' # <<>> => Len(pending) > 1
<1>1. /\ pending' \in Seq(Tasks) /\ Len(pending') = Len(pending) - 1
      /\ Len(pending) \in Nat /\ Len(pending) > 0
      /\ Head(pending) = pending[1] /\ pending[1] \in Tasks
  OBVIOUS
<1>2. \A i \in 1 .. Len(pending') : pending'[i] = pending[i + 1]
  BY <1>1
<1>3. OneTaskEach'
  BY <1>1, <1>2 DEF OneTaskEach
<1>4. ASSUME NEW s \in Session
      PROVE  Tasked(s)' <=> Tasked(s) /\ s # Head(pending).s
  <2>1. \A i \in 1 .. Len(pending) : i = 1 \/ ((i - 1) \in 1 .. Len(pending') /\ i = (i - 1) + 1)
    BY <1>1
  <2>2. \A i \in 1 .. Len(pending') : (i + 1) \in 1 .. Len(pending) /\ i + 1 # 1
    BY <1>1
  <2>3. Tasked(s)' => Tasked(s) /\ s # Head(pending).s
    BY <1>1, <1>2, <2>2 DEF Tasked, OneTaskEach
  <2>4. Tasked(s) /\ s # Head(pending).s => Tasked(s)'
    BY <1>1, <1>2, <2>1 DEF Tasked
  <2>. QED  BY <2>3, <2>4
<1>. QED  BY <1>1, <1>3, <1>4 DEF Tasked

(* restore: one analysis for each session whose upload is still there.     *)
LEMMA TasksThatComeBack ==
    ASSUME NEW Q \in SUBSET Session,
           pending' = SetToSeq({Task(s, "analyse", {}) : s \in Q})
    PROVE  /\ pending' \in Seq(Tasks) /\ OneTaskEach'
           /\ \A s \in Session : Tasked(s)' <=> s \in Q
<1> DEFINE T == {Task(s, "analyse", {}) : s \in Q}
           n == Cardinality(T)
<1>1. IsFiniteSet(Q)
  BY IsolationAssumption, FS_Subset
<1>2. IsFiniteSet(T)
  <2>1. T = {[x \in Q |-> Task(x, "analyse", {})][s] : s \in Q}
    OBVIOUS
  <2> DEFINE f == [x \in Q |-> Task(x, "analyse", {})]
  <2>2. f \in Surjection(Q, T)
    BY DEF Surjection
  <2>. QED  BY <1>1, <2>2, FS_Surjection, Zenon
<1>3. \A t \in T : t \in Tasks /\ t.s \in Q /\ t = Task(t.s, "analyse", {})
  BY DEF Task, Tasks, Kinds
<1>4. \A s \in Q : Task(s, "analyse", {}) \in T /\ Task(s, "analyse", {}).s = s
  BY DEF Task
<1> HIDE DEF T
<1>5. n \in Nat /\ \E f \in [1 .. n -> T] : IsInjective(f)
  BY <1>2, FS_CardinalityType DEF ExistsBijection, Bijection, Injection
<1>6. pending' \in [1 .. n -> T] /\ IsInjective(pending')
  <2>1. pending' = CHOOSE f \in [1 .. n -> T] : IsInjective(f)
    BY DEF SetToSeq, T
  <2>. QED  BY <1>5, <2>1, Zenon
<1>7. pending' \in Injection(1 .. n, T)
  BY <1>6, Zenon DEF Injection
<1>8. \A t \in T : \E i \in 1 .. n : pending'[i] = t
  <2>1. Cardinality(1 .. n) = n
    BY <1>5, FS_Interval
  <2>2. pending' \in Surjection(1 .. n, T)
    BY <1>2, <1>7, <2>1, FS_Injection, Zenon
  <2>. QED  BY <2>2 DEF Surjection
<1>9. \A i, k \in 1 .. n : pending'[i] = pending'[k] => i = k
  BY <1>6 DEF IsInjective
<1>10. pending' \in Seq(Tasks) /\ Len(pending') = n
  BY <1>3, <1>5, <1>6
<1>11. OneTaskEach'
  BY <1>3, <1>6, <1>9, <1>10 DEF OneTaskEach
<1>12. ASSUME NEW s \in Session PROVE Tasked(s)' <=> s \in Q
  <2>1. Tasked(s)' => s \in Q
    BY <1>3, <1>6, <1>10 DEF Tasked
  <2>2. s \in Q => Tasked(s)'
    BY <1>4, <1>8, <1>10, ZenonT(60) DEF Tasked
  <2>. QED  BY <2>1, <2>2
<1>. QED  BY <1>10, <1>11, <1>12

-----------------------------------------------------------------------------
(* What the shared sections do to a view and to a directory.               *)

(* saveLocked touches the state file alone.                                *)
LEMMA WrittenIs ==
    ASSUME NEW d \in Dirs, NEW v \in Views, NEW e \in Written(d, v)
    PROVE  /\ e \in Dirs
           /\ e.dir = d.dir /\ e.upload = d.upload /\ e.source = d.source /\ e.tracks = d.tracks
           /\ e.transcript = d.transcript
           /\ (e.saved = v /\ v.keep /\ d.dir) \/ e.saved = d.saved
<1>1. e = d \/ (e = [d EXCEPT !.saved = v] /\ v.keep /\ d.dir)
  BY DEF Written, Failing
<1>. QED  BY <1>1 DEF Dirs

(* What is known to be unsaved changes for one session only.               *)
UnsavedApart(s) == unsaved' \in SUBSET Session /\ \A x \in Session \ {s} : x \in unsaved' <=> x \in unsaved

(* A section that saves a view changes the state file alone; what it says  *)
(* is the view, or it is known not to be.                                  *)
LEMMA SavesIs ==
    ASSUME Shapes, NEW s \in Session, NEW v \in Views, NEW d \in Dirs, Saves(s, v, d)
    PROVE  /\ disk' = [disk EXCEPT ![s] = disk'[s]] /\ disk'[s] \in Dirs
           /\ disk' \in [Session -> Dirs] /\ \A x \in Session \ {s} : disk'[x] = disk[x]
           /\ disk'[s].dir = d.dir /\ disk'[s].upload = d.upload
           /\ disk'[s].source = d.source /\ disk'[s].tracks = d.tracks
           /\ disk'[s].transcript = d.transcript
           /\ (disk'[s].saved = v /\ v.keep /\ d.dir) \/ disk'[s].saved = d.saved
           /\ v.keep => disk'[s].saved = v \/ s \in unsaved'
           /\ UnsavedApart(s)
<1>1. disk \in [Session -> Dirs] /\ unsaved \in SUBSET Session
  BY DEF Shapes, PlainShapes
<1>2. PICK e \in Written(d, v) :
         /\ disk' = [disk EXCEPT ![s] = e]
         /\ unsaved' = IF v.keep /\ e.saved # v THEN unsaved \cup {s} ELSE unsaved \ {s}
  BY DEF Saves
<1>3. /\ e \in Dirs
      /\ e.dir = d.dir /\ e.upload = d.upload /\ e.source = d.source /\ e.tracks = d.tracks
      /\ e.transcript = d.transcript
      /\ (e.saved = v /\ v.keep /\ d.dir) \/ e.saved = d.saved
  BY WrittenIs
<1>4. /\ disk'[s] = e /\ disk' = [disk EXCEPT ![s] = disk'[s]] /\ disk' \in [Session -> Dirs]
      /\ \A x \in Session \ {s} : disk'[x] = disk[x]
  BY <1>1, <1>2, <1>3
<1>5. /\ v.keep => e.saved = v \/ s \in unsaved'
      /\ UnsavedApart(s)
  BY <1>1, <1>2 DEF UnsavedApart
<1>. QED  BY <1>3, <1>4, <1>5

(* The three requests that start work differ in what is made, and in that  *)
(* a new transcript replaces the old one.                                  *)
Begins(s) ==
    \E kind \in {"extract", "transcribe"}, todo \in SUBSET Voice, again, there \in BOOLEAN :
       /\ Idle(s)
       /\ Starts(s, kind, todo,
                 IF again THEN [view[s] EXCEPT !.transcript = "queued", !.stale = FALSE] ELSE view[s],
                 IF again THEN [disk[s] EXCEPT !.transcript = there] ELSE disk[s])

(* Extract, ExtractAll and TranscribeSpeakers are such requests.           *)
LEMMA RequestsBegin ==
    ASSUME Shapes, NEW s \in Session,
           (\E v \in Voice : Extract(s, v)) \/ ExtractAll(s) \/ TranscribeSpeakers(s)
    PROVE  Begins(s)
<1>1. Missing(s) \in SUBSET Voice
  BY DEF Shapes, PlainShapes, ContextShapes, Views, Missing
<1>2. CASE \E v \in Voice : Extract(s, v)
  <2>1. PICK v \in Voice : Extract(s, v)
    BY <1>2
  <2>2. {v} \in SUBSET Voice
    OBVIOUS
  <2> HIDE DEF Starts, Idle
  <2>. QED  BY <2>1, <2>2, Zenon DEF Extract, Begins
<1>3. CASE ExtractAll(s)
  BY <1>1, <1>3, Zenon DEF ExtractAll, Begins
<1>4. CASE TranscribeSpeakers(s)
  <2>1. PICK there \in {FALSE} \cup Failing("remove", disk[s].transcript) :
           Starts(s, "transcribe", Missing(s), [view[s] EXCEPT !.transcript = "queued", !.stale = FALSE],
                  [disk[s] EXCEPT !.transcript = there])
    BY <1>4, Zenon DEF TranscribeSpeakers
  <2>2. there \in BOOLEAN
    BY DEF Failing, Shapes, Dirs
  <2>3. Idle(s)
    BY <1>4 DEF TranscribeSpeakers
  <2> HIDE DEF Starts, Idle
  <2>. QED  BY <1>1, <2>1, <2>2, <2>3, Zenon DEF Begins
<1>. QED  BY <1>2, <1>3, <1>4

(* What such a request does: the view it leaves, the files it leaves.      *)
LEMMA BeginsIs ==
    ASSUME Shapes, NEW s \in Session, Begins(s)
    PROVE  /\ phase = "running" /\ s \in open /\ ~Busy(view[s].status)
           /\ \E t \in Tasks : t.s = s /\ t.kind # "analyse" /\ Enqueues(t)
           /\ view' = [view EXCEPT ![s] = view'[s]] /\ view'[s] \in Views
           /\ view'[s].status = "queued" /\ view'[s].keep = view[s].keep
           /\ view'[s].voices = view[s].voices
           /\ disk' = [disk EXCEPT ![s] = disk'[s]] /\ disk'[s] \in Dirs
           /\ disk'[s].dir = disk[s].dir /\ disk'[s].source = disk[s].source
           /\ (disk'[s].saved = view'[s] /\ view[s].keep /\ disk[s].dir) \/ disk'[s].saved = disk[s].saved
           /\ view[s].keep => disk'[s].saved = view'[s] \/ s \in unsaved'
           /\ UnsavedApart(s)
           /\ view'[s].transcript \in {view[s].transcript, "queued"}
           /\ view'[s].transcript = "queued" \/ disk'[s].transcript = disk[s].transcript
           /\ view[s].tracks \subseteq disk[s].tracks => view'[s].tracks \subseteq disk'[s].tracks
           /\ intact' = [intact EXCEPT ![s] = intact'[s]] /\ intact'[s] \in {"yes", "no", "torn"}
           /\ intact[s] = "torn" => intact'[s] = "torn"
           /\ intact'[s] = intact[s] \/ view'[s].transcript # "succeeded" \/ view'[s].stale
           /\ view[s].transcript = "succeeded" /\ view[s].stale
                 => view'[s].transcript # "succeeded" \/ view'[s].stale
           /\ UNCHANGED <<phase, starts, creating, open, worker, follow, cancel, ended, job, stray>>
<1>1. PICK kind \in {"extract", "transcribe"}, todo \in SUBSET Voice, again, there \in BOOLEAN :
         /\ Idle(s)
         /\ Starts(s, kind, todo,
                   IF again THEN [view[s] EXCEPT !.transcript = "queued", !.stale = FALSE] ELSE view[s],
                   IF again THEN [disk[s] EXCEPT !.transcript = there] ELSE disk[s])
  BY Zenon DEF Begins
<1> DEFINE v == IF again THEN [view[s] EXCEPT !.transcript = "queued", !.stale = FALSE] ELSE view[s]
           d == IF again THEN [disk[s] EXCEPT !.transcript = there] ELSE disk[s]
           queued == [Without(v, todo) EXCEPT !.status = "queued"]
           cleared(removed) == [d EXCEPT !.tracks = @ \ removed]
<1>2. /\ view[s] \in Views /\ disk[s] \in Dirs /\ intact[s] \in {"yes", "no", "torn"}
      /\ view \in [Session -> Views] /\ disk \in [Session -> Dirs]
      /\ intact \in [Session -> {"yes", "no", "torn"}]
  BY DEF Shapes, PlainShapes, ContextShapes
<1>3. /\ v \in Views /\ v.keep = view[s].keep /\ v.voices = view[s].voices
      /\ v.tracks = view[s].tracks
      /\ v.transcript = IF again THEN "queued" ELSE view[s].transcript
      /\ v.stale = IF again THEN FALSE ELSE view[s].stale
  BY <1>2 DEF Views
<1>4. /\ d \in Dirs /\ d.dir = disk[s].dir /\ d.source = disk[s].source /\ d.tracks = disk[s].tracks
      /\ d.saved = disk[s].saved
      /\ d.transcript = IF again THEN there ELSE disk[s].transcript
  BY <1>2 DEF Dirs
<1> HIDE DEF v, d
<1>5. /\ queued \in Views /\ queued.status = "queued" /\ queued.keep = v.keep
      /\ queued.voices = v.voices /\ queued.transcript = v.transcript
      /\ queued.tracks = v.tracks \ todo
      /\ queued.stale = (v.stale \/ (v.tracks \cap todo # {} /\ v.transcript = "succeeded"))
  <2>1. PICK u \in Views : u = v
    BY <1>3
  <2>2. PICK x : x = Without(u, todo)
    OBVIOUS
  <2>3. /\ x \in Views /\ x.keep = u.keep /\ x.voices = u.voices /\ x.transcript = u.transcript
        /\ x.tracks = u.tracks \ todo
        /\ x.stale = (u.stale \/ (u.tracks \cap todo # {} /\ u.transcript = "succeeded"))
    <3>1. x = [u EXCEPT !.tracks = u.tracks \ todo,
                        !.stale = u.stale \/ (u.tracks \cap todo # {} /\ u.transcript = "succeeded")]
      BY <2>2 DEF Without
    <3>2. PICK b \in BOOLEAN : b = (u.stale \/ (u.tracks \cap todo # {} /\ u.transcript = "succeeded"))
      OBVIOUS
    <3>3. PICK T \in SUBSET Voice : T = u.tracks \ todo
      BY DEF Views
    <3>4. x = [u EXCEPT !.tracks = T, !.stale = b]
      BY <3>1, <3>2, <3>3, Zenon
    <3>5. /\ x \in Views /\ x.keep = u.keep /\ x.voices = u.voices /\ x.transcript = u.transcript
          /\ x.tracks = T /\ x.stale = b
      BY <3>4 DEF Views
    <3>. QED  BY <3>2, <3>3, <3>5
  <2>4. PICK q : q = [x EXCEPT !.status = "queued"]
    OBVIOUS
  <2>5. /\ q \in Views /\ q.status = "queued" /\ q.keep = x.keep /\ q.voices = x.voices
        /\ q.transcript = x.transcript /\ q.tracks = x.tracks /\ q.stale = x.stale
    BY <2>3, <2>4 DEF Views, Statuses
  <2>6. q = queued
    BY <2>1, <2>2, <2>4
  <2>. QED  BY <2>1, <2>3, <2>5, <2>6
<1>6. /\ phase = "running" /\ s \in open /\ ~Busy(view[s].status)
      /\ Enqueues(Task(s, kind, todo))
      /\ view' = [view EXCEPT ![s] = queued]
      /\ \E removed \in SUBSET todo : Saves(s, queued, cleared(removed))
      /\ intact' = [intact EXCEPT ![s] =
                       IF @ = "yes" /\ view[s].tracks \cap todo # {} THEN "no" ELSE @]
      /\ UNCHANGED <<phase, starts, creating, open, worker, follow, cancel, ended, job, stray>>
  BY <1>1 DEF Idle, Busy, Starts, Becomes, v, d
<1>7. PICK removed \in SUBSET todo, c \in Dirs :
         /\ c = cleared(removed) /\ c.dir = d.dir /\ c.source = d.source
         /\ c.tracks = d.tracks \ removed /\ c.saved = d.saved /\ c.transcript = d.transcript
         /\ Saves(s, queued, c)
  <2>1. PICK removed \in SUBSET todo : Saves(s, queued, cleared(removed))
    BY <1>6
  <2>2. PICK c : c = cleared(removed)
    OBVIOUS
  <2>3. /\ c \in Dirs /\ c.dir = d.dir /\ c.source = d.source
        /\ c.tracks = d.tracks \ removed /\ c.saved = d.saved /\ c.transcript = d.transcript
    BY <1>4, <2>2 DEF Dirs
  <2>4. Saves(s, queued, c)
    BY <2>1, <2>2
  <2> HIDE DEF queued, cleared
  <2>. QED  BY <2>2, <2>3, <2>4
<1> HIDE DEF queued, cleared
<1>8. Task(s, kind, todo) \in Tasks /\ Task(s, kind, todo).s = s /\ Task(s, kind, todo).kind # "analyse"
  BY DEF Task, Tasks, Kinds
<1>9. \E t \in Tasks : t.s = s /\ t.kind # "analyse" /\ Enqueues(t)
  BY <1>6, <1>8, Zenon
<1>10. view'[s] = queued /\ view' = [view EXCEPT ![s] = view'[s]]
  BY <1>2, <1>6
<1>11. /\ disk' = [disk EXCEPT ![s] = disk'[s]] /\ disk'[s] \in Dirs
       /\ disk'[s].dir = c.dir /\ disk'[s].source = c.source /\ disk'[s].tracks = c.tracks
       /\ disk'[s].transcript = c.transcript
       /\ (disk'[s].saved = queued /\ queued.keep /\ c.dir) \/ disk'[s].saved = c.saved
       /\ queued.keep => disk'[s].saved = queued \/ s \in unsaved'
       /\ UnsavedApart(s)
  <2>1. PICK u \in Views : u = queued
    BY <1>5
  <2>2. Saves(s, u, c)
    BY <1>7, <2>1
  <2>. QED  BY <2>1, <2>2, SavesIs
<1>12. /\ intact'[s] = IF intact[s] = "yes" /\ view[s].tracks \cap todo # {} THEN "no" ELSE intact[s]
       /\ intact' = [intact EXCEPT ![s] = intact'[s]]
  BY <1>2, <1>6
<1>13. /\ disk'[s] \in Dirs /\ disk'[s].dir = disk[s].dir /\ disk'[s].source = disk[s].source
       /\ disk'[s].tracks = disk[s].tracks \ removed /\ disk'[s].transcript = d.transcript
       /\ (disk'[s].saved = view'[s] /\ view[s].keep /\ disk[s].dir) \/ disk'[s].saved = disk[s].saved
       /\ view[s].keep => disk'[s].saved = view'[s] \/ s \in unsaved'
  BY <1>3, <1>4, <1>5, <1>7, <1>10, <1>11
<1>14. /\ view'[s] \in Views /\ view'[s].status = "queued" /\ view'[s].keep = view[s].keep
       /\ view'[s].voices = view[s].voices
       /\ view'[s].transcript \in {view[s].transcript, "queued"}
       /\ view[s].tracks \subseteq disk[s].tracks => view'[s].tracks \subseteq disk'[s].tracks
  BY <1>3, <1>5, <1>7, <1>10, <1>13
<1>15. view'[s].transcript = "queued" \/ disk'[s].transcript = disk[s].transcript
  BY <1>3, <1>4, <1>5, <1>10, <1>13
<1>16. /\ intact'[s] \in {"yes", "no", "torn"} /\ (intact[s] = "torn" => intact'[s] = "torn")
       /\ intact'[s] = intact[s] \/ view'[s].transcript # "succeeded" \/ view'[s].stale
       /\ view[s].transcript = "succeeded" /\ view[s].stale
             => view'[s].transcript # "succeeded" \/ view'[s].stale
  <2>1. v.transcript # "succeeded" \/ v.tracks \cap todo = {} \/ queued.stale
    BY <1>3, <1>5 DEF Views
  <2>2. v.tracks = view[s].tracks
    BY <1>3
  <2>3. intact'[s] = intact[s] \/ view'[s].transcript # "succeeded" \/ view'[s].stale
    BY <1>5, <1>10, <1>12, <2>1, <2>2
  <2>4. again => queued.transcript # "succeeded"
    BY <1>3, <1>5
  <2>5. ~again /\ view[s].stale => queued.stale
    BY <1>3, <1>5
  <2>. QED  BY <1>2, <1>10, <1>12, <2>3, <2>4, <2>5
<1>. QED  BY <1>6, <1>9, <1>10, <1>11, <1>12, <1>13, <1>14, <1>15, <1>16

(* dropLocked: of the dropped sessions only their activities are left, and *)
(* what could not be removed.                                              *)
LeftOf(s) ==
    s \in stray' /\ disk[s].saved # None /\ disk'[s].saved = disk[s].saved /\ disk'[s].dir

LEMMA DropsIs ==
    ASSUME Shapes, OneTaskEach, NEW S \in SUBSET Session, Drops(S)
    PROVE  /\ open' = open \ S
           /\ view' \in [Session -> Views] /\ \A s \in Session \ S : view'[s] = view[s]
           /\ disk' \in [Session -> Dirs] /\ \A s \in Session \ S : disk'[s] = disk[s]
           /\ \A s \in S : disk'[s] = NoDir \/ LeftOf(s)
           /\ stray \subseteq stray' /\ stray' \subseteq stray \cup S
           /\ stray' \in SUBSET Session /\ unsaved' = unsaved \ S
           /\ pending' \in Seq(Tasks) /\ OneTaskEach'
           /\ \A s \in Session : Tasked(s)' <=> Tasked(s) /\ s \notin S
           /\ pending = <<>> => pending' = <<>>
           /\ ended' \subseteq Worker \cup Session
           /\ cancel' \in [Session -> Worker \cup Session \cup {None}]
<1>1. NoView \in Views /\ NoDir \in Dirs
  BY DEF NoView, NoDir, Views, Statuses, Dirs
<1>2. pending \in Seq(Tasks) /\ pending' = TasksWithout(S)
  BY DEF Shapes, PlainShapes, ContextShapes, Drops, DropsEnding
<1>3. /\ pending' \in Seq(Tasks) /\ OneTaskEach'
      /\ \A s \in Session : Tasked(s)' <=> Tasked(s) /\ s \notin S
      /\ pending = <<>> => pending' = <<>>
  BY <1>2, TasksThatStay
<1>4. /\ view' = [s \in Session |-> IF s \in S THEN NoView ELSE view[s]]
      /\ cancel' = [s \in Session |-> IF s \in S THEN None ELSE cancel[s]]
      /\ open' = open \ S /\ ended' = ended \cup ({cancel[s] : s \in S} \ {None})
      /\ unsaved' = unsaved \ S
      /\ \E left \in Removals(S) :
            /\ disk' = [s \in Session |-> IF s \in S THEN left[s] ELSE disk[s]]
            /\ stray' = stray \cup {s \in S : left[s].saved # None}
  BY DEF Drops, DropsEnding
<1>5. /\ view \in [Session -> Views] /\ disk \in [Session -> Dirs]
      /\ cancel \in [Session -> Worker \cup Session \cup {None}]
      /\ ended \subseteq Worker \cup Session /\ stray \in SUBSET Session
  BY DEF Shapes, PlainShapes, ContextShapes
<1>6. /\ view' \in [Session -> Views] /\ \A s \in Session \ S : view'[s] = view[s]
      /\ disk' \in [Session -> Dirs] /\ \A s \in Session \ S : disk'[s] = disk[s]
      /\ \A s \in S : disk'[s] = NoDir \/ LeftOf(s)
      /\ stray \subseteq stray' /\ stray' \subseteq stray \cup S /\ stray' \in SUBSET Session
  <2>1. PICK left \in Removals(S) :
           /\ disk' = [s \in Session |-> IF s \in S THEN left[s] ELSE disk[s]]
           /\ stray' = stray \cup {s \in S : left[s].saved # None}
    BY <1>4
  <2>2. \A s \in S : left[s] \in Remnants(disk[s])
    BY <2>1 DEF Removals
  <2>3. ASSUME NEW s \in S
        PROVE  /\ left[s] \in Dirs
               /\ left[s] = NoDir \/ (disk[s].saved # None /\ left[s].saved = disk[s].saved /\ left[s].dir)
    <3>1. PICK d \in Dirs : d = disk[s]
      BY <1>5
    <3>2. left[s] \in Remnants(d)
      BY <2>2, <3>1
    <3>3. left[s] = NoDir \/ /\ d.saved # None
                             /\ left[s] \in [dir : {TRUE}, upload : {FALSE, d.upload}, source : {FALSE, d.source},
                                             tracks : SUBSET d.tracks, transcript : {FALSE, d.transcript},
                                             saved : {d.saved}]
      BY <3>2 DEF Remnants
    <3>4. CASE left[s] = NoDir
      BY <1>1, <3>4
    <3>5. CASE left[s] # NoDir
      BY <3>1, <3>3, <3>5 DEF Dirs
    <3>. QED  BY <3>4, <3>5
  <2>4. view' \in [Session -> Views] /\ \A s \in Session \ S : view'[s] = view[s]
    BY <1>1, <1>4, <1>5
  <2>5. disk' \in [Session -> Dirs] /\ \A s \in Session \ S : disk'[s] = disk[s]
    BY <1>5, <2>1, <2>3
  <2>6. \A s \in S : disk'[s] = left[s]
    BY <2>1
  <2>. QED  BY <1>5, <2>1, <2>3, <2>4, <2>5, <2>6 DEF LeftOf
<1>7. cancel' \in [Session -> Worker \cup Session \cup {None}]
  BY <1>4, <1>5
<1>8. ended' \subseteq Worker \cup Session
  BY <1>4, <1>5
<1>. QED  BY <1>3, <1>4, <1>6, <1>7, <1>8

(* The sections that drop sessions, and what they change beside it.        *)
Removes(S) ==
    /\ Drops(S)
    /\ (S # {} /\ phase' = phase) \/ (phase = "stopping" /\ phase' = "stopped")
    /\ \/ creating' = creating
       \/ \E s \in S : creating[s] = "uploading" /\ creating' = [creating EXCEPT ![s] = "created"]
    /\ UNCHANGED <<starts, wake, worker, follow, job, intact>>

(* Delete, Expire, a Create whose upload failed, and the end of Close.     *)
LEMMA SectionsRemove ==
    ASSUME Shapes,
           CloseEnds \/ \E s \in Session : Delete(s) \/ Expire(s) \/ (s \in open /\ CreateFails(s))
    PROVE  \E S \in SUBSET open : Removes(S)
<1>1. CASE CloseEnds
  <2> DEFINE S == {s \in open : ~view[s].keep}
  <2>1. S \in SUBSET open /\ Removes(S)
    BY <1>1 DEF CloseEnds, Removes
  <2>. QED  BY <2>1
<1>2. ASSUME NEW s \in Session, Delete(s) \/ Expire(s) \/ (s \in open /\ CreateFails(s))
      PROVE  \E S \in SUBSET open : Removes(S)
  <2>1. s \in open /\ Removes({s})
    BY <1>2 DEF Delete, Expire, CreateFails, Removes
  <2>2. {s} \in SUBSET open
    BY <2>1
  <2>. QED  BY <2>1, <2>2, Zenon
<1>. QED  BY <1>1, <1>2

(* restore: the choice and the limits' side of it are those of the state   *)
(* file, the only work that is taken up again is an analysis in line.      *)
LEMMA RestoredIs ==
    ASSUME NEW d \in Dirs, d.saved # None
    PROVE  /\ Restored(d) \in Views /\ Restored(d).keep = d.saved.keep
           /\ Restored(d).voices = d.saved.voices /\ Restored(d).stale = d.saved.stale
           /\ Restored(d).tracks = d.saved.tracks \cap d.tracks
           /\ Restored(d).transcript = "succeeded" => d.saved.transcript = "succeeded"
           /\ Busy(Restored(d).status) <=> Restored(d).status = "queued"
           /\ ~Busy(d.saved.status) => Restored(d) = [d.saved EXCEPT !.tracks = @ \cap d.tracks]
<1>1. PICK v : v = [d.saved EXCEPT !.tracks = @ \cap d.tracks]
  OBVIOUS
<1>2. /\ v \in Views /\ v.keep = d.saved.keep /\ v.voices = d.saved.voices
      /\ v.stale = d.saved.stale /\ v.status = d.saved.status /\ v.transcript = d.saved.transcript
      /\ v.tracks = d.saved.tracks \cap d.tracks
  BY <1>1 DEF Dirs, Views
<1>3. Restored(d) = AfterRestart(v, d)
  BY <1>1 DEF Restored
<1>4. CASE ~Busy(v.status)
  <2>1. Restored(d) = v
    BY <1>3, <1>4 DEF AfterRestart
  <2>2. v.status # "queued"
    BY <1>4 DEF Busy
  <2>. QED  BY <1>1, <1>2, <1>4, <2>1, <2>2
<1>5. CASE Busy(v.status)
  <2> DEFINE st == CASE v.voices = {} /\ d.upload -> "queued"
                     [] v.voices = {} /\ ~d.upload -> "failed"
                     [] v.voices # {} /\ v.tracks # {} -> "done"
                     [] OTHER -> "awaiting_selection"
             tr == IF v.transcript \in {"queued", "running"} THEN "failed" ELSE v.transcript
  <2>1. st \in {"queued", "failed", "done", "awaiting_selection"}
    BY DEF Dirs
  <2>2. tr \in {"none", "succeeded", "failed"} /\ (tr = "succeeded" => v.transcript = "succeeded")
    BY <1>2 DEF Views
  <2>3. Restored(d) = [v EXCEPT !.status = st, !.transcript = tr]
    BY <1>3, <1>5 DEF AfterRestart
  <2> HIDE DEF st, tr
  <2>4. /\ Restored(d) \in Views /\ Restored(d).status = st /\ Restored(d).transcript = tr
        /\ Restored(d).keep = v.keep /\ Restored(d).voices = v.voices
        /\ Restored(d).stale = v.stale /\ Restored(d).tracks = v.tracks
    BY <1>2, <2>1, <2>2, <2>3 DEF Views, Statuses
  <2>5. Busy(st) <=> st = "queued"
    BY <2>1 DEF Busy
  <2>. QED  BY <1>2, <1>5, <2>2, <2>4, <2>5
<1>. QED  BY <1>4, <1>5

(* New and Start: what is in memory is what the state files said that could*)
(* be restored, each unfinished analysis is in line again, every worker    *)
(* looks.                                                                  *)
LEMMA RestartIs ==
    ASSUME Shapes, Restart
    PROVE  /\ phase = "down" /\ phase' = "running" /\ starts' \in 1 .. MaxStarts
           /\ open' \subseteq {s \in Session : disk[s].saved # None}
           /\ {s \in Session : disk[s].saved # None} \subseteq open' \cup stray'
           /\ stray \subseteq stray' /\ stray' \in SUBSET Session /\ unsaved' = {}
           /\ view' \in [Session -> Views] /\ \A s \in open' : view'[s] = Restored(disk[s])
           /\ disk' \in [Session -> Dirs]
           /\ \A s \in Session : disk'[s] = IF disk[s].saved # None THEN disk[s] ELSE NoDir
           /\ pending' \in Seq(Tasks) /\ OneTaskEach'
           /\ \A s \in Session : Tasked(s)' <=> s \in open' /\ view'[s].status = "queued"
           /\ worker' = [w \in Worker |-> Resting("looking")]
           /\ intact' = [s \in Session |-> IF s \in unsaved \cup stray THEN "torn" ELSE intact[s]]
           /\ UNCHANGED <<creating, wake, follow, cancel, ended, job>>
<1> DEFINE filed == {s \in Session : disk[s].saved # None}
           Q == {k \in open' : view'[k].status = "queued"}
<1>1. /\ phase = "down" /\ phase' = "running" /\ starts < MaxStarts /\ starts' = starts + 1
      /\ disk' = [s \in Session |-> IF s \in filed THEN disk[s] ELSE NoDir]
      /\ unsaved' = {}
      /\ pending' = SetToSeq({Task(s, "analyse", {}) : s \in Q})
      /\ worker' = [w \in Worker |-> Resting("looking")]
      /\ intact' = [s \in Session |-> IF s \in unsaved \cup stray THEN "torn" ELSE intact[s]]
      /\ UNCHANGED <<creating, wake, follow, cancel, ended, job>>
  BY DEF Restart
<1>b. PICK broken \in SUBSET filed :
         /\ open' = filed \ broken
         /\ view' = [s \in Session |-> IF s \in filed \ broken THEN Restored(disk[s]) ELSE NoView]
         /\ stray' = stray \cup broken
  BY DEF Restart
<1>2. disk \in [Session -> Dirs] /\ starts \in 1 .. MaxStarts /\ MaxStarts \in Nat /\ stray \in SUBSET Session
  BY IsolationAssumption DEF Shapes, PlainShapes, ContextShapes
<1>3. NoView \in Views /\ NoDir \in Dirs
  BY DEF NoView, NoDir, Views, Statuses, Dirs
<1>4. \A s \in filed : disk[s] \in Dirs /\ Restored(disk[s]) \in Views
  BY <1>2, RestoredIs
<1>5. Q \in SUBSET Session
  BY <1>b
<1>6. /\ pending' \in Seq(Tasks) /\ OneTaskEach'
      /\ \A s \in Session : Tasked(s)' <=> s \in Q
  <2>1. PICK R \in SUBSET Session : R = Q
    BY <1>5
  <2>2. pending' = SetToSeq({Task(s, "analyse", {}) : s \in R})
    BY <1>1, <2>1
  <2> HIDE DEF Q
  <2>. QED  BY <2>1, <2>2, TasksThatComeBack
<1>7. /\ view' \in [Session -> Views] /\ \A s \in open' : view'[s] = Restored(disk[s])
      /\ open' \subseteq filed /\ filed \subseteq open' \cup stray'
      /\ stray \subseteq stray' /\ stray' \in SUBSET Session
  BY <1>b, <1>2, <1>3, <1>4
<1>8. /\ disk' \in [Session -> Dirs]
      /\ \A s \in Session : disk'[s] = IF disk[s].saved # None THEN disk[s] ELSE NoDir
  BY <1>1, <1>2, <1>3
<1>9. \A s \in Session : Tasked(s)' <=> s \in open' /\ view'[s].status = "queued"
  BY <1>6, <1>7
<1>. QED  BY <1>1, <1>2, <1>6, <1>7, <1>8, <1>9

-----------------------------------------------------------------------------
(* What each section that rewrites a record makes of it.                   *)

(* The view of one session is replaced by another view.                    *)
LEMMA BecomesIs ==
    ASSUME Shapes, NEW s \in Session, NEW v \in Views, Becomes(s, v)
    PROVE  /\ view' \in [Session -> Views] /\ view'[s] = v
           /\ \A x \in Session \ {s} : view'[x] = view[x]
BY DEF Becomes, Shapes

(* The parts of a view that say what is on offer and whether it is kept,   *)
(* and those about the transcript; the parts of a directory.               *)
SameOffer(u, v) == u.keep = v.keep /\ u.voices = v.voices /\ u.tracks = v.tracks
SameText(u, v) == u.transcript = v.transcript /\ u.stale = v.stale
SameFiles(d, e) == d.dir = e.dir /\ d.transcript = e.transcript /\ d.saved = e.saved

(* next hands the first task of the line to the worker, and signals again  *)
(* when it leaves others behind.                                           *)
LEMMA NextTakesIs ==
    ASSUME Shapes, OneTaskEach, NEW w \in Worker, NextTakes(w)
    PROVE  \E t \in Tasks :
              /\ t.s \in Session /\ Tasked(t.s)
              /\ worker' = [worker EXCEPT ![w] = worker'[w]] /\ WorkersFit'
              /\ worker[w].pc = "looking" /\ worker'[w].pc = "taken" /\ worker'[w].s = t.s
              /\ worker'[w].kind = t.kind
              /\ pending # <<>> /\ pending' \in Seq(Tasks) /\ OneTaskEach'
              /\ pending' # <<>> => wake'
              /\ \A s \in Session : Tasked(s)' <=> Tasked(s) /\ s # t.s
              /\ wake => wake'
<1>1. /\ worker[w].pc = "looking" /\ pending # <<>> /\ pending' = Tail(pending)
      /\ wake' = (wake \/ Len(pending) > 1) /\ pending \in Seq(Tasks)
      /\ worker' = [worker EXCEPT ![w] = [Resting("taken") EXCEPT !.s = Head(pending).s,
                        !.kind = Head(pending).kind, !.todo = Head(pending).todo]]
  BY DEF NextTakes, WorkerIs, Shapes, PlainShapes
<1>2. /\ pending' \in Seq(Tasks) /\ OneTaskEach'
      /\ Head(pending) \in Tasks /\ Tasked(Head(pending).s)
      /\ \A s \in Session : Tasked(s)' <=> Tasked(s) /\ s # Head(pending).s
      /\ pending' # <<>> => Len(pending) > 1
  BY <1>1, TaskThatLeaves
<1>3. PICK t \in Tasks : t = Head(pending)
  BY <1>2
<1> DEFINE r == [Resting("taken") EXCEPT !.s = t.s, !.kind = t.kind, !.todo = t.todo]
<1>4. worker' = [worker EXCEPT ![w] = r]
  BY <1>1, <1>3, Zenon
<1>5. r \in Runs /\ Fit(r) /\ r.pc = "taken" /\ r.s = t.s /\ r.kind = t.kind
  BY IsolationAssumption, <1>3 DEF Tasks, Runs, Fit, Resting
<1>6. WorkersFit /\ worker \in [Worker -> Runs]
  BY DEF Shapes, WorkersFit
<1>7. worker'[w] = r /\ worker' = [worker EXCEPT ![w] = worker'[w]] /\ WorkersFit'
  <2> HIDE DEF r
  <2>. QED  BY <1>4, <1>5, <1>6 DEF WorkersFit
<1>8. t.s \in Session
  BY DEF Tasks
<1> HIDE DEF r
<1>. QED  BY <1>1, <1>2, <1>3, <1>5, <1>7, <1>8

(* analyse, its first half: the recording is on the disk, the view is busy.*)
LEMMA DecodeIs ==
    ASSUME Shapes, NEW w \in Worker, NEW s \in Session, s = worker[w].s, Decode(w)
    PROVE  /\ view' \in [Session -> Views] /\ \A x \in Session \ {s} : view'[x] = view[x]
           /\ s \notin open => view' = view
           /\ s \in open => /\ view'[s].status = "analysing"
                            /\ SameOffer(view'[s], view[s]) /\ SameText(view'[s], view[s])
           /\ disk' \in [Session -> Dirs] /\ \A x \in Session \ {s} : disk'[x] = disk[x]
           /\ disk'[s].source /\ disk'[s].tracks = disk[s].tracks /\ SameFiles(disk'[s], disk[s])
<1>1. view[s] \in Views /\ disk[s] \in Dirs /\ disk \in [Session -> Dirs] /\ view \in [Session -> Views]
  BY DEF Shapes
<1> DEFINE v == [view[s] EXCEPT !.status = "analysing"]
           d(there) == [disk[s] EXCEPT !.source = TRUE, !.upload = there]
<1>2. v \in Views /\ v.status = "analysing" /\ SameOffer(v, view[s]) /\ SameText(v, view[s])
  BY <1>1 DEF Views, Statuses, SameOffer, SameText
<1>3. \A there \in BOOLEAN :
         d(there) \in Dirs /\ d(there).source /\ d(there).tracks = disk[s].tracks /\ SameFiles(d(there), disk[s])
  BY <1>1 DEF Dirs, SameFiles
<1>4. /\ \E there \in BOOLEAN : disk' = [disk EXCEPT ![s] = d(there)]
      /\ IF s \in open THEN Becomes(s, v) ELSE view' = view
  <2>1. PICK there \in {FALSE} \cup Failing("remove", TRUE) :
           disk' = [disk EXCEPT ![s].source = TRUE, ![s].upload = there]
    BY DEF Decode
  <2>2. there \in BOOLEAN
    BY DEF Failing
  <2>3. disk' = [disk EXCEPT ![s] = d(there)]
    BY <1>1, <2>1
  <2>4. IF s \in open THEN Becomes(s, v) ELSE view' = view
    BY DEF Decode
  <2> HIDE DEF v, d
  <2>. QED  BY <2>2, <2>3, <2>4
<1> HIDE DEF v, d
<1>. QED  BY <1>1, <1>2, <1>3, <1>4 DEF Becomes

(* analyse, its second half: the voices can be chosen.                     *)
LEMMA VoicesIs ==
    ASSUME Shapes, NEW w \in Worker, NEW sm \in SUBSET Voice, NEW s \in Session,
           s = worker[w].s, Voices(w, sm)
    PROVE  /\ view' \in [Session -> Views] /\ \A x \in Session \ {s} : view'[x] = view[x]
           /\ s \notin open => view' = view
           /\ s \in open => /\ view'[s].status = "awaiting_selection"
                            /\ view'[s].keep = view[s].keep /\ view'[s].tracks = view[s].tracks
                            /\ SameText(view'[s], view[s])
<1>1. view[s] \in Views /\ view \in [Session -> Views]
  BY DEF Shapes
<1> DEFINE v == [view[s] EXCEPT !.voices = Voice, !.sampled = sm, !.status = "awaiting_selection"]
<1>2. /\ v \in Views /\ v.status = "awaiting_selection" /\ v.keep = view[s].keep
      /\ v.tracks = view[s].tracks /\ SameText(v, view[s])
  BY <1>1 DEF Views, Statuses, SameText
<1>3. IF s \in open THEN Becomes(s, v) ELSE view' = view
  BY DEF Voices
<1> HIDE DEF v
<1>. QED  BY <1>1, <1>2, <1>3 DEF Becomes

(* extract writes a track that it does not show yet.                       *)
LEMMA WriteTrackIs ==
    ASSUME Shapes, NEW w \in Worker, NEW v \in Voice, NEW s \in Session,
           s = worker[w].s, WriteTrack(w, v)
    PROVE  /\ view' \in [Session -> Views] /\ \A x \in Session \ {s} : view'[x] = view[x]
           /\ s \notin open => view' = view
           /\ s \in open => /\ view'[s].status = "extracting"
                            /\ SameOffer(view'[s], view[s]) /\ SameText(view'[s], view[s])
           /\ disk' \in [Session -> Dirs] /\ \A x \in Session \ {s} : disk'[x] = disk[x]
           /\ disk'[s].tracks = disk[s].tracks \cup {v}
           /\ disk'[s].source = disk[s].source /\ SameFiles(disk'[s], disk[s])
           /\ worker' \in [Worker -> Runs] /\ \A x \in Worker \ {w} : worker'[x] = worker[x]
           /\ worker[w].pc = "working" /\ worker'[w].pc = "written" /\ worker'[w].made = v
           /\ worker'[w].s = s /\ worker'[w].kind = worker[w].kind /\ WorkersFit'
<1>1. /\ view[s] \in Views /\ disk[s] \in Dirs /\ disk \in [Session -> Dirs] /\ view \in [Session -> Views]
      /\ worker \in [Worker -> Runs] /\ worker[w] \in Runs /\ Fit(worker[w]) /\ WorkersFit
  BY DEF Shapes, WorkersFit
<1> DEFINE u == [view[s] EXCEPT !.status = "extracting"]
           d == [disk[s] EXCEPT !.tracks = @ \cup {v}]
           r == [worker[w] EXCEPT !.pc = "written", !.made = v]
<1>2. u \in Views /\ u.status = "extracting" /\ SameOffer(u, view[s]) /\ SameText(u, view[s])
  BY <1>1 DEF Views, Statuses, SameOffer, SameText
<1>3. /\ d \in Dirs /\ d.tracks = disk[s].tracks \cup {v} /\ d.source = disk[s].source
      /\ SameFiles(d, disk[s])
  BY <1>1 DEF Dirs, SameFiles
<1>4. /\ disk' = [disk EXCEPT ![s] = d] /\ IF s \in open THEN Becomes(s, u) ELSE view' = view
      /\ worker' = [worker EXCEPT ![w] = r] /\ worker[w].pc = "working"
  BY <1>1 DEF WriteTrack, WorkerIs
<1>5. r \in Runs /\ Fit(r) /\ r.pc = "written" /\ r.made = v /\ r.s = s /\ r.kind = worker[w].kind
  BY <1>1, <1>4 DEF Runs, Fit
<1> HIDE DEF u, d, r
<1>6. /\ worker' \in [Worker -> Runs] /\ worker'[w] = r /\ WorkersFit'
      /\ \A x \in Worker \ {w} : worker'[x] = worker[x]
  BY <1>1, <1>4, <1>5 DEF WorkersFit
<1>7. /\ view' \in [Session -> Views] /\ \A x \in Session \ {s} : view'[x] = view[x]
      /\ s \notin open => view' = view
      /\ s \in open => view'[s] = u
  BY <1>1, <1>2, <1>4 DEF Becomes
<1>8. disk' \in [Session -> Dirs] /\ disk'[s] = d /\ \A x \in Session \ {s} : disk'[x] = disk[x]
  BY <1>1, <1>3, <1>4
<1>. QED  BY <1>2, <1>3, <1>4, <1>5, <1>6, <1>7, <1>8

(* extract shows the track, and says so in the state file.                 *)
LEMMA PutTrackIs ==
    ASSUME Shapes, NEW w \in Worker, NEW s \in Session, s = worker[w].s, PutTrack(w)
    PROVE  /\ view' \in [Session -> Views] /\ \A x \in Session \ {s} : view'[x] = view[x]
           /\ s \notin open => view' = view /\ disk' = disk /\ unsaved' = unsaved
           /\ s \in open => /\ view'[s].tracks = view[s].tracks \cup {worker[w].made}
                            /\ view'[s].status = view[s].status /\ view'[s].keep = view[s].keep
                            /\ view'[s].voices = view[s].voices /\ SameText(view'[s], view[s])
           /\ s \in open => Saves(s, view'[s], disk[s])
           /\ disk' \in [Session -> Dirs] /\ \A x \in Session \ {s} : disk'[x] = disk[x]
           /\ UnsavedApart(s)
           /\ worker' \in [Worker -> Runs] /\ \A x \in Worker \ {w} : worker'[x] = worker[x]
           /\ worker[w].pc = "written" /\ worker'[w].s = s /\ worker'[w].kind = worker[w].kind
           /\ worker'[w].pc = IF s \in open THEN "working" ELSE "finishing"
           /\ WorkersFit'
<1>1. /\ view[s] \in Views /\ disk[s] \in Dirs /\ disk \in [Session -> Dirs] /\ view \in [Session -> Views]
      /\ worker \in [Worker -> Runs] /\ worker[w] \in Runs /\ Fit(worker[w]) /\ WorkersFit
  BY DEF Shapes, WorkersFit
<1>2. worker[w].pc = "written" /\ worker[w].made \in Voice
  BY <1>1 DEF PutTrack, Fit
<1> DEFINE v == [view[s] EXCEPT !.tracks = @ \cup {worker[w].made}]
           r == IF s \in open
                THEN [worker[w] EXCEPT !.pc = "working", !.todo = @ \ {worker[w].made}, !.made = None]
                ELSE [worker[w] EXCEPT !.pc = "finishing", !.made = None]
<1>3. /\ v \in Views /\ v.tracks = view[s].tracks \cup {worker[w].made}
      /\ v.status = view[s].status /\ v.keep = view[s].keep
      /\ v.voices = view[s].voices /\ SameText(v, view[s])
  BY <1>1, <1>2 DEF Views, SameText
<1>4. /\ r \in Runs /\ Fit(r) /\ r.s = s /\ r.kind = worker[w].kind
      /\ r.pc = IF s \in open THEN "working" ELSE "finishing"
  BY <1>1, <1>2, IsolationAssumption DEF Runs, Fit
<1>5. /\ IF s \in open THEN Becomes(s, v) /\ Saves(s, v, disk[s]) ELSE view' = view /\ disk' = disk /\ unsaved' = unsaved
      /\ worker' = [worker EXCEPT ![w] = r]
  BY DEF PutTrack, WorkerIs
<1> HIDE DEF r, v
<1>6. /\ worker' \in [Worker -> Runs] /\ \A x \in Worker \ {w} : worker'[x] = worker[x]
      /\ worker'[w] = r /\ WorkersFit'
  BY <1>1, <1>4, <1>5 DEF WorkersFit
<1>7. CASE s \in open
  <2>1. PICK u \in Views : u = v
    BY <1>3
  <2>2. Becomes(s, u) /\ Saves(s, u, disk[s])
    BY <1>5, <1>7, <2>1
  <2>3. /\ view' \in [Session -> Views] /\ view'[s] = u
        /\ \A x \in Session \ {s} : view'[x] = view[x]
    BY <2>2, BecomesIs
  <2>4. /\ disk' \in [Session -> Dirs] /\ \A x \in Session \ {s} : disk'[x] = disk[x]
        /\ UnsavedApart(s)
    BY <1>1, <2>2, SavesIs
  <2>5. Saves(s, view'[s], disk[s])
    BY <2>2, <2>3
  <2>. QED  BY <1>2, <1>3, <1>4, <1>6, <1>7, <2>1, <2>3, <2>4, <2>5
<1>8. CASE s \notin open
  <2>1. UnsavedApart(s)
    BY <1>5, <1>8 DEF Shapes, PlainShapes, UnsavedApart
  <2>. QED  BY <1>1, <1>2, <1>4, <1>5, <1>6, <1>8, <2>1
<1>. QED  BY <1>7, <1>8

(* The last track is made: an extraction is done, a transcription goes on. *)
LEMMA ExtractedIs ==
    ASSUME Shapes, NEW w \in Worker, NEW s \in Session, s = worker[w].s, Extracted(w)
    PROVE  /\ view' \in [Session -> Views] /\ \A x \in Session \ {s} : view'[x] = view[x]
           /\ IF s \in open /\ worker[w].kind = "extract"
              THEN /\ view'[s].status = "done"
                   /\ SameOffer(view'[s], view[s]) /\ SameText(view'[s], view[s])
              ELSE view' = view
<1>1. view[s] \in Views /\ view \in [Session -> Views]
  BY DEF Shapes
<1> DEFINE v == [view[s] EXCEPT !.status = "done"]
<1>2. v \in Views /\ v.status = "done" /\ SameOffer(v, view[s]) /\ SameText(v, view[s])
  BY <1>1 DEF Views, Statuses, SameOffer, SameText
<1>3. IF s \in open /\ worker[w].kind = "extract" THEN Becomes(s, v) ELSE view' = view
  BY DEF Extracted
<1> HIDE DEF v
<1>. QED  BY <1>1, <1>2, <1>3 DEF Becomes

(* run leaves a transcription to its follower.                             *)
LEMMA RunHandsOverIs ==
    ASSUME Shapes, NEW w \in Worker, NEW s \in Session, s = worker[w].s, RunHandsOver(w)
    PROVE  /\ s \in open
           /\ view' \in [Session -> Views] /\ \A x \in Session \ {s} : view'[x] = view[x]
           /\ view'[s].status = "transcribing" /\ view'[s].transcript = "running"
           /\ SameOffer(view'[s], view[s])
           /\ Saves(s, view'[s], disk[s])
           /\ disk' \in [Session -> Dirs] /\ \A x \in Session \ {s} : disk'[x] = disk[x]
           /\ UnsavedApart(s)
           /\ follow' \in [Session -> Follows] /\ \A x \in Session \ {s} : follow'[x] = follow[x]
           /\ follow'[s].pc = "submitting"
<1>1. view[s] \in Views /\ disk \in [Session -> Dirs] /\ view \in [Session -> Views]
      /\ follow \in [Session -> Follows]
  BY DEF Shapes
<1>2. PICK v : v = [view[s] EXCEPT !.status = "transcribing", !.transcript = "running", !.stale = FALSE]
  OBVIOUS
<1>3. /\ v \in Views /\ v.tracks \in SUBSET Voice
      /\ v.status = "transcribing" /\ v.transcript = "running" /\ SameOffer(v, view[s])
  BY <1>1, <1>2 DEF Views, Statuses, SameOffer
<1> DEFINE f == [pc |-> "submitting", todo |-> v.tracks, jobs |-> {}, ok |-> TRUE]
<1>4. f \in Follows /\ f.pc = "submitting"
  BY <1>3 DEF Follows
<1>5. s \in open /\ Becomes(s, v) /\ Saves(s, v, disk[s]) /\ follow' = [follow EXCEPT ![s] = f]
  BY <1>2 DEF RunHandsOver
<1> HIDE DEF f
<1>6. /\ view' \in [Session -> Views] /\ view'[s] = v
      /\ \A x \in Session \ {s} : view'[x] = view[x]
  BY <1>3, <1>5, BecomesIs
<1>7. /\ disk' \in [Session -> Dirs] /\ \A x \in Session \ {s} : disk'[x] = disk[x]
      /\ UnsavedApart(s)
  BY <1>1, <1>3, <1>5, SavesIs
<1>8. /\ follow' \in [Session -> Follows] /\ \A x \in Session \ {s} : follow'[x] = follow[x]
      /\ follow'[s].pc = "submitting"
  BY <1>1, <1>4, <1>5
<1>. QED  BY <1>3, <1>5, <1>6, <1>7, <1>8

(* run ends: the view is as it was or failed, and is saved.                *)
LEMMA RunEndsIs ==
    ASSUME Shapes, NEW w \in Worker, NEW s \in Session, s = worker[w].s, RunEnds(w)
    PROVE  /\ worker[w].pc \in {"finishing", "failing"}
           /\ worker[w].pc = "finishing" => worker[w].kind # "transcribe" \/ s \notin open
           /\ view' \in [Session -> Views] /\ \A x \in Session \ {s} : view'[x] = view[x]
           /\ s \notin open => view' = view /\ disk' = disk /\ unsaved' = unsaved
           /\ s \in open =>
                 /\ Saves(s, view'[s], disk[s]) /\ SameOffer(view'[s], view[s])
                 /\ view'[s].stale = view[s].stale
                 /\ view'[s].transcript \in {view[s].transcript, "failed"}
                 /\ worker[w].pc = "finishing" => view'[s] = view[s]
                 /\ worker[w].pc = "failing" => view'[s].status = "failed"
           /\ disk' \in [Session -> Dirs] /\ \A x \in Session \ {s} : disk'[x] = disk[x]
           /\ UnsavedApart(s)
           /\ worker' = [worker EXCEPT ![w] = Resting("looking")]
           /\ UNCHANGED <<OnlyWorker, pending, wake>> /\ ContextShapes'
<1>1. view[s] \in Views /\ disk \in [Session -> Dirs] /\ view \in [Session -> Views]
  BY DEF Shapes
<1>2. PICK v : v = ViewAtEnd(w)
  OBVIOUS
<1>3. /\ worker[w].pc \in {"finishing", "failing"}
      /\ worker[w].pc = "finishing" => worker[w].kind # "transcribe" \/ s \notin open
      /\ IF s \in open THEN Becomes(s, v) /\ Saves(s, v, disk[s]) ELSE view' = view /\ disk' = disk /\ unsaved' = unsaved
      /\ worker' = [worker EXCEPT ![w] = Resting("looking")]
      /\ UNCHANGED <<OnlyWorker, pending, wake>>
  <2>1. RunEndsWith(w, Saves(s, v, disk[s]))
    BY <1>2 DEF RunEnds
  <2>2. /\ worker[w].pc \in {"finishing", "failing"}
        /\ worker[w].pc = "finishing" => worker[w].kind # "transcribe" \/ s \notin open
        /\ IF s \in open THEN Becomes(s, v) /\ Saves(s, v, disk[s])
                         ELSE view' = view /\ disk' = disk /\ unsaved' = unsaved
        /\ worker' = [worker EXCEPT ![w] = Resting("looking")]
        /\ UNCHANGED <<OnlyWorker, pending, wake>>
    BY <1>2, <2>1, Zenon DEF RunEndsWith, WorkerIs
  <2>. QED  BY <2>2, Zenon
<1>4. /\ v \in Views /\ SameOffer(v, view[s]) /\ v.stale = view[s].stale
      /\ v.transcript \in {view[s].transcript, "failed"}
      /\ worker[w].pc = "finishing" => v = view[s]
      /\ worker[w].pc = "failing" => v.status = "failed"
  BY <1>1, <1>2, <1>3 DEF ViewAtEnd, SameOffer, Views, Statuses
<1>5. ContextShapes'
  BY DEF RunEnds, RunEndsWith, Shapes, ContextShapes
<1>6. CASE s \in open
  <2>1. /\ view' \in [Session -> Views] /\ view'[s] = v
        /\ \A x \in Session \ {s} : view'[x] = view[x]
    BY <1>3, <1>4, <1>6, BecomesIs
  <2>2. /\ disk' \in [Session -> Dirs] /\ \A x \in Session \ {s} : disk'[x] = disk[x]
        /\ UnsavedApart(s)
    BY <1>1, <1>3, <1>4, <1>6, SavesIs
  <2>3. Saves(s, view'[s], disk[s])
    BY <1>3, <1>6, <2>1
  <2>. QED  BY <1>5, <1>3, <1>4, <1>6, <2>1, <2>2, <2>3
<1>7. CASE s \notin open
  <2>1. UnsavedApart(s)
    BY <1>3, <1>7 DEF Shapes, PlainShapes, UnsavedApart
  <2>. QED  BY <1>5, <1>1, <1>3, <1>7, <2>1
<1>. QED  BY <1>6, <1>7

(* followJobs saves the state once every job is submitted.                 *)
LEMMA SubmittedIs ==
    ASSUME Shapes, NEW s \in Session, Submitted(s)
    PROVE  /\ disk' \in [Session -> Dirs] /\ \A x \in Session \ {s} : disk'[x] = disk[x]
           /\ UnsavedApart(s)
           /\ s \notin open => disk' = disk /\ unsaved' = unsaved
           /\ s \in open => Saves(s, view[s], disk[s])
<1>1. view[s] \in Views /\ disk \in [Session -> Dirs]
  BY DEF Shapes
<1>2. IF s \in open THEN Saves(s, view[s], disk[s]) ELSE disk' = disk /\ unsaved' = unsaved
  BY DEF Submitted
<1>3. CASE s \in open
  BY <1>1, <1>2, <1>3, SavesIs
<1>4. CASE s \notin open
  BY <1>1, <1>2, <1>4 DEF Shapes, PlainShapes, UnsavedApart
<1>. QED  BY <1>3, <1>4

(* followJobs writes the transcript, or fails to.                          *)
LEMMA TranscriptIs ==
    ASSUME Shapes, NEW s \in Session, WriteTranscript(s)
    PROVE  \E ok \in BOOLEAN :
              /\ ok => disk[s].dir
              /\ follow' = [follow EXCEPT ![s] = [follow[s] EXCEPT !.pc = "ending", !.ok = ok]]
              /\ disk' = [disk EXCEPT ![s] = [disk[s] EXCEPT !.transcript = disk[s].transcript \/ ok]]
              /\ intact' = [intact EXCEPT ![s] = IF ok THEN "yes" ELSE @] /\ view' = view
<1>1. disk \in [Session -> Dirs] /\ disk[s].dir \in BOOLEAN
  BY DEF Shapes, Dirs
<1>2. PICK ok \in {disk[s].dir} \cup Failing("write", FALSE) :
         /\ follow' = [follow EXCEPT ![s] = [follow[s] EXCEPT !.pc = "ending", !.ok = ok]]
         /\ disk' = [disk EXCEPT ![s].transcript = @ \/ ok]
         /\ intact' = [intact EXCEPT ![s] = IF ok THEN "yes" ELSE @] /\ view' = view
  BY Zenon DEF WriteTranscript, FollowerIs
<1>3. ok \in BOOLEAN /\ (ok => disk[s].dir)
  BY <1>1, <1>2 DEF Failing
<1>4. disk' = [disk EXCEPT ![s] = [disk[s] EXCEPT !.transcript = disk[s].transcript \/ ok]]
  BY <1>1, <1>2
<1>. QED  BY <1>2, <1>3, <1>4, Zenon

(* followJobs ends: the tracks are done, the transcript succeeded only if  *)
(* it was merged and written.                                              *)
LEMMA FollowEndsIs ==
    ASSUME Shapes, NEW s \in Session, FollowEnds(s)
    PROVE  /\ follow[s].pc = "ending" /\ follow' = [follow EXCEPT ![s] = NoFollow]
           /\ follow' \in [Session -> Follows] /\ follow'[s].pc = "none"
           /\ view' \in [Session -> Views] /\ \A x \in Session \ {s} : view'[x] = view[x]
           /\ s \notin open => view' = view /\ disk' = disk /\ unsaved' = unsaved
           /\ s \in open =>
                 /\ Saves(s, view'[s], disk[s]) /\ SameOffer(view'[s], view[s])
                 /\ view'[s].status = "done"
                 /\ view'[s].transcript = "succeeded" => follow[s].ok
           /\ disk' \in [Session -> Dirs] /\ \A x \in Session \ {s} : disk'[x] = disk[x]
           /\ UnsavedApart(s)
           /\ UNCHANGED <<OnlyFollower, job>> /\ ContextShapes'
<1>1. view[s] \in Views /\ disk \in [Session -> Dirs] /\ view \in [Session -> Views]
      /\ follow \in [Session -> Follows]
  BY DEF Shapes
<1>2. PICK v : v = [view[s] EXCEPT !.status = "done",
                       !.transcript = IF follow[s].ok THEN "succeeded" ELSE "failed"]
  OBVIOUS
<1>3. /\ follow[s].pc = "ending" /\ follow' = [follow EXCEPT ![s] = NoFollow]
      /\ IF s \in open THEN Becomes(s, v) /\ Saves(s, v, disk[s]) /\ cancel' = [cancel EXCEPT ![s] = None]
                       ELSE view' = view /\ disk' = disk /\ unsaved' = unsaved /\ cancel' = cancel
      /\ ended' = ended \ {s}
      /\ UNCHANGED <<OnlyFollower, job>>
  BY <1>2, Zenon DEF FollowEnds, FollowEndsWith, FollowerIs
<1>4. NoFollow \in Follows /\ NoFollow.pc = "none"
  BY DEF NoFollow, Follows
<1>5. /\ v \in Views /\ SameOffer(v, view[s]) /\ v.status = "done"
      /\ v.transcript = "succeeded" => follow[s].ok
  BY <1>1, <1>2 DEF SameOffer, Views, Statuses
<1>6. follow' \in [Session -> Follows] /\ follow'[s].pc = "none"
  BY <1>1, <1>3, <1>4
<1>7. ContextShapes'
  BY <1>3 DEF Shapes, ContextShapes
<1>8. CASE s \in open
  <2>1. /\ view' \in [Session -> Views] /\ view'[s] = v
        /\ \A x \in Session \ {s} : view'[x] = view[x]
    BY <1>3, <1>5, <1>8, BecomesIs
  <2>2. /\ disk' \in [Session -> Dirs] /\ \A x \in Session \ {s} : disk'[x] = disk[x]
        /\ UnsavedApart(s)
    BY <1>1, <1>3, <1>5, <1>8, SavesIs
  <2>3. Saves(s, view'[s], disk[s])
    BY <1>3, <1>8, <2>1
  <2>. QED  BY <1>3, <1>5, <1>6, <1>7, <1>8, <2>1, <2>2, <2>3
<1>9. CASE s \notin open
  <2>1. UnsavedApart(s)
    BY <1>3, <1>9 DEF Shapes, PlainShapes, UnsavedApart
  <2>. QED  BY <1>1, <1>3, <1>6, <1>7, <1>9, <2>1
<1>. QED  BY <1>8, <1>9

(* Update: the session changes sides, and has a state file on one of them, *)
(* if the file system does what it is told.                                *)
LEMMA UpdateIs ==
    ASSUME Shapes, NEW s \in Session, Update(s)
    PROVE  /\ s \in open /\ view'[s].keep = ~view[s].keep /\ Room(view'[s].keep)
           /\ view' \in [Session -> Views] /\ \A x \in Session \ {s} : view'[x] = view[x]
           /\ view'[s].status = view[s].status /\ view'[s].voices = view[s].voices
           /\ view'[s].tracks = view[s].tracks /\ SameText(view'[s], view[s])
           /\ disk' \in [Session -> Dirs] /\ \A x \in Session \ {s} : disk'[x] = disk[x]
           /\ disk'[s].dir = disk[s].dir /\ disk'[s].source = disk[s].source
           /\ disk'[s].tracks = disk[s].tracks /\ disk'[s].transcript = disk[s].transcript
           /\ UnsavedApart(s)
           /\ view'[s].keep => /\ Saves(s, view'[s], disk[s]) /\ stray' = stray
           /\ ~view'[s].keep => /\ disk'[s].saved \in {None, disk[s].saved}
                                /\ stray' = IF disk'[s].saved = None THEN stray ELSE stray \cup {s}
<1>1. view[s] \in Views /\ disk \in [Session -> Dirs] /\ disk[s] \in Dirs /\ unsaved \in SUBSET Session
  BY DEF Shapes, PlainShapes
<1>2. PICK v : v = [view[s] EXCEPT !.keep = ~@]
  OBVIOUS
<1>3. /\ v \in Views /\ v.keep = ~view[s].keep /\ v.status = view[s].status
      /\ v.voices = view[s].voices /\ v.tracks = view[s].tracks /\ SameText(v, view[s])
  BY <1>1, <1>2 DEF Views, SameText
<1>4. /\ s \in open /\ Room(v.keep) /\ Becomes(s, v)
      /\ IF v.keep THEN Saves(s, v, disk[s]) /\ stray' = stray ELSE Releases(s)
  BY <1>2 DEF Update
<1>5. view' \in [Session -> Views] /\ view'[s] = v /\ \A x \in Session \ {s} : view'[x] = view[x]
  BY <1>3, <1>4, BecomesIs
<1>6. CASE v.keep
  <2>1. Saves(s, v, disk[s]) /\ stray' = stray
    BY <1>4, <1>6
  <2>2. Saves(s, view'[s], disk[s])
    BY <1>5, <2>1
  <2>3. /\ disk' \in [Session -> Dirs] /\ \A x \in Session \ {s} : disk'[x] = disk[x]
        /\ disk'[s].dir = disk[s].dir /\ disk'[s].source = disk[s].source
        /\ disk'[s].tracks = disk[s].tracks /\ disk'[s].transcript = disk[s].transcript
        /\ UnsavedApart(s)
    BY <1>1, <1>3, <2>1, SavesIs
  <2>. QED  BY <1>3, <1>4, <1>5, <1>6, <2>1, <2>2, <2>3
<1>7. CASE ~v.keep
  <2>1. PICK d \in {[disk[s] EXCEPT !.saved = None]} \cup Failing("remove", disk[s]) :
           /\ disk' = [disk EXCEPT ![s] = d]
           /\ stray' = IF d.saved # None THEN stray \cup {s} ELSE stray
           /\ unsaved' = unsaved \ {s}
    BY <1>4, <1>7 DEF Releases
  <2>2. /\ d \in Dirs /\ d.dir = disk[s].dir /\ d.source = disk[s].source
        /\ d.tracks = disk[s].tracks /\ d.transcript = disk[s].transcript
        /\ d.saved \in {None, disk[s].saved}
    <3>1. d = disk[s] \/ d = [disk[s] EXCEPT !.saved = None]
      BY <2>1 DEF Failing
    <3>. QED  BY <1>1, <3>1 DEF Dirs
  <2>3. /\ disk' \in [Session -> Dirs] /\ disk'[s] = d
        /\ \A x \in Session \ {s} : disk'[x] = disk[x]
    BY <1>1, <2>1, <2>2
  <2>4. UnsavedApart(s)
    BY <1>1, <2>1 DEF UnsavedApart
  <2>. QED  BY <1>3, <1>4, <1>5, <1>7, <2>1, <2>2, <2>3, <2>4
<1>. QED  BY <1>3, <1>6, <1>7

(* keepUpload makes the directory.                                         *)
LEMMA CreateUploadIs ==
    ASSUME Shapes, NEW s \in Session, CreateUpload(s)
    PROVE  /\ disk' \in [Session -> Dirs] /\ \A x \in Session \ {s} : disk'[x] = disk[x]
           /\ disk'[s].dir /\ disk'[s].source = disk[s].source /\ disk'[s].tracks = disk[s].tracks
           /\ disk'[s].transcript = disk[s].transcript /\ disk'[s].saved = disk[s].saved
<1>1. disk \in [Session -> Dirs] /\ disk[s] \in Dirs
  BY DEF Shapes
<1> DEFINE d == [disk[s] EXCEPT !.dir = TRUE, !.upload = TRUE]
<1>2. /\ d \in Dirs /\ d.dir /\ d.source = disk[s].source /\ d.tracks = disk[s].tracks
      /\ d.transcript = disk[s].transcript /\ d.saved = disk[s].saved
  BY <1>1 DEF Dirs
<1>3. disk' = [disk EXCEPT ![s] = d]
  BY DEF CreateUpload
<1> HIDE DEF d
<1>. QED  BY <1>1, <1>2, <1>3

(* Create puts the analysis in line, and saves.                            *)
LEMMA CreateQueueIs ==
    ASSUME Shapes, OneTaskEach, NEW s \in Session, CreateQueue(s)
    PROVE  /\ pending' \in Seq(Tasks) /\ wake'
           /\ ~Tasked(s) => /\ OneTaskEach' /\ pending' # <<>>
                            /\ \A x \in Session : Tasked(x)' <=> Tasked(x) \/ x = s
           /\ disk' \in [Session -> Dirs] /\ \A x \in Session \ {s} : disk'[x] = disk[x]
           /\ UnsavedApart(s)
           /\ s \notin open => disk' = disk /\ unsaved' = unsaved
           /\ s \in open => Saves(s, view[s], disk[s])
<1>1. view[s] \in Views /\ disk \in [Session -> Dirs] /\ pending \in Seq(Tasks)
  BY DEF Shapes, PlainShapes
<1>2. PICK t \in Tasks : t = Task(s, "analyse", {}) /\ t.s = s
  <2>1. Task(s, "analyse", {}) \in Tasks /\ Task(s, "analyse", {}).s = s
    BY DEF Task, Tasks, Kinds
  <2>. QED  BY <2>1
<1>3. /\ pending' = Append(pending, t) /\ wake'
      /\ IF s \in open THEN Saves(s, view[s], disk[s]) ELSE disk' = disk /\ unsaved' = unsaved
  BY <1>2 DEF CreateQueue, Enqueues
<1>4. pending' \in Seq(Tasks)
  BY <1>1, <1>3
<1>5. ~Tasked(s) => /\ OneTaskEach' /\ pending' # <<>>
                    /\ \A x \in Session : Tasked(x)' <=> Tasked(x) \/ x = s
  BY <1>1, <1>2, <1>3, TaskThatJoins
<1>6. /\ disk' \in [Session -> Dirs] /\ \A x \in Session \ {s} : disk'[x] = disk[x]
      /\ UnsavedApart(s)
  <2>1. CASE s \in open
    BY <1>1, <1>3, <2>1, SavesIs
  <2>2. CASE s \notin open
    BY <1>1, <1>3, <2>2 DEF Shapes, PlainShapes, UnsavedApart
  <2>. QED  BY <2>1, <2>2
<1>. QED  BY <1>3, <1>4, <1>5, <1>6

(* Create enters a session that has nothing yet.                           *)
LEMMA CreateEnterIs ==
    ASSUME Shapes, NEW s \in Session, NEW keep \in BOOLEAN, CreateEnter(s, keep)
    PROVE  /\ view' \in [Session -> Views] /\ \A x \in Session \ {s} : view'[x] = view[x]
           /\ view'[s].status = "queued" /\ view'[s].keep = keep /\ view'[s].voices = {}
           /\ view'[s].tracks = {} /\ view'[s].transcript = "none"
<1> DEFINE v == [NoView EXCEPT !.status = "queued", !.keep = keep]
<1>1. /\ v \in Views /\ v.status = "queued" /\ v.keep = keep /\ v.voices = {} /\ v.tracks = {}
      /\ v.transcript = "none"
  BY DEF NoView, Views, Statuses
<1>2. Becomes(s, v)
  BY DEF CreateEnter
<1> HIDE DEF v
<1>. QED  BY <1>1, <1>2, BecomesIs

(* The memory of a process that has ended.                                 *)
LEMMA ForgottenIs ==
    ASSUME Shapes, Forgotten
    PROVE  /\ open' = {} /\ pending' = <<>> /\ wake' = FALSE /\ pending' \in Seq(Tasks)
           /\ WorkersFit' /\ \A w \in Worker : worker'[w].pc = "exited" /\ worker'[w].s = None
           /\ view' \in [Session -> Views] /\ follow' \in [Session -> Follows]
           /\ \A s \in Session : follow'[s] = NoFollow /\ follow'[s].pc = "none"
           /\ creating' \in [Session -> {"never", "created"}]
           /\ \A s \in Session : creating'[s] = "never" <=> creating[s] = "never"
           /\ ContextShapes' /\ job' \in [Job -> {"free", "live", "succeeded", "failed", "canceled"}]
<1>1. NoView \in Views /\ NoFollow \in Follows /\ NoFollow.pc = "none"
  BY DEF NoView, NoFollow, Views, Statuses, Follows
<1>2. /\ Resting("exited") \in Runs /\ Fit(Resting("exited"))
      /\ Resting("exited").pc = "exited" /\ Resting("exited").s = None
  BY IsolationAssumption DEF Resting, Runs, Fit
<1>3. WorkersFit' /\ \A w \in Worker : worker'[w].pc = "exited" /\ worker'[w].s = None
  BY <1>2 DEF Forgotten, WorkersFit
<1>4. /\ view' \in [Session -> Views] /\ follow' \in [Session -> Follows]
      /\ \A s \in Session : follow'[s] = NoFollow /\ follow'[s].pc = "none"
  BY <1>1 DEF Forgotten
<1>5. /\ creating' \in [Session -> {"never", "created"}]
      /\ \A s \in Session : creating'[s] = "never" <=> creating[s] = "never"
  BY DEF Forgotten
<1>6. ContextShapes' /\ job' \in [Job -> {"free", "live", "succeeded", "failed", "canceled"}]
  BY DEF Forgotten, ContextShapes
<1>. QED  BY <1>3, <1>4, <1>5, <1>6 DEF Forgotten

(* A process that ends inside startLocked leaves the state file as it was. *)
LEMMA EndsInsideIs ==
    ASSUME Shapes, NEW s \in Session, EndsInside(s)
    PROVE  /\ s \in open /\ view[s].keep /\ ~Busy(view[s].status) /\ Forgotten
           /\ phase' = "down" /\ UNCHANGED <<starts, unsaved, stray>>
           /\ disk' \in [Session -> Dirs] /\ \A x \in Session \ {s} : disk'[x] = disk[x]
           /\ disk'[s].saved = disk[s].saved /\ disk'[s].source = disk[s].source
           /\ disk'[s].dir = disk[s].dir
           /\ intact' = [intact EXCEPT ![s] = "torn"]
<1>1. disk \in [Session -> Dirs] /\ disk[s] \in Dirs
  BY DEF Shapes
<1>2. /\ s \in open /\ view[s].keep /\ ~Busy(view[s].status) /\ Forgotten
      /\ phase' = "down" /\ UNCHANGED <<starts, unsaved, stray>> /\ intact' = [intact EXCEPT ![s] = "torn"]
  BY DEF EndsInside, Idle, Busy
<1>3. \E d : /\ disk' = [disk EXCEPT ![s] = d]
             /\ \/ \E v \in Voice : d = [disk[s] EXCEPT !.tracks = @ \ {v}]
                \/ d = [disk[s] EXCEPT !.transcript = FALSE]
  <2>1. CASE \E v \in view[s].tracks : disk' = [disk EXCEPT ![s].tracks = @ \ {v}]
    BY <2>1 DEF Shapes, Views
  <2>2. CASE disk' = [disk EXCEPT ![s].transcript = FALSE]
    BY <2>2
  <2>. QED  BY <2>1, <2>2 DEF EndsInside
<1>4. PICK d : /\ disk' = [disk EXCEPT ![s] = d]
               /\ \/ \E v \in Voice : d = [disk[s] EXCEPT !.tracks = @ \ {v}]
                  \/ d = [disk[s] EXCEPT !.transcript = FALSE]
  BY <1>3
<1>5. d \in Dirs /\ d.saved = disk[s].saved /\ d.source = disk[s].source /\ d.dir = disk[s].dir
  BY <1>1, <1>4 DEF Dirs
<1>. QED  BY <1>1, <1>2, <1>4, <1>5

(* Every step keeps the shapes.                                             *)
LEMMA ShapesKept ==
    ASSUME Shapes, OneTaskEach, [Next]_vars
    PROVE  Shapes'
<1> USE IsolationAssumption DEF Shapes
<1>1. ASSUME NEW w \in Worker, NextTakes(w)
      PROVE  Shapes'
  <2>1. PlainShapes' /\ ContextShapes'
    BY <1>1, NextTakesIs DEF NextTakes, PlainShapes, ContextShapes, OnlyWorker
  <2>2. WorkersFit'
    BY <1>1, NextTakesIs
  <2>3. /\ follow' \in [Session -> Follows]
        /\ view' \in [Session -> Views] /\ disk' \in [Session -> Dirs]
    BY <1>1 DEF NextTakes, OnlyWorker, OnlyFollower, memory
  <2>. QED  BY <2>1, <2>2, <2>3
<1>2. ASSUME NEW w \in Worker, NextWaits(w)
      PROVE  Shapes'
  <2>1. PlainShapes' /\ ContextShapes'
    BY <1>2 DEF NextWaits, PlainShapes, ContextShapes, Enqueues, OnlyWorker, OnlyFollower, memory
  <2>2. WorkersFit'
    BY <1>2 DEF NextWaits, WorkersFit, Runs, Fit, Kinds, WorkerIs, Resting
  <2>3. /\ follow' \in [Session -> Follows]
        /\ view' \in [Session -> Views] /\ disk' \in [Session -> Dirs]
    BY <1>2 DEF NextWaits, OnlyWorker, OnlyFollower, memory
  <2>. QED  BY <2>1, <2>2, <2>3
<1>3. ASSUME NEW w \in Worker, NextWakes(w)
      PROVE  Shapes'
  <2>1. PlainShapes' /\ ContextShapes'
    BY <1>3 DEF NextWakes, PlainShapes, ContextShapes, Enqueues, OnlyWorker, OnlyFollower, memory
  <2>2. WorkersFit'
    BY <1>3 DEF NextWakes, WorkersFit, Runs, Fit, Kinds, WorkerIs, Resting
  <2>3. /\ follow' \in [Session -> Follows]
        /\ view' \in [Session -> Views] /\ disk' \in [Session -> Dirs]
    BY <1>3 DEF NextWakes, OnlyWorker, OnlyFollower, memory
  <2>. QED  BY <2>1, <2>2, <2>3
<1>4. ASSUME NEW w \in Worker, NextEnds(w)
      PROVE  Shapes'
  <2>1. PlainShapes' /\ ContextShapes'
    BY <1>4 DEF NextEnds, PlainShapes, ContextShapes, Enqueues, OnlyWorker, OnlyFollower, memory
  <2>2. WorkersFit'
    BY <1>4 DEF NextEnds, WorkersFit, Runs, Fit, Kinds, WorkerIs, Resting
  <2>3. /\ follow' \in [Session -> Follows]
        /\ view' \in [Session -> Views] /\ disk' \in [Session -> Dirs]
    BY <1>4 DEF NextEnds, OnlyWorker, OnlyFollower, memory
  <2>. QED  BY <2>1, <2>2, <2>3
<1>5. ASSUME NEW w \in Worker, RunStarts(w)
      PROVE  Shapes'
  <2>1. PlainShapes' /\ ContextShapes'
    BY <1>5 DEF RunStarts, PlainShapes, ContextShapes, Enqueues, OnlyWorker, OnlyFollower, memory
  <2>2. WorkersFit'
    BY <1>5 DEF RunStarts, WorkersFit, Runs, Fit, Kinds, WorkerIs, Resting
  <2>3. /\ follow' \in [Session -> Follows]
        /\ view' \in [Session -> Views] /\ disk' \in [Session -> Dirs]
    BY <1>5 DEF RunStarts, OnlyWorker, OnlyFollower, memory
  <2>. QED  BY <2>1, <2>2, <2>3
<1>6. ASSUME NEW w \in Worker, WorkFails(w)
      PROVE  Shapes'
  <2>1. PlainShapes' /\ ContextShapes'
    BY <1>6 DEF WorkFails, PlainShapes, ContextShapes, Enqueues, OnlyWorker, OnlyFollower, memory
  <2>2. WorkersFit'
    BY <1>6 DEF WorkFails, WorkersFit, Runs, Fit, Kinds, WorkerIs, Fails
  <2>3. /\ follow' \in [Session -> Follows]
        /\ view' \in [Session -> Views] /\ disk' \in [Session -> Dirs]
    BY <1>6 DEF WorkFails, OnlyWorker, OnlyFollower, memory
  <2>. QED  BY <2>1, <2>2, <2>3
<1>7. ASSUME NEW w \in Worker, Decode(w)
      PROVE  Shapes'
  <2>1. PlainShapes' /\ ContextShapes'
    BY <1>7 DEF Decode, PlainShapes, ContextShapes, Enqueues, OnlyWorker, OnlyFollower, memory
  <2>2. WorkersFit'
    BY <1>7 DEF Decode, WorkersFit, Runs, Fit, Kinds, WorkerIs, Resting
  <2>3. worker[w].s \in Session
    BY <1>7 DEF Decode, WorkersFit, Fit
  <2>4. /\ follow' \in [Session -> Follows]
        /\ view' \in [Session -> Views] /\ disk' \in [Session -> Dirs]
    BY <1>7, DecodeIs, <2>3 DEF Decode, OnlyWorker, OnlyFollower, memory
  <2>. QED  BY <2>1, <2>2, <2>4
<1>8. ASSUME NEW w \in Worker, NEW sm \in SUBSET Voice, Voices(w, sm)
      PROVE  Shapes'
  <2>1. PlainShapes' /\ ContextShapes'
    BY <1>8 DEF Voices, PlainShapes, ContextShapes, Enqueues, OnlyWorker, OnlyFollower, memory
  <2>2. WorkersFit'
    BY <1>8 DEF Voices, WorkersFit, Runs, Fit, Kinds, WorkerIs, Resting
  <2>3. worker[w].s \in Session
    BY <1>8 DEF Voices, WorkersFit, Fit
  <2>4. /\ follow' \in [Session -> Follows]
        /\ view' \in [Session -> Views] /\ disk' \in [Session -> Dirs]
    <3>1. PICK s \in Session : s = worker[w].s
      BY <2>3
    <3>2. view' \in [Session -> Views]
      BY <1>8, <3>1, VoicesIs
    <3>. QED  BY <1>8, <3>2 DEF Voices, OnlyWorker
  <2>. QED  BY <2>1, <2>2, <2>4
<1>9. ASSUME NEW w \in Worker, NoVoices(w)
      PROVE  Shapes'
  <2>1. PlainShapes' /\ ContextShapes'
    BY <1>9 DEF NoVoices, PlainShapes, ContextShapes, Enqueues, OnlyWorker, OnlyFollower, memory
  <2>2. WorkersFit'
    BY <1>9 DEF NoVoices, WorkersFit, Runs, Fit, Kinds, WorkerIs, Fails
  <2>3. /\ follow' \in [Session -> Follows]
        /\ view' \in [Session -> Views] /\ disk' \in [Session -> Dirs]
    BY <1>9 DEF NoVoices, OnlyWorker, OnlyFollower, memory
  <2>. QED  BY <2>1, <2>2, <2>3
<1>10. ASSUME NEW w \in Worker, NEW v \in Voice, WriteTrack(w, v)
       PROVE  Shapes'
  <2>1. PlainShapes' /\ ContextShapes' /\ follow' = follow
    BY <1>10 DEF WriteTrack, PlainShapes, ContextShapes, OnlyWorker
  <2>2. PICK s \in Session : s = worker[w].s
    BY <1>10 DEF WriteTrack, WorkersFit, Fit
  <2>. QED  BY <1>10, <2>1, <2>2, WriteTrackIs
<1>11. ASSUME NEW w \in Worker, PutTrack(w)
       PROVE  Shapes'
  <2>2. PICK s \in Session : s = worker[w].s
    BY <1>11 DEF PutTrack, WorkersFit, Fit
  <2>3. unsaved' \in SUBSET Session
    BY <1>11, <2>2, PutTrackIs DEF UnsavedApart
  <2>1. PlainShapes' /\ ContextShapes' /\ follow' = follow
    BY <1>11, <2>3 DEF PutTrack, PlainShapes, ContextShapes, OnlyWorker
  <2>. QED  BY <1>11, <2>1, <2>2, PutTrackIs
<1>12. ASSUME NEW w \in Worker, Extracted(w)
       PROVE  Shapes'
  <2>1. PlainShapes' /\ ContextShapes'
    BY <1>12 DEF Extracted, PlainShapes, ContextShapes, Enqueues, OnlyWorker, OnlyFollower, memory
  <2>2. WorkersFit'
    BY <1>12 DEF Extracted, WorkersFit, Runs, Fit, Kinds, WorkerIs, Resting
  <2>3. worker[w].s \in Session
    BY <1>12 DEF Extracted, WorkersFit, Fit
  <2>4. /\ follow' \in [Session -> Follows]
        /\ view' \in [Session -> Views] /\ disk' \in [Session -> Dirs]
    BY <1>12, ExtractedIs, <2>3 DEF Extracted, OnlyWorker, OnlyFollower, memory
  <2>. QED  BY <2>1, <2>2, <2>4
<1>13. ASSUME NEW w \in Worker, RunHandsOver(w)
       PROVE  Shapes'
  <2>1. PICK s \in Session : s = worker[w].s
    BY <1>13 DEF RunHandsOver, WorkersFit, Fit
  <2>2. /\ view' \in [Session -> Views] /\ disk' \in [Session -> Dirs]
        /\ follow' \in [Session -> Follows] /\ unsaved' \in SUBSET Session
    BY <1>13, <2>1, RunHandsOverIs DEF UnsavedApart
  <2>3. PlainShapes' /\ ContextShapes'
    BY <1>13, <2>2 DEF RunHandsOver, PlainShapes, ContextShapes
  <2>4. WorkersFit'
    BY <1>13 DEF RunHandsOver, WorkersFit, Runs, Fit, Kinds, WorkerIs, Resting
  <2>. QED  BY <2>2, <2>3, <2>4
<1>14. ASSUME NEW w \in Worker, RunEnds(w)
       PROVE  Shapes'
  <2>1. PICK s \in Session : s = worker[w].s
    BY <1>14 DEF RunEnds, RunEndsWith, WorkersFit, Fit
  <2>2. Resting("looking") \in Runs /\ Fit(Resting("looking"))
    BY DEF Resting, Runs, Fit
  <2>3. worker' = [worker EXCEPT ![w] = Resting("looking")]
    BY <1>14, <2>1, RunEndsIs
  <2>4. WorkersFit'
    BY <2>2, <2>3 DEF WorkersFit
  <2>5. PlainShapes' /\ follow' = follow
    BY <1>14, <2>1, RunEndsIs DEF PlainShapes, OnlyWorker, UnsavedApart
  <2>. QED  BY <1>14, <2>1, <2>4, <2>5, RunEndsIs
<1>15. ASSUME NEW s \in Session, NEW v \in Voice, NEW j \in Job, Submit(s, v, j)
       PROVE  Shapes'
  <2>1. PlainShapes' /\ ContextShapes'
    BY <1>15 DEF Submit, PlainShapes, ContextShapes, Enqueues, OnlyWorker, OnlyFollower, memory
  <2>2. WorkersFit'
    BY <1>15 DEF Submit, WorkersFit, OnlyWorker, OnlyFollower, memory
  <2>3. /\ follow' \in [Session -> Follows]
        /\ view' \in [Session -> Views] /\ disk' \in [Session -> Dirs]
    BY <1>15, ZenonT(60) DEF Submit, OnlyWorker, OnlyFollower, memory, Follows, FollowerIs
  <2>. QED  BY <2>1, <2>2, <2>3
<1>16. ASSUME NEW s \in Session, SubmitFails(s)
       PROVE  Shapes'
  <2>1. PlainShapes' /\ ContextShapes'
    BY <1>16 DEF SubmitFails, PlainShapes, ContextShapes, Enqueues, OnlyWorker, OnlyFollower, memory
  <2>2. WorkersFit'
    BY <1>16 DEF SubmitFails, WorkersFit, OnlyWorker, OnlyFollower, memory
  <2>3. /\ follow' \in [Session -> Follows]
        /\ view' \in [Session -> Views] /\ disk' \in [Session -> Dirs]
    BY <1>16, ZenonT(60) DEF SubmitFails, OnlyWorker, OnlyFollower, memory, Follows, FollowerIs
  <2>. QED  BY <2>1, <2>2, <2>3
<1>17. ASSUME NEW s \in Session, Submitted(s)
       PROVE  Shapes'
  <2>1. PlainShapes' /\ ContextShapes'
    BY <1>17, SubmittedIs DEF Submitted, PlainShapes, ContextShapes, OnlyFollower, UnsavedApart
  <2>2. WorkersFit'
    BY <1>17 DEF Submitted, WorkersFit, OnlyWorker, OnlyFollower, memory
  <2>3. /\ follow' \in [Session -> Follows]
        /\ view' \in [Session -> Views] /\ disk' \in [Session -> Dirs]
    BY <1>17, SubmittedIs, ZenonT(60) DEF Submitted, OnlyWorker, OnlyFollower, memory, Follows, FollowerIs
  <2>. QED  BY <2>1, <2>2, <2>3
<1>18. ASSUME NEW s \in Session, Awaited(s)
       PROVE  Shapes'
  <2>1. PlainShapes' /\ ContextShapes' /\ WorkersFit'
    BY <1>18 DEF Awaited, PlainShapes, ContextShapes, WorkersFit, OnlyFollower
  <2>2. PICK ok \in BOOLEAN :
           follow' = [follow EXCEPT ![s] = [follow[s] EXCEPT !.pc = IF ok THEN "merged" ELSE "failing", !.ok = ok]]
    BY <1>18, Zenon DEF Awaited, FollowerIs
  <2>3. [follow[s] EXCEPT !.pc = IF ok THEN "merged" ELSE "failing", !.ok = ok] \in Follows
    BY DEF Follows
  <2>. QED  BY <1>18, <2>1, <2>2, <2>3 DEF Awaited
<1>19. ASSUME NEW s \in Session, CancelJobs(s)
       PROVE  Shapes'
  <2>1. PlainShapes' /\ ContextShapes'
    BY <1>19 DEF CancelJobs, PlainShapes, ContextShapes, Enqueues, OnlyWorker, OnlyFollower, memory
  <2>2. WorkersFit'
    BY <1>19 DEF CancelJobs, WorkersFit, OnlyWorker, OnlyFollower, memory
  <2>3. /\ follow' \in [Session -> Follows]
        /\ view' \in [Session -> Views] /\ disk' \in [Session -> Dirs]
    BY <1>19 DEF CancelJobs, OnlyWorker, OnlyFollower, memory, Follows, FollowerIs
  <2>. QED  BY <2>1, <2>2, <2>3
<1>20. ASSUME NEW s \in Session, WriteTranscript(s)
       PROVE  Shapes'
  <2>1. PICK ok \in BOOLEAN :
           /\ follow' = [follow EXCEPT ![s] = [follow[s] EXCEPT !.pc = "ending", !.ok = ok]]
           /\ disk' = [disk EXCEPT ![s] = [disk[s] EXCEPT !.transcript = disk[s].transcript \/ ok]]
           /\ intact' = [intact EXCEPT ![s] = IF ok THEN "yes" ELSE @] /\ view' = view
    BY <1>20, TranscriptIs, Zenon
  <2>2. disk[s] \in Dirs /\ follow[s] \in Follows
    OBVIOUS
  <2>3. [follow[s] EXCEPT !.pc = "ending", !.ok = ok] \in Follows
    BY <2>2 DEF Follows
  <2>4. [disk[s] EXCEPT !.transcript = disk[s].transcript \/ ok] \in Dirs
    BY <2>2 DEF Dirs
  <2>5. intact' \in [Session -> {"yes", "no", "torn"}]
    BY <2>1 DEF PlainShapes
  <2>6. PlainShapes' /\ ContextShapes' /\ WorkersFit'
    BY <1>20, <2>5 DEF WriteTranscript, PlainShapes, ContextShapes, WorkersFit
  <2>. QED  BY <2>1, <2>3, <2>4, <2>6
<1>21. ASSUME NEW s \in Session, FollowEnds(s)
       PROVE  Shapes'
  <2>1. PlainShapes'
    BY <1>21, FollowEndsIs DEF OnlyFollower, PlainShapes, UnsavedApart
  <2>2. WorkersFit'
    BY <1>21, FollowEndsIs DEF OnlyFollower, WorkersFit
  <2>. QED  BY <1>21, <2>1, <2>2, FollowEndsIs
<1>22. ASSUME NEW s \in Session, CreateUpload(s)
       PROVE  Shapes'
  <2>1. PlainShapes' /\ ContextShapes'
    BY <1>22 DEF CreateUpload, PlainShapes, ContextShapes, Enqueues, OnlyWorker, OnlyFollower, memory
  <2>2. WorkersFit'
    BY <1>22 DEF CreateUpload, WorkersFit, OnlyWorker, OnlyFollower, memory
  <2>3. /\ follow' \in [Session -> Follows]
        /\ view' \in [Session -> Views] /\ disk' \in [Session -> Dirs]
    <3>1. disk' \in [Session -> Dirs]
      BY <1>22, CreateUploadIs
    <3>2. UNCHANGED <<view, follow>>
      BY <1>22 DEF CreateUpload, memory
    <3>. QED  BY <3>1, <3>2
  <2>. QED  BY <2>1, <2>2, <2>3
<1>23. ASSUME NEW s \in Session, s \notin open, CreateFails(s)
       PROVE  Shapes'
  <2>1. PlainShapes' /\ ContextShapes'
    BY <1>23 DEF CreateFails, PlainShapes, ContextShapes, Enqueues, OnlyWorker, OnlyFollower, memory
  <2>2. WorkersFit'
    BY <1>23 DEF CreateFails, WorkersFit, OnlyWorker, OnlyFollower, memory
  <2>3. /\ follow' \in [Session -> Follows]
        /\ view' \in [Session -> Views] /\ disk' \in [Session -> Dirs]
    BY <1>23 DEF CreateFails, OnlyWorker, OnlyFollower, memory
  <2>. QED  BY <2>1, <2>2, <2>3
<1>24. ASSUME NEW s \in Session, CreateQueue(s)
       PROVE  Shapes'
  <2>1. PlainShapes' /\ ContextShapes'
    BY <1>24, CreateQueueIs DEF CreateQueue, PlainShapes, ContextShapes, UnsavedApart
  <2>2. WorkersFit'
    BY <1>24 DEF CreateQueue, WorkersFit, OnlyWorker, OnlyFollower, memory
  <2>3. /\ follow' \in [Session -> Follows]
        /\ view' \in [Session -> Views] /\ disk' \in [Session -> Dirs]
    BY <1>24, CreateQueueIs DEF CreateQueue, OnlyWorker, OnlyFollower, memory
  <2>. QED  BY <2>1, <2>2, <2>3
<1>25. ASSUME NEW s \in Session, NEW keep \in BOOLEAN, CreateEnter(s, keep)
       PROVE  Shapes'
  <2>1. PlainShapes' /\ ContextShapes'
    BY <1>25 DEF CreateEnter, PlainShapes, ContextShapes, Enqueues, OnlyWorker, OnlyFollower, memory
  <2>2. WorkersFit'
    BY <1>25 DEF CreateEnter, WorkersFit, OnlyWorker, OnlyFollower, memory
  <2>3. /\ follow' \in [Session -> Follows]
        /\ view' \in [Session -> Views] /\ disk' \in [Session -> Dirs]
    <3>1. view' \in [Session -> Views]
      BY <1>25, CreateEnterIs
    <3>2. UNCHANGED <<disk, follow>>
      BY <1>25 DEF CreateEnter
    <3>. QED  BY <3>1, <3>2
  <2>. QED  BY <2>1, <2>2, <2>3
<1>26. ASSUME NEW s \in Session, Begins(s)
       PROVE  Shapes'
  <2>1. PICK t \in Tasks : pending' = Append(pending, t) /\ wake'
    BY <1>26, BeginsIs DEF Enqueues
  <2>2. pending' \in Seq(Tasks) /\ wake' \in BOOLEAN
    BY <1>26, <2>1, BeginsIs DEF PlainShapes, Enqueues
  <2>3. intact' \in [Session -> {"yes", "no", "torn"}]
    BY <1>26, BeginsIs DEF PlainShapes
  <2>4. /\ UNCHANGED <<phase, starts, creating, open, worker, follow, cancel, ended, job, stray>>
        /\ unsaved' \in SUBSET Session
    BY <1>26, BeginsIs DEF UnsavedApart
  <2>5. PlainShapes' /\ ContextShapes' /\ WorkersFit' /\ follow' = follow
    BY <2>2, <2>3, <2>4 DEF PlainShapes, ContextShapes, WorkersFit
  <2>. QED  BY <1>26, <2>5, BeginsIs
<1>27. ASSUME NEW s \in Session, Update(s)
       PROVE  Shapes'
  <2>1. /\ view' \in [Session -> Views] /\ disk' \in [Session -> Dirs]
        /\ unsaved' \in SUBSET Session /\ stray' \in SUBSET Session
    BY <1>27, UpdateIs DEF UnsavedApart, PlainShapes
  <2>2. PlainShapes' /\ ContextShapes' /\ follow' = follow
    BY <1>27, <2>1 DEF Update, PlainShapes, ContextShapes
  <2>3. WorkersFit'
    BY <1>27 DEF Update, WorkersFit
  <2>. QED  BY <2>1, <2>2, <2>3
<1>28. ASSUME NEW s \in Session, EndsInside(s)
       PROVE  Shapes'
  <2>1. /\ Forgotten /\ phase' = "down" /\ starts' = starts /\ disk' \in [Session -> Dirs]
        /\ intact' = [intact EXCEPT ![s] = "torn"] /\ UNCHANGED <<unsaved, stray>>
    BY <1>28, EndsInsideIs
  <2>2. creating' \in [Session -> {"never", "uploading", "uploaded", "created"}]
    BY <2>1, ForgottenIs, ZenonT(60)
  <2>3. PlainShapes'
    BY <2>1, <2>2, ForgottenIs DEF PlainShapes
  <2>. QED  BY <2>1, <2>3, ForgottenIs
<1>29. ASSUME NEW S \in SUBSET open, Removes(S)
       PROVE  Shapes'
  <2>1. S \in SUBSET Session /\ Drops(S)
    BY <1>29 DEF Removes, PlainShapes
  <2>2. PlainShapes' /\ ContextShapes'
    BY <1>29, <2>1, DropsIs DEF Removes, PlainShapes, ContextShapes
  <2>3. WorkersFit' /\ follow' = follow
    BY <1>29 DEF Removes, WorkersFit
  <2>. QED  BY <2>1, <2>2, <2>3, DropsIs
<1>30. ASSUME NEW j \in Job, JobEnds(j)
       PROVE  Shapes'
  <2>1. PlainShapes' /\ ContextShapes'
    BY <1>30 DEF JobEnds, PlainShapes, ContextShapes, Enqueues, OnlyWorker, OnlyFollower, memory
  <2>2. WorkersFit'
    BY <1>30 DEF JobEnds, WorkersFit, OnlyWorker, OnlyFollower, memory
  <2>3. /\ follow' \in [Session -> Follows]
        /\ view' \in [Session -> Views] /\ disk' \in [Session -> Dirs]
    BY <1>30 DEF JobEnds, OnlyWorker, OnlyFollower, memory
  <2>. QED  BY <2>1, <2>2, <2>3
<1>31. ASSUME NEW j \in Job, JobForgotten(j)
       PROVE  Shapes'
  <2>1. PlainShapes' /\ ContextShapes'
    BY <1>31 DEF JobForgotten, PlainShapes, ContextShapes, Enqueues, OnlyWorker, OnlyFollower, memory
  <2>2. WorkersFit'
    BY <1>31 DEF JobForgotten, WorkersFit, OnlyWorker, OnlyFollower, memory
  <2>3. /\ follow' \in [Session -> Follows]
        /\ view' \in [Session -> Views] /\ disk' \in [Session -> Dirs]
    BY <1>31 DEF JobForgotten, OnlyWorker, OnlyFollower, memory
  <2>. QED  BY <2>1, <2>2, <2>3
<1>32. CASE Close
  <2>1. PlainShapes' /\ ContextShapes'
    BY <1>32 DEF Close, PlainShapes, ContextShapes, Enqueues, OnlyWorker, OnlyFollower, memory
  <2>2. WorkersFit'
    BY <1>32 DEF Close, WorkersFit, OnlyWorker, OnlyFollower, memory
  <2>3. /\ follow' \in [Session -> Follows]
        /\ view' \in [Session -> Views] /\ disk' \in [Session -> Dirs]
    BY <1>32 DEF Close, OnlyWorker, OnlyFollower, memory
  <2>. QED  BY <2>1, <2>2, <2>3
<1>33. CASE Ends
  <2>1. Forgotten /\ phase' = "down" /\ UNCHANGED <<starts, disk, unsaved, stray, intact>>
    BY <1>33 DEF Ends
  <2>2. creating' \in [Session -> {"never", "uploading", "uploaded", "created"}]
    BY <2>1, ForgottenIs, ZenonT(60)
  <2>3. PlainShapes'
    BY <2>1, <2>2, ForgottenIs DEF PlainShapes
  <2>. QED  BY <2>1, <2>3, ForgottenIs
<1>34. CASE Restart
  <2>1. Resting("looking") \in Runs /\ Fit(Resting("looking"))
    BY DEF Resting, Runs, Fit
  <2>2. PlainShapes' /\ ContextShapes'
    BY <1>34, RestartIs DEF PlainShapes, ContextShapes
  <2>3. WorkersFit'
    BY <1>34, <2>1, RestartIs DEF WorkersFit
  <2>. QED  BY <1>34, <2>2, <2>3, RestartIs
<1>35. CASE UNCHANGED vars
  BY <1>35 DEF vars, memory, Shapes, PlainShapes, ContextShapes, WorkersFit
<1> HIDE DEF Shapes
<1>36. CASE \E s \in Session : (\E v \in Voice : Extract(s, v)) \/ ExtractAll(s) \/ TranscribeSpeakers(s)
  BY <1>26, <1>36, RequestsBegin
<1>37. CASE CloseEnds \/ \E s \in Session : Delete(s) \/ Expire(s) \/ (s \in open /\ CreateFails(s))
  <2>1. \E S \in SUBSET open : Removes(S)
    BY <1>37, SectionsRemove
  <2>. QED  BY <1>29, <2>1
<1>. QED
  BY <1>1, <1>2, <1>3, <1>4, <1>5, <1>6, <1>7, <1>8, <1>9, <1>10, <1>11, <1>12,
     <1>13, <1>14, <1>15, <1>16, <1>17, <1>18, <1>19, <1>20, <1>21, <1>22, <1>23, <1>24,
     <1>25, <1>26, <1>27, <1>28, <1>29, <1>30, <1>31, <1>32, <1>33, <1>34, <1>35, <1>36,
     <1>37, Zenon
  DEF Next, WorkerSteps, FollowerSteps, CreateSteps, Requests

-----------------------------------------------------------------------------
(* The carriers of work, step by step.                                     *)

(* A step that leaves every activity where it was, and every busy session  *)
(* busy.                                                                   *)
LEMMA QuietStep ==
    ASSUME Shapes, CarryFits, UNCHANGED <<open, creating, pending>>,
           \A s \in Session : Following(s)' <=> Following(s),
           \A s \in Session, w \in Worker : HandsOn(w, s)' <=> HandsOn(w, s),
           \A s \in Session, w \in Worker : worker'[w].s = s => worker[w].s = s,
           \A s \in open : Busy(view'[s].status) <=> Busy(view[s].status),
           \A s \in Session : creating[s] = "never" => disk'[s].saved = disk[s].saved
    PROVE  CarryFits'
<1>1. OneTaskEach' /\ \A s \in Session : (Tasked(s)' <=> Tasked(s)) /\ (Creating(s)' <=> Creating(s))
  BY DEF CarryFits, OneTaskEach, Tasked, Creating
<1>2. OneAtMost'
  BY <1>1 DEF CarryFits, OneAtMost
<1>3. BusyIsCarried'
  BY <1>1 DEF CarryFits, BusyIsCarried, Shapes, PlainShapes
<1>4. FreshFits'
  BY <1>1 DEF CarryFits, FreshFits
<1>. QED  BY <1>1, <1>2, <1>3, <1>4 DEF CarryFits

(* A step of a worker, which may leave its session, and then leaves it at  *)
(* rest.                                                                   *)
LEMMA WorkerStep ==
    ASSUME Shapes, CarryFits, NEW w \in Worker,
           UNCHANGED <<open, creating, pending, follow>>,
           \A x \in Worker \ {w} : worker'[x] = worker[x],
           worker'[w].s \in {worker[w].s, None},
           \A s \in Session : HandsOn(w, s)' => HandsOn(w, s),
           \A s \in open : Busy(view'[s].status) <=>
                               Busy(view[s].status) /\ (HandsOn(w, s) => HandsOn(w, s)'),
           \A s \in Session : s # worker[w].s => disk'[s].saved = disk[s].saved
    PROVE  CarryFits'
<1>1. /\ OneTaskEach'
      /\ \A s \in Session : /\ Tasked(s)' <=> Tasked(s)
                            /\ Creating(s)' <=> Creating(s)
                            /\ Following(s)' <=> Following(s)
  BY DEF CarryFits, OneTaskEach, Tasked, Creating, Following
<1>2. \A s \in Session, x \in Worker \ {w} : HandsOn(x, s)' <=> HandsOn(x, s)
  BY DEF HandsOn
<1>3. \A s \in Session, x \in Worker : worker'[x].s = s => worker[x].s = s
  BY IsolationAssumption
<1>4. OneAtMost'
  BY <1>1, <1>2, <1>3 DEF CarryFits, OneAtMost
<1>5. BusyIsCarried'
  <2> SUFFICES ASSUME NEW s \in open
               PROVE  Busy(view'[s].status) <=>
                         \/ Creating(s)' \/ Tasked(s)' \/ Following(s)'
                         \/ \E x \in Worker : HandsOn(x, s)'
    BY DEF BusyIsCarried
  <2>1. s \in Session
    BY DEF Shapes, PlainShapes
  <2>2. CASE HandsOn(w, s) /\ ~HandsOn(w, s)'
    <3>1. ~Tasked(s) /\ ~Following(s) /\ \A x \in Worker : HandsOn(x, s) => x = w
      BY <2>1, <2>2 DEF CarryFits, OneAtMost
    <3>2. ~Creating(s)
      BY <2>1, <2>2 DEF CarryFits, OneAtMost, HandsOn
    <3>. QED  BY <1>1, <1>2, <2>1, <2>2, <3>1, <3>2
  <2>3. CASE HandsOn(w, s) <=> HandsOn(w, s)'
    BY <1>1, <1>2, <2>1, <2>3 DEF CarryFits, BusyIsCarried
  <2>. QED  BY <2>1, <2>2, <2>3
<1>6. FreshFits'
  BY <1>1, <1>3 DEF CarryFits, FreshFits
<1>. QED  BY <1>1, <1>4, <1>5, <1>6 DEF CarryFits

(* A worker that has its hands on a session that is there.                 *)
LEMMA HandsAreBusy ==
    ASSUME Shapes, CarryFits, NEW w \in Worker, NEW s \in open, HandsOn(w, s)
    PROVE  Busy(view[s].status)
BY DEF CarryFits, BusyIsCarried

(* Every step leaves each busy session one carrier.                         *)
LEMMA CarryKept ==
    ASSUME Shapes, CarryFits, DownFits, Shapes', [Next]_vars
    PROVE  CarryFits'
<1>0. /\ WorkersFit /\ open \subseteq Session /\ view \in [Session -> Views]
      /\ disk \in [Session -> Dirs] /\ follow \in [Session -> Follows]
      /\ creating \in [Session -> {"never", "uploading", "uploaded", "created"}]
  BY DEF Shapes, PlainShapes
<1> USE <1>0
<1>1. ASSUME NEW w \in Worker, NextTakes(w)
      PROVE  CarryFits'
  <2>1. PICK t \in Tasks :
           /\ t.s \in Session /\ Tasked(t.s) /\ OneTaskEach'
           /\ worker' = [worker EXCEPT ![w] = worker'[w]]
           /\ worker[w].pc = "looking" /\ worker'[w].pc = "taken" /\ worker'[w].s = t.s
           /\ \A x \in Session : Tasked(x)' <=> Tasked(x) /\ x # t.s
    BY <1>1, NextTakesIs DEF CarryFits
  <2>2. UNCHANGED <<open, creating, follow, view, disk>>
    BY <1>1 DEF NextTakes, OnlyWorker
  <2>3. /\ \A x \in Session : (Creating(x)' <=> Creating(x)) /\ (Following(x)' <=> Following(x))
        /\ \A x \in Session, y \in Worker \ {w} : HandsOn(y, x)' <=> HandsOn(y, x)
        /\ \A x \in Session : ~HandsOn(w, x) /\ (HandsOn(w, x)' <=> x = t.s)
    BY <2>1, <2>2, IsolationAssumption DEF Creating, Following, HandsOn, WorkersFit, Fit
  <2>4. ~Creating(t.s) /\ ~Following(t.s) /\ \A y \in Worker : ~HandsOn(y, t.s)
    BY <2>1 DEF CarryFits, OneAtMost
  <2>5. \A x \in Session, y \in Worker : worker'[y].s = x => worker[y].s = x \/ x = t.s
    BY <2>1 DEF WorkersFit
  <2>6. OneAtMost'
    BY <2>1, <2>3, <2>4, <2>5 DEF CarryFits, OneAtMost
  <2>7. BusyIsCarried'
    BY <2>1, <2>2, <2>3 DEF CarryFits, BusyIsCarried
  <2>8. FreshFits'
    BY <2>1, <2>2, <2>3, <2>5 DEF CarryFits, FreshFits
  <2>. QED  BY <2>1, <2>6, <2>7, <2>8 DEF CarryFits
<1>2. ASSUME NEW w \in Worker, NextWaits(w)
      PROVE  CarryFits'
  <2>1. /\ UNCHANGED <<open, creating, pending, follow, view, disk>>
        /\ \A x \in Worker \ {w} : worker'[x] = worker[x]
        /\ worker[w].s = None /\ worker'[w].s = None
    BY <1>2 DEF NextWaits, WorkerIs, OnlyWorker, Resting, WorkersFit, Fit
  <2>2. \A x \in Session : HandsOn(w, x)' <=> HandsOn(w, x)
    BY IsolationAssumption, <2>1 DEF HandsOn
  <2>. QED  BY <2>1, <2>2, WorkerStep
<1>3. ASSUME NEW w \in Worker, NextWakes(w)
      PROVE  CarryFits'
  <2>1. /\ UNCHANGED <<open, creating, pending, follow, view, disk>>
        /\ \A x \in Worker \ {w} : worker'[x] = worker[x]
        /\ worker[w].s = None /\ worker'[w].s = None
    BY <1>3 DEF NextWakes, WorkerIs, OnlyWorker, Resting, WorkersFit, Fit
  <2>2. \A x \in Session : HandsOn(w, x)' <=> HandsOn(w, x)
    BY IsolationAssumption, <2>1 DEF HandsOn
  <2>. QED  BY <2>1, <2>2, WorkerStep
<1>4. ASSUME NEW w \in Worker, NextEnds(w)
      PROVE  CarryFits'
  <2>1. /\ UNCHANGED <<open, creating, pending, follow, view, disk>>
        /\ \A x \in Worker \ {w} : worker'[x] = worker[x]
        /\ worker[w].s = None /\ worker'[w].s = None
    BY <1>4 DEF NextEnds, WorkerIs, OnlyWorker, Resting, WorkersFit, Fit
  <2>2. \A x \in Session : HandsOn(w, x)' <=> HandsOn(w, x)
    BY IsolationAssumption, <2>1 DEF HandsOn
  <2>. QED  BY <2>1, <2>2, WorkerStep
<1>5. ASSUME NEW w \in Worker, RunStarts(w)
      PROVE  CarryFits'
  <2>1. UNCHANGED <<open, creating, pending, follow, view, disk>> /\ worker[w].s \in Session
    BY <1>5 DEF RunStarts, OnlyWorker, WorkersFit, Fit
  <2>2. CASE worker[w].s \in open
    <3>1. worker' = [worker EXCEPT ![w] = [worker[w] EXCEPT !.pc = "working"]] /\ worker[w].pc = "taken"
      BY <1>5, <2>2 DEF RunStarts, WorkerIs
    <3>2. /\ \A x \in Worker \ {w} : worker'[x] = worker[x]
          /\ worker'[w].s = worker[w].s /\ \A x \in Session : HandsOn(w, x)' <=> HandsOn(w, x)
      BY <3>1 DEF WorkersFit, Runs, HandsOn
    <3>. QED  BY <2>1, <3>2, WorkerStep
  <2>3. CASE worker[w].s \notin open
    <3>1. worker' = [worker EXCEPT ![w] = Resting("looking")]
      BY <1>5, <2>3 DEF RunStarts, WorkerIs
    <3>2. /\ \A x \in Worker \ {w} : worker'[x] = worker[x]
          /\ worker'[w].s = None /\ \A x \in Session : ~HandsOn(w, x)'
      BY IsolationAssumption, <3>1 DEF WorkersFit, Resting, HandsOn
    <3>3. \A x \in open : ~HandsOn(w, x)
      BY <2>3 DEF HandsOn
    <3>. QED  BY <2>1, <3>2, <3>3, WorkerStep
  <2>. QED  BY <2>2, <2>3
<1>6. ASSUME NEW w \in Worker, WorkFails(w)
      PROVE  CarryFits'
  <2>1. /\ UNCHANGED <<open, creating, pending, follow, view, disk>>
        /\ \A x \in Worker \ {w} : worker'[x] = worker[x]
        /\ worker'[w].s = worker[w].s /\ \A x \in Session : HandsOn(w, x)' <=> HandsOn(w, x)
    BY <1>6 DEF WorkFails, WorkerIs, OnlyWorker, Fails, WorkersFit, Runs, HandsOn
  <2>. QED  BY <2>1, WorkerStep
<1>7. ASSUME NEW w \in Worker, Decode(w)
      PROVE  CarryFits'
  <2>1. PICK s \in Session : s = worker[w].s
    BY <1>7 DEF Decode, WorkersFit, Fit
  <2>2. /\ UNCHANGED <<open, creating, pending, follow>> /\ worker[w].pc = "working"
        /\ worker' = [worker EXCEPT ![w] = [worker[w] EXCEPT !.pc = "decoded"]]
    BY <1>7 DEF Decode, WorkerIs, OnlyWorker
  <2>3. /\ \A x \in Session : HandsOn(w, x)' <=> HandsOn(w, x)
        /\ \A x \in Worker \ {w} : worker'[x] = worker[x]
        /\ worker'[w].s = worker[w].s /\ HandsOn(w, s)
    BY <2>1, <2>2 DEF HandsOn, WorkersFit, Runs
  <2>4. \A x \in open : x # s => view'[x] = view[x]
    BY <1>7, <2>1, DecodeIs
  <2>5. s \in open => Busy(view[s].status) /\ Busy(view'[s].status)
    BY <1>7, <2>1, <2>3, DecodeIs, HandsAreBusy DEF Busy
  <2>6. \A x \in Session : x # worker[w].s => disk'[x].saved = disk[x].saved
    BY <1>7, <2>1, DecodeIs DEF SameFiles
  <2>. QED  BY <2>2, <2>3, <2>4, <2>5, <2>6, WorkerStep
<1>8. ASSUME NEW w \in Worker, NEW sm \in SUBSET Voice, Voices(w, sm)
      PROVE  CarryFits'
  <2>1. PICK s \in Session : s = worker[w].s
    BY <1>8 DEF Voices, WorkersFit, Fit
  <2>2. /\ UNCHANGED <<open, creating, pending, follow, disk>>
        /\ worker[w].pc = "decoded" /\ worker[w].kind = "analyse"
        /\ worker' = [worker EXCEPT ![w] = [worker[w] EXCEPT !.pc = "finishing"]]
    BY <1>8 DEF Voices, WorkerIs, OnlyWorker, WorkersFit, Fit
  <2>3. /\ \A x \in Worker \ {w} : worker'[x] = worker[x]
        /\ worker'[w].s = worker[w].s /\ HandsOn(w, s) /\ \A x \in Session : ~HandsOn(w, x)'
    BY <2>1, <2>2 DEF HandsOn, WorkersFit, Runs
  <2>4. \A x \in open : x # s => view'[x] = view[x] /\ ~HandsOn(w, x)
    BY <1>8, <2>1, VoicesIs DEF HandsOn
  <2>5. s \in open => ~Busy(view'[s].status)
    BY <1>8, <2>1, VoicesIs DEF Busy
  <2>. QED  BY <2>2, <2>3, <2>4, <2>5, WorkerStep
<1>9. ASSUME NEW w \in Worker, NoVoices(w)
      PROVE  CarryFits'
  <2>1. /\ UNCHANGED <<open, creating, pending, follow, view, disk>>
        /\ \A x \in Worker \ {w} : worker'[x] = worker[x]
        /\ worker'[w].s = worker[w].s /\ \A x \in Session : HandsOn(w, x)' <=> HandsOn(w, x)
    BY <1>9 DEF NoVoices, WorkerIs, OnlyWorker, Fails, WorkersFit, Runs, HandsOn
  <2>. QED  BY <2>1, WorkerStep
<1>10. ASSUME NEW w \in Worker, NEW v \in Voice, WriteTrack(w, v)
       PROVE  CarryFits'
  <2>1. PICK s \in Session : s = worker[w].s
    BY <1>10 DEF WriteTrack, WorkersFit, Fit
  <2>2. UNCHANGED <<open, creating, pending, follow>>
    BY <1>10 DEF WriteTrack, OnlyWorker
  <2>3. /\ \A x \in Session : HandsOn(w, x)' <=> HandsOn(w, x)
        /\ \A x \in Worker \ {w} : worker'[x] = worker[x]
        /\ worker'[w].s = worker[w].s /\ HandsOn(w, s)
    BY <1>10, <2>1, WriteTrackIs DEF HandsOn
  <2>4. \A x \in open : x # s => view'[x] = view[x]
    BY <1>10, <2>1, WriteTrackIs
  <2>5. s \in open => Busy(view[s].status) /\ Busy(view'[s].status)
    BY <1>10, <2>1, <2>3, WriteTrackIs, HandsAreBusy DEF Busy
  <2>6. \A x \in Session : x # worker[w].s => disk'[x].saved = disk[x].saved
    BY <1>10, <2>1, WriteTrackIs DEF SameFiles
  <2>. QED  BY <2>2, <2>3, <2>4, <2>5, <2>6, WorkerStep
<1>11. ASSUME NEW w \in Worker, PutTrack(w)
       PROVE  CarryFits'
  <2>1. PICK s \in Session : s = worker[w].s
    BY <1>11 DEF PutTrack, WorkersFit, Fit
  <2>2. UNCHANGED <<open, creating, pending, follow>>
    BY <1>11 DEF PutTrack, OnlyWorker
  <2>3. /\ \A x \in Session : HandsOn(w, x)' => HandsOn(w, x)
        /\ \A x \in Worker \ {w} : worker'[x] = worker[x]
        /\ worker'[w].s = worker[w].s /\ (s \in open => HandsOn(w, s)')
    BY <1>11, <2>1, PutTrackIs DEF HandsOn
  <2>4. \A x \in open : Busy(view'[x].status) <=> Busy(view[x].status)
    BY <1>11, <2>1, PutTrackIs
  <2>5. \A x \in open : HandsOn(w, x) => HandsOn(w, x)'
    BY <2>1, <2>3 DEF HandsOn
  <2>6. \A x \in Session : x # worker[w].s => disk'[x].saved = disk[x].saved
    BY <1>11, <2>1, PutTrackIs
  <2>. QED  BY <2>2, <2>3, <2>4, <2>5, <2>6, WorkerStep
<1>12. ASSUME NEW w \in Worker, Extracted(w)
       PROVE  CarryFits'
  <2>1. PICK s \in Session : s = worker[w].s
    BY <1>12 DEF Extracted, WorkersFit, Fit
  <2>2. /\ UNCHANGED <<open, creating, pending, follow, disk>>
        /\ worker[w].pc = "working" /\ worker[w].kind # "analyse" /\ worker[w].kind \in Kinds
        /\ worker' = [worker EXCEPT ![w] = [worker[w] EXCEPT !.pc = "finishing"]]
    BY <1>12 DEF Extracted, WorkerIs, OnlyWorker, WorkersFit, Fit
  <2>3. /\ \A x \in Worker \ {w} : worker'[x] = worker[x]
        /\ worker'[w].s = worker[w].s /\ HandsOn(w, s)
        /\ \A x \in Session : HandsOn(w, x)' <=> x = s /\ worker[w].kind = "transcribe"
    BY <2>1, <2>2 DEF HandsOn, WorkersFit, Runs
  <2>4. \A x \in open : x # s => view'[x] = view[x] /\ ~HandsOn(w, x)
    BY <1>12, <2>1, ExtractedIs DEF HandsOn
  <2>5. s \in open => (Busy(view'[s].status) <=> Busy(view[s].status) /\ worker[w].kind = "transcribe")
    BY <1>12, <2>1, <2>2, <2>3, ExtractedIs, HandsAreBusy DEF Busy, Kinds
  <2>. QED  BY <2>2, <2>3, <2>4, <2>5, WorkerStep DEF HandsOn
<1>13. ASSUME NEW w \in Worker, RunHandsOver(w)
       PROVE  CarryFits'
  <2>1. PICK s \in Session : s = worker[w].s
    BY <1>13 DEF RunHandsOver, WorkersFit, Fit
  <2>2. /\ UNCHANGED <<open, creating, pending>> /\ worker' = [worker EXCEPT ![w] = Resting("looking")]
        /\ worker[w].pc = "finishing" /\ worker[w].kind = "transcribe"
    BY <1>13 DEF RunHandsOver, WorkerIs
  <2>3. /\ s \in open /\ view'[s].status = "transcribing"
        /\ \A x \in Session \ {s} : view'[x] = view[x] /\ disk'[x] = disk[x] /\ follow'[x] = follow[x]
        /\ follow'[s].pc = "submitting"
    BY <1>13, <2>1, RunHandsOverIs
  <2>4. /\ OneTaskEach' /\ HandsOn(w, s)
        /\ \A x \in Session : /\ (Creating(x)' <=> Creating(x)) /\ (Tasked(x)' <=> Tasked(x))
                              /\ Following(x)' <=> Following(x) \/ x = s
    BY <2>1, <2>2, <2>3 DEF CarryFits, OneTaskEach, Creating, Tasked, Following, HandsOn
  <2>5. /\ \A x \in Session, y \in Worker \ {w} : HandsOn(y, x)' <=> HandsOn(y, x)
        /\ \A x \in Session : ~HandsOn(w, x)' /\ (x # s => ~HandsOn(w, x))
        /\ \A x \in Session, y \in Worker : worker'[y].s = x => worker[y].s = x
    BY <2>1, <2>2, IsolationAssumption DEF HandsOn, WorkersFit, Resting
  <2>6. /\ ~Creating(s) /\ ~Tasked(s) /\ \A y \in Worker : HandsOn(y, s) => y = w
    BY <2>1, <2>4 DEF CarryFits, OneAtMost
  <2>7. OneAtMost'
    BY <2>3, <2>4, <2>5, <2>6 DEF CarryFits, OneAtMost
  <2>8. Busy(view'[s].status) /\ \A x \in open : x # s => view'[x] = view[x]
    BY <2>3 DEF Busy
  <2>9. BusyIsCarried'
    BY <2>2, <2>4, <2>5, <2>8 DEF CarryFits, BusyIsCarried
  <2>10. FreshFits'
    BY <2>1, <2>2, <2>3, <2>4, <2>5 DEF CarryFits, FreshFits
  <2>. QED  BY <2>4, <2>7, <2>9, <2>10 DEF CarryFits
<1>14. ASSUME NEW w \in Worker, RunEnds(w)
       PROVE  CarryFits'
  <2>1. PICK s \in Session : s = worker[w].s
    BY <1>14 DEF RunEnds, RunEndsWith, WorkersFit, Fit
  <2>2. UNCHANGED <<open, creating, pending, follow>> /\ worker' = [worker EXCEPT ![w] = Resting("looking")]
    BY <1>14, <2>1, RunEndsIs DEF OnlyWorker
  <2>3. /\ \A x \in Worker \ {w} : worker'[x] = worker[x]
        /\ worker'[w].s = None /\ \A x \in Session : ~HandsOn(w, x)'
    BY IsolationAssumption, <2>2 DEF WorkersFit, Resting, HandsOn
  <2>4. \A x \in open : x # s => view'[x] = view[x] /\ ~HandsOn(w, x)
    BY <1>14, <2>1, RunEndsIs DEF HandsOn
  <2>5. s \in open => (Busy(view'[s].status) <=> Busy(view[s].status) /\ ~HandsOn(w, s))
    <3>1. CASE worker[w].pc = "finishing"
      BY <1>14, <2>1, <3>1, RunEndsIs DEF HandsOn
    <3>2. CASE worker[w].pc = "failing"
      BY <1>14, <2>1, <3>2, RunEndsIs DEF HandsOn, Busy
    <3>. QED  BY <1>14, <2>1, <3>1, <3>2, RunEndsIs
  <2>6. \A x \in Session : x # worker[w].s => disk'[x].saved = disk[x].saved
    BY <1>14, <2>1, RunEndsIs
  <2>. QED  BY <2>2, <2>3, <2>4, <2>5, <2>6, WorkerStep
<1>15. ASSUME NEW s \in Session, NEW v \in Voice, NEW j \in Job, Submit(s, v, j)
       PROVE  CarryFits'
  <2>1. UNCHANGED <<open, creating, pending, worker>>
    BY <1>15 DEF Submit, OnlyFollower, memory, vars
  <2>2. \A x \in Session : Following(x)' <=> Following(x)
    BY <1>15 DEF Submit, OnlyFollower, FollowerIs, Following, Follows, memory, vars
  <2>3. \A x \in Session, w \in Worker : HandsOn(w, x)' <=> HandsOn(w, x)
    BY <2>1 DEF HandsOn
  <2>4. /\ \A x \in open : Busy(view'[x].status) <=> Busy(view[x].status)
        /\ \A x \in Session : creating[x] = "never" => disk'[x].saved = disk[x].saved
    BY <1>15 DEF Submit, CarryFits, FreshFits, memory, vars, Dirs, Views, Busy
  <2>. QED  BY <2>1, <2>2, <2>3, <2>4, QuietStep
<1>16. ASSUME NEW s \in Session, SubmitFails(s)
       PROVE  CarryFits'
  <2>1. UNCHANGED <<open, creating, pending, worker>>
    BY <1>16 DEF SubmitFails, OnlyFollower, memory, vars
  <2>2. \A x \in Session : Following(x)' <=> Following(x)
    BY <1>16 DEF SubmitFails, OnlyFollower, FollowerIs, Following, Follows, memory, vars
  <2>3. \A x \in Session, w \in Worker : HandsOn(w, x)' <=> HandsOn(w, x)
    BY <2>1 DEF HandsOn
  <2>4. /\ \A x \in open : Busy(view'[x].status) <=> Busy(view[x].status)
        /\ \A x \in Session : creating[x] = "never" => disk'[x].saved = disk[x].saved
    BY <1>16 DEF SubmitFails, CarryFits, FreshFits, memory, vars, Dirs, Views, Busy
  <2>. QED  BY <2>1, <2>2, <2>3, <2>4, QuietStep
<1>17. ASSUME NEW s \in Session, Submitted(s)
       PROVE  CarryFits'
  <2>1. UNCHANGED <<open, creating, pending, worker>>
    BY <1>17 DEF Submitted, OnlyFollower, memory, vars
  <2>2. \A x \in Session : Following(x)' <=> Following(x)
    BY <1>17, SubmittedIs DEF Submitted, OnlyFollower, FollowerIs, Following, Follows, memory, vars
  <2>3. \A x \in Session, w \in Worker : HandsOn(w, x)' <=> HandsOn(w, x)
    BY <2>1 DEF HandsOn
  <2>4. /\ \A x \in open : Busy(view'[x].status) <=> Busy(view[x].status)
        /\ \A x \in Session : creating[x] = "never" => disk'[x].saved = disk[x].saved
    BY <1>17, SubmittedIs DEF Submitted, CarryFits, FreshFits, memory, vars, Dirs, Views, Busy
  <2>. QED  BY <2>1, <2>2, <2>3, <2>4, QuietStep
<1>18. ASSUME NEW s \in Session, Awaited(s)
       PROVE  CarryFits'
  <2>1. UNCHANGED <<open, creating, pending, worker>>
    BY <1>18 DEF Awaited, OnlyFollower, memory, vars
  <2>2. \A x \in Session : Following(x)' <=> Following(x)
    BY <1>18 DEF Awaited, OnlyFollower, FollowerIs, Following, Follows, memory, vars
  <2>3. \A x \in Session, w \in Worker : HandsOn(w, x)' <=> HandsOn(w, x)
    BY <2>1 DEF HandsOn
  <2>4. /\ \A x \in open : Busy(view'[x].status) <=> Busy(view[x].status)
        /\ \A x \in Session : creating[x] = "never" => disk'[x].saved = disk[x].saved
    BY <1>18 DEF Awaited, CarryFits, FreshFits, memory, vars, Dirs, Views, Busy
  <2>. QED  BY <2>1, <2>2, <2>3, <2>4, QuietStep
<1>19. ASSUME NEW s \in Session, CancelJobs(s)
       PROVE  CarryFits'
  <2>1. UNCHANGED <<open, creating, pending, worker>>
    BY <1>19 DEF CancelJobs, OnlyFollower, memory, vars
  <2>2. \A x \in Session : Following(x)' <=> Following(x)
    BY <1>19 DEF CancelJobs, OnlyFollower, FollowerIs, Following, Follows, memory, vars
  <2>3. \A x \in Session, w \in Worker : HandsOn(w, x)' <=> HandsOn(w, x)
    BY <2>1 DEF HandsOn
  <2>4. /\ \A x \in open : Busy(view'[x].status) <=> Busy(view[x].status)
        /\ \A x \in Session : creating[x] = "never" => disk'[x].saved = disk[x].saved
    BY <1>19 DEF CancelJobs, CarryFits, FreshFits, memory, vars, Dirs, Views, Busy
  <2>. QED  BY <2>1, <2>2, <2>3, <2>4, QuietStep
<1>20. ASSUME NEW s \in Session, WriteTranscript(s)
       PROVE  CarryFits'
  <2>1. UNCHANGED <<open, creating, pending, worker>>
    BY <1>20 DEF WriteTranscript
  <2>0. PICK ok \in BOOLEAN :
           /\ follow' = [follow EXCEPT ![s] = [follow[s] EXCEPT !.pc = "ending", !.ok = ok]]
           /\ disk' = [disk EXCEPT ![s] = [disk[s] EXCEPT !.transcript = disk[s].transcript \/ ok]]
           /\ view' = view
    BY <1>20, TranscriptIs, Zenon
  <2>2. \A x \in Session : Following(x)' <=> Following(x)
    <3>1. follow[s].pc = "merged" /\ follow[s] \in Follows
      BY <1>20 DEF WriteTranscript
    <3>2. follow'[s].pc = "ending" /\ \A x \in Session \ {s} : follow'[x] = follow[x]
      BY <2>0, <3>1 DEF Follows
    <3>. QED  BY <3>1, <3>2 DEF Following
  <2>3. \A x \in Session, w \in Worker : HandsOn(w, x)' <=> HandsOn(w, x)
    BY <2>1 DEF HandsOn
  <2>4. /\ \A x \in open : Busy(view'[x].status) <=> Busy(view[x].status)
        /\ \A x \in Session : creating[x] = "never" => disk'[x].saved = disk[x].saved
    <3>1. PICK d : d = [disk[s] EXCEPT !.transcript = disk[s].transcript \/ ok]
      OBVIOUS
    <3>2. d.saved = disk[s].saved
      BY <3>1 DEF Dirs
    <3>3. disk' = [disk EXCEPT ![s] = d]
      BY <2>0, <3>1
    <3>. QED  BY <2>0, <3>2, <3>3
  <2>. QED  BY <2>1, <2>2, <2>3, <2>4, QuietStep
<1>21. ASSUME NEW s \in Session, FollowEnds(s)
       PROVE  CarryFits'
  <2>1. /\ UNCHANGED <<open, creating, pending, worker>> /\ Following(s)
        /\ \A x \in Session \ {s} : view'[x] = view[x] /\ disk'[x] = disk[x]
        /\ follow' = [follow EXCEPT ![s] = NoFollow] /\ follow'[s].pc = "none"
        /\ s \in open => ~Busy(view'[s].status)
    BY <1>21, FollowEndsIs DEF OnlyFollower, Following, Busy
  <2>2. /\ OneTaskEach'
        /\ \A x \in Session : /\ (Creating(x)' <=> Creating(x)) /\ (Tasked(x)' <=> Tasked(x))
                              /\ Following(x)' <=> Following(x) /\ x # s
                              /\ \A y \in Worker : HandsOn(y, x)' <=> HandsOn(y, x)
    BY <2>1 DEF CarryFits, OneTaskEach, Creating, Tasked, Following, HandsOn
  <2>3. ~Creating(s) /\ ~Tasked(s) /\ \A y \in Worker : ~HandsOn(y, s)
    BY <2>1 DEF CarryFits, OneAtMost
  <2>4. OneAtMost'
    BY <2>1, <2>2 DEF CarryFits, OneAtMost
  <2>5. BusyIsCarried'
    BY <2>1, <2>2, <2>3 DEF CarryFits, BusyIsCarried
  <2>6. FreshFits'
    BY <2>1, <2>2 DEF CarryFits, FreshFits
  <2>. QED  BY <2>2, <2>4, <2>5, <2>6 DEF CarryFits
<1>22. ASSUME NEW s \in Session, CreateUpload(s)
       PROVE  CarryFits'
  <2>1. /\ UNCHANGED <<open, view, pending, worker, follow>> /\ creating[s] = "uploading"
        /\ creating' = [creating EXCEPT ![s] = "uploaded"]
    BY <1>22 DEF CreateUpload, memory
  <2>2. \A x \in Session : disk'[x].saved = disk[x].saved
    BY <1>22, CreateUploadIs
  <2>3. OneTaskEach' /\ \A x \in Session : /\ Tasked(x)' <=> Tasked(x)
                                           /\ Creating(x)' <=> Creating(x)
                                           /\ Following(x)' <=> Following(x)
                                           /\ \A w \in Worker : HandsOn(w, x)' <=> HandsOn(w, x)
    BY <2>1 DEF CarryFits, OneTaskEach, Tasked, Creating, Following, HandsOn
  <2>4. OneAtMost' /\ BusyIsCarried'
    BY <2>1, <2>3 DEF CarryFits, OneAtMost, BusyIsCarried
  <2>5. FreshFits'
    BY <2>1, <2>2, <2>3 DEF CarryFits, FreshFits
  <2>. QED  BY <2>3, <2>4, <2>5 DEF CarryFits
<1>23. ASSUME NEW s \in Session, s \notin open, CreateFails(s)
       PROVE  CarryFits'
  <2>1. /\ UNCHANGED <<open, view, pending, worker, follow, disk>> /\ creating[s] = "uploading"
        /\ creating' = [creating EXCEPT ![s] = "created"]
    BY <1>23 DEF CreateFails
  <2>2. OneTaskEach' /\ \A x \in Session : /\ Tasked(x)' <=> Tasked(x)
                                           /\ Creating(x)' <=> Creating(x) /\ x # s
                                           /\ Following(x)' <=> Following(x)
                                           /\ \A w \in Worker : HandsOn(w, x)' <=> HandsOn(w, x)
    BY <2>1 DEF CarryFits, OneTaskEach, Tasked, Creating, Following, HandsOn
  <2>3. OneAtMost'
    BY <2>1, <2>2 DEF CarryFits, OneAtMost
  <2>4. BusyIsCarried'
    BY <1>23, <2>1, <2>2 DEF CarryFits, BusyIsCarried
  <2>5. FreshFits'
    BY <2>1, <2>2 DEF CarryFits, FreshFits
  <2>. QED  BY <2>2, <2>3, <2>4, <2>5 DEF CarryFits
<1>24. ASSUME NEW s \in Session, CreateQueue(s)
       PROVE  CarryFits'
  <2>1. /\ UNCHANGED <<open, view, worker, follow>> /\ creating[s] = "uploaded"
        /\ creating' = [creating EXCEPT ![s] = "created"]
    BY <1>24 DEF CreateQueue
  <2>2. Creating(s) /\ ~Tasked(s) /\ ~Following(s) /\ \A w \in Worker : worker[w].s # s
    BY <2>1 DEF Creating, CarryFits, OneAtMost
  <2>3. OneTaskEach' /\ \A x \in Session : Tasked(x)' <=> Tasked(x) \/ x = s
    BY <1>24, <2>2, CreateQueueIs DEF CarryFits
  <2>4. \A x \in Session : /\ Creating(x)' <=> Creating(x) /\ x # s
                           /\ Following(x)' <=> Following(x)
                           /\ \A w \in Worker : HandsOn(w, x)' <=> HandsOn(w, x)
    BY <2>1 DEF Creating, Following, HandsOn
  <2>5. \A w \in Worker : ~HandsOn(w, s)
    BY <2>2 DEF HandsOn
  <2>6. OneAtMost'
    BY <2>1, <2>2, <2>3, <2>4, <2>5 DEF CarryFits, OneAtMost
  <2>7. BusyIsCarried'
    BY <2>1, <2>2, <2>3, <2>4 DEF CarryFits, BusyIsCarried
  <2>8. \A x \in Session : x # s => disk'[x].saved = disk[x].saved
    BY <1>24, CreateQueueIs DEF CarryFits
  <2>9. FreshFits'
    BY <2>1, <2>3, <2>4, <2>8 DEF CarryFits, FreshFits
  <2>. QED  BY <2>3, <2>6, <2>7, <2>9 DEF CarryFits
<1>25. ASSUME NEW s \in Session, NEW keep \in BOOLEAN, CreateEnter(s, keep)
       PROVE  CarryFits'
  <2>1. /\ UNCHANGED <<pending, worker, follow, disk>> /\ creating[s] = "never"
        /\ creating' = [creating EXCEPT ![s] = "uploading"] /\ open' = open \cup {s}
    BY <1>25 DEF CreateEnter
  <2>2. s \notin open /\ ~Tasked(s) /\ ~Following(s) /\ \A w \in Worker : worker[w].s # s
    BY <2>1 DEF CarryFits, FreshFits
  <2>3. OneTaskEach' /\ \A x \in Session : /\ Tasked(x)' <=> Tasked(x)
                                           /\ Creating(x)' <=> Creating(x) \/ x = s
                                           /\ Following(x)' <=> Following(x)
                                           /\ \A w \in Worker : HandsOn(w, x)' <=> HandsOn(w, x)
    BY <2>1 DEF CarryFits, OneTaskEach, Tasked, Creating, Following, HandsOn
  <2>4. OneAtMost'
    BY <2>1, <2>2, <2>3 DEF CarryFits, OneAtMost, HandsOn
  <2>5. Busy(view'[s].status) /\ \A x \in open : view'[x] = view[x]
    BY <1>25, <2>2, CreateEnterIs DEF Busy
  <2>6. BusyIsCarried'
    BY <2>1, <2>3, <2>5 DEF CarryFits, BusyIsCarried
  <2>7. FreshFits'
    BY <2>1, <2>2, <2>3 DEF CarryFits, FreshFits
  <2>. QED  BY <2>3, <2>4, <2>6, <2>7 DEF CarryFits
<1>26. ASSUME NEW s \in Session, Begins(s)
       PROVE  CarryFits'
  <2>1. /\ UNCHANGED <<creating, open, worker, follow>> /\ s \in open /\ ~Busy(view[s].status)
        /\ view'[s].status = "queued" /\ \A x \in Session \ {s} : view'[x] = view[x]
        /\ \A x \in Session \ {s} : disk'[x] = disk[x]
        /\ pending \in Seq(Tasks)
    BY <1>26, BeginsIs DEF Shapes, PlainShapes
  <2>0. \E t \in Tasks : t.s = s /\ Enqueues(t)
    BY <1>26, BeginsIs
  <2>2. PICK t \in Tasks : t.s = s /\ pending' = Append(pending, t)
    BY <2>0 DEF Enqueues
  <2>3. ~Creating(s) /\ ~Tasked(s) /\ ~Following(s) /\ \A w \in Worker : ~HandsOn(w, s)
    BY <2>1 DEF CarryFits, BusyIsCarried
  <2>4. OneTaskEach' /\ \A x \in Session : Tasked(x)' <=> Tasked(x) \/ x = s
    BY <2>1, <2>2, <2>3, TaskThatJoins DEF CarryFits
  <2>5. \A x \in Session : /\ Creating(x)' <=> Creating(x)
                           /\ Following(x)' <=> Following(x)
                           /\ \A w \in Worker : HandsOn(w, x)' <=> HandsOn(w, x)
    BY <2>1 DEF Creating, Following, HandsOn
  <2>6. OneAtMost'
    BY <2>1, <2>3, <2>4, <2>5 DEF CarryFits, OneAtMost
  <2>7. Busy(view'[s].status)
    BY <2>1 DEF Busy
  <2>8. BusyIsCarried'
    BY <2>1, <2>4, <2>5, <2>7 DEF CarryFits, BusyIsCarried
  <2>9. FreshFits'
    BY <2>1, <2>4, <2>5 DEF CarryFits, FreshFits
  <2>. QED  BY <2>4, <2>6, <2>8, <2>9 DEF CarryFits
<1>27. ASSUME NEW s \in Session, Update(s)
       PROVE  CarryFits'
  <2>1. UNCHANGED <<open, creating, pending, worker, follow>>
    BY <1>27 DEF Update
  <2>2. \A x \in open : Busy(view'[x].status) <=> Busy(view[x].status)
    BY <1>27, UpdateIs
  <2>3. \A x \in Session : creating[x] = "never" => disk'[x].saved = disk[x].saved
    BY <1>27, UpdateIs DEF CarryFits, FreshFits
  <2>. QED  BY <2>1, <2>2, <2>3, QuietStep DEF HandsOn, Following
<1>28. ASSUME NEW s \in Session, EndsInside(s)
       PROVE  CarryFits'
  <2>1. Forgotten /\ \A x \in Session : disk'[x].saved = disk[x].saved
    BY <1>28, EndsInsideIs
  <2>2. /\ open' = {} /\ pending' = <<>>
        /\ \A w \in Worker : worker'[w].s = None
        /\ \A x \in Session : follow'[x].pc = "none"
        /\ creating' \in [Session -> {"never", "created"}]
        /\ \A x \in Session : creating'[x] = "never" <=> creating[x] = "never"
    BY <2>1, ForgottenIs
  <2>3. OneTaskEach' /\ \A x \in Session :
           /\ ~Tasked(x)' /\ ~Creating(x)' /\ ~Following(x)'
           /\ \A w \in Worker : ~HandsOn(w, x)'
    BY <2>2, IsolationAssumption DEF OneTaskEach, Tasked, Creating, Following, HandsOn
  <2>4. OneAtMost' /\ BusyIsCarried'
    BY <2>2, <2>3 DEF OneAtMost, BusyIsCarried
  <2>5. FreshFits'
    BY <2>1, <2>2, <2>3, IsolationAssumption DEF CarryFits, FreshFits
  <2>. QED  BY <2>3, <2>4, <2>5 DEF CarryFits
<1>29. ASSUME NEW S \in SUBSET open, Removes(S)
       PROVE  CarryFits'
  <2>1. S \in SUBSET Session /\ Drops(S)
    BY <1>29 DEF Removes
  <2>2. /\ OneTaskEach' /\ open' = open \ S
        /\ \A x \in Session : Tasked(x)' <=> Tasked(x) /\ x \notin S
        /\ \A x \in Session \ S : view'[x] = view[x] /\ disk'[x] = disk[x]
    BY <2>1, DropsIs DEF CarryFits
  <2>3. /\ UNCHANGED <<worker, follow>>
        /\ \A x \in Session : Creating(x)' => Creating(x)
        /\ \A x \in Session \ S : Creating(x)' <=> Creating(x)
        /\ \A x \in Session : creating'[x] = "never" <=> creating[x] = "never"
    BY <1>29 DEF Removes, Creating
  <2>4. \A x \in Session : /\ Following(x)' <=> Following(x)
                           /\ \A w \in Worker : HandsOn(w, x)' <=> HandsOn(w, x)
    BY <2>3 DEF Following, HandsOn
  <2>5. OneAtMost'
    BY <2>2, <2>3, <2>4 DEF CarryFits, OneAtMost
  <2>6. BusyIsCarried'
    BY <2>2, <2>3, <2>4 DEF CarryFits, BusyIsCarried
  <2>7. FreshFits'
    BY <1>29, <2>2, <2>3, <2>4 DEF CarryFits, FreshFits
  <2>. QED  BY <2>2, <2>5, <2>6, <2>7 DEF CarryFits
<1>30. ASSUME NEW j \in Job, JobEnds(j)
       PROVE  CarryFits'
  <2>1. UNCHANGED <<open, creating, pending, worker>>
    BY <1>30 DEF JobEnds, OnlyFollower, memory, vars
  <2>2. \A x \in Session : Following(x)' <=> Following(x)
    BY <1>30 DEF JobEnds, OnlyFollower, FollowerIs, Following, Follows, memory, vars
  <2>3. \A x \in Session, w \in Worker : HandsOn(w, x)' <=> HandsOn(w, x)
    BY <2>1 DEF HandsOn
  <2>4. /\ \A x \in open : Busy(view'[x].status) <=> Busy(view[x].status)
        /\ \A x \in Session : creating[x] = "never" => disk'[x].saved = disk[x].saved
    BY <1>30 DEF JobEnds, CarryFits, FreshFits, memory, vars, Dirs, Views, Busy
  <2>. QED  BY <2>1, <2>2, <2>3, <2>4, QuietStep
<1>31. ASSUME NEW j \in Job, JobForgotten(j)
       PROVE  CarryFits'
  <2>1. UNCHANGED <<open, creating, pending, worker>>
    BY <1>31 DEF JobForgotten, OnlyFollower, memory, vars
  <2>2. \A x \in Session : Following(x)' <=> Following(x)
    BY <1>31 DEF JobForgotten, OnlyFollower, FollowerIs, Following, Follows, memory, vars
  <2>3. \A x \in Session, w \in Worker : HandsOn(w, x)' <=> HandsOn(w, x)
    BY <2>1 DEF HandsOn
  <2>4. /\ \A x \in open : Busy(view'[x].status) <=> Busy(view[x].status)
        /\ \A x \in Session : creating[x] = "never" => disk'[x].saved = disk[x].saved
    BY <1>31 DEF JobForgotten, CarryFits, FreshFits, memory, vars, Dirs, Views, Busy
  <2>. QED  BY <2>1, <2>2, <2>3, <2>4, QuietStep
<1>32. CASE Close
  <2>1. UNCHANGED <<open, creating, pending, worker>>
    BY <1>32 DEF Close, OnlyFollower, memory, vars
  <2>2. \A x \in Session : Following(x)' <=> Following(x)
    BY <1>32 DEF Close, OnlyFollower, FollowerIs, Following, Follows, memory, vars
  <2>3. \A x \in Session, w \in Worker : HandsOn(w, x)' <=> HandsOn(w, x)
    BY <2>1 DEF HandsOn
  <2>4. /\ \A x \in open : Busy(view'[x].status) <=> Busy(view[x].status)
        /\ \A x \in Session : creating[x] = "never" => disk'[x].saved = disk[x].saved
    BY <1>32 DEF Close, CarryFits, FreshFits, memory, vars, Dirs, Views, Busy
  <2>. QED  BY <2>1, <2>2, <2>3, <2>4, QuietStep
<1>33. CASE Ends
  <2>1. Forgotten /\ \A x \in Session : disk'[x].saved = disk[x].saved
    BY <1>33 DEF Ends
  <2>2. /\ open' = {} /\ pending' = <<>>
        /\ \A w \in Worker : worker'[w].s = None
        /\ \A x \in Session : follow'[x].pc = "none"
        /\ creating' \in [Session -> {"never", "created"}]
        /\ \A x \in Session : creating'[x] = "never" <=> creating[x] = "never"
    BY <2>1, ForgottenIs
  <2>3. OneTaskEach' /\ \A x \in Session :
           /\ ~Tasked(x)' /\ ~Creating(x)' /\ ~Following(x)'
           /\ \A w \in Worker : ~HandsOn(w, x)'
    BY <2>2, IsolationAssumption DEF OneTaskEach, Tasked, Creating, Following, HandsOn
  <2>4. OneAtMost' /\ BusyIsCarried'
    BY <2>2, <2>3 DEF OneAtMost, BusyIsCarried
  <2>5. FreshFits'
    BY <2>1, <2>2, <2>3, IsolationAssumption DEF CarryFits, FreshFits
  <2>. QED  BY <2>3, <2>4, <2>5 DEF CarryFits
<1>34. CASE Restart
  <2>1. /\ phase = "down" /\ OneTaskEach' /\ open' \in SUBSET Session
        /\ \A x \in open' : disk[x] \in Dirs /\ disk[x].saved # None /\ view'[x] = Restored(disk[x])
        /\ \A x \in Session : disk'[x] = IF disk[x].saved # None THEN disk[x] ELSE NoDir
        /\ \A x \in Session : Tasked(x)' <=> x \in open' /\ view'[x].status = "queued"
        /\ worker' = [w \in Worker |-> Resting("looking")] /\ UNCHANGED <<creating, follow>>
    BY <1>34, RestartIs
  <2>2. \A x \in Session : /\ ~Creating(x)' /\ ~Following(x)'
                           /\ \A w \in Worker : worker'[w].s # x /\ ~HandsOn(w, x)'
    BY <2>1, IsolationAssumption DEF DownFits, Creating, Following, HandsOn, Resting
  <2>3. \A x \in open' : Busy(view'[x].status) <=> view'[x].status = "queued"
    BY <2>1, RestoredIs
  <2>4. OneAtMost' /\ BusyIsCarried'
    BY <2>1, <2>2, <2>3 DEF OneAtMost, BusyIsCarried
  <2>5. FreshFits'
    <3>1. \A x \in Session : creating[x] = "never" => disk[x].saved = None
      BY DEF CarryFits, FreshFits
    <3>2. \A x \in Session : creating[x] = "never" => x \notin open' /\ disk'[x].saved = None
      BY <2>1, <3>1 DEF NoDir
    <3>. QED  BY <2>1, <2>2, <3>2 DEF FreshFits
  <2>. QED  BY <2>1, <2>4, <2>5 DEF CarryFits
<1>35. CASE UNCHANGED vars
  BY <1>35, QuietStep DEF vars, memory, Following, HandsOn
<1> HIDE DEF CarryFits
<1>36. CASE \E s \in Session : (\E v \in Voice : Extract(s, v)) \/ ExtractAll(s) \/ TranscribeSpeakers(s)
  BY <1>26, <1>36, RequestsBegin
<1>37. CASE CloseEnds \/ \E s \in Session : Delete(s) \/ Expire(s) \/ (s \in open /\ CreateFails(s))
  <2>1. \E S \in SUBSET open : Removes(S)
    BY <1>37, SectionsRemove
  <2>. QED  BY <1>29, <2>1
<1>. QED
  BY <1>1, <1>2, <1>3, <1>4, <1>5, <1>6, <1>7, <1>8, <1>9, <1>10, <1>11, <1>12,
     <1>13, <1>14, <1>15, <1>16, <1>17, <1>18, <1>19, <1>20, <1>21, <1>22, <1>23, <1>24,
     <1>25, <1>26, <1>27, <1>28, <1>29, <1>30, <1>31, <1>32, <1>33, <1>34, <1>35, <1>36,
     <1>37, Zenon
  DEF Next, WorkerSteps, FollowerSteps, CreateSteps, Requests

(* What a step does to the phase: a process that is down starts again or   *)
(* nothing of it moves, one that is up ends or stays up.                   *)
PhaseMoves ==
    \/ Restart \/ Ends \/ \E s \in Session : EndsInside(s)
    \/ phase # "down" /\ phase' # "down"
    \/ UNCHANGED <<phase, open, view, pending, wake, worker, follow, creating, disk, stray, intact>>

(* A step of any actor moves the phase so.                                 *)
LEMMA StepsOfPhase ==
    ASSUME Shapes, DownFits, [Next]_vars
    PROVE  PhaseMoves
<1>0. /\ open \subseteq Session /\ phase \in {"running", "stopping", "stopped", "down"}
      /\ \A S \in SUBSET open : phase = "down" => S = {}
  BY DEF Shapes, PlainShapes, DownFits
<1> USE DEF PhaseMoves
<1>1. ASSUME NEW w \in Worker, NextTakes(w)
      PROVE  PhaseMoves
  BY <1>0, <1>1 DEF DownFits, NextTakes, OnlyWorker
<1>2. ASSUME NEW w \in Worker, NextWaits(w)
      PROVE  PhaseMoves
  BY <1>0, <1>2 DEF DownFits, NextWaits, OnlyWorker
<1>3. ASSUME NEW w \in Worker, NextWakes(w)
      PROVE  PhaseMoves
  BY <1>0, <1>3 DEF DownFits, NextWakes, OnlyWorker
<1>4. ASSUME NEW w \in Worker, NextEnds(w)
      PROVE  PhaseMoves
  BY <1>0, <1>4 DEF DownFits, NextEnds, OnlyWorker
<1>5. ASSUME NEW w \in Worker, RunStarts(w)
      PROVE  PhaseMoves
  BY <1>0, <1>5 DEF DownFits, RunStarts, OnlyWorker
<1>6. ASSUME NEW w \in Worker, WorkFails(w)
      PROVE  PhaseMoves
  BY <1>0, <1>6 DEF DownFits, WorkFails, OnlyWorker
<1>7. ASSUME NEW w \in Worker, Decode(w)
      PROVE  PhaseMoves
  BY <1>0, <1>7 DEF DownFits, Decode, OnlyWorker
<1>8. ASSUME NEW w \in Worker, NEW sm \in SUBSET Voice, Voices(w, sm)
      PROVE  PhaseMoves
  BY <1>0, <1>8 DEF DownFits, Voices, OnlyWorker
<1>9. ASSUME NEW w \in Worker, NoVoices(w)
      PROVE  PhaseMoves
  BY <1>0, <1>9 DEF DownFits, NoVoices, OnlyWorker
<1>10. ASSUME NEW w \in Worker, NEW v \in Voice, WriteTrack(w, v)
       PROVE  PhaseMoves
  BY <1>0, <1>10 DEF DownFits, WriteTrack, OnlyWorker
<1>11. ASSUME NEW w \in Worker, PutTrack(w)
       PROVE  PhaseMoves
  BY <1>0, <1>11 DEF DownFits, PutTrack, OnlyWorker
<1>12. ASSUME NEW w \in Worker, Extracted(w)
       PROVE  PhaseMoves
  BY <1>0, <1>12 DEF DownFits, Extracted, OnlyWorker
<1>13. ASSUME NEW w \in Worker, RunHandsOver(w)
       PROVE  PhaseMoves
  BY <1>0, <1>13 DEF DownFits, RunHandsOver, OnlyWorker
<1>14. ASSUME NEW w \in Worker, RunEnds(w)
       PROVE  PhaseMoves
  BY <1>0, <1>14 DEF DownFits, RunEnds, RunEndsWith, OnlyWorker
<1>15. ASSUME NEW s \in Session, NEW v \in Voice, NEW j \in Job, Submit(s, v, j)
       PROVE  PhaseMoves
  BY <1>0, <1>15 DEF DownFits, Submit, OnlyFollower, Following
<1>16. ASSUME NEW s \in Session, SubmitFails(s)
       PROVE  PhaseMoves
  BY <1>0, <1>16 DEF DownFits, SubmitFails, OnlyFollower, Following
<1>17. ASSUME NEW s \in Session, Submitted(s)
       PROVE  PhaseMoves
  BY <1>0, <1>17 DEF DownFits, Submitted, OnlyFollower, Following
<1>18. ASSUME NEW s \in Session, Awaited(s)
       PROVE  PhaseMoves
  BY <1>0, <1>18 DEF DownFits, Awaited, OnlyFollower, Following
<1>19. ASSUME NEW s \in Session, CancelJobs(s)
       PROVE  PhaseMoves
  BY <1>0, <1>19 DEF DownFits, CancelJobs, OnlyFollower, Following
<1>20. ASSUME NEW s \in Session, WriteTranscript(s)
       PROVE  PhaseMoves
  BY <1>0, <1>20 DEF DownFits, WriteTranscript, OnlyFollower, Following
<1>21. ASSUME NEW s \in Session, FollowEnds(s)
       PROVE  PhaseMoves
  BY <1>0, <1>21 DEF DownFits, FollowEnds, FollowEndsWith, OnlyFollower, Following
<1>22. ASSUME NEW s \in Session, CreateUpload(s)
       PROVE  PhaseMoves
  BY <1>0, <1>22 DEF DownFits, CreateUpload, Creating
<1>23. ASSUME NEW s \in Session, s \notin open, CreateFails(s)
       PROVE  PhaseMoves
  BY <1>0, <1>23 DEF DownFits, CreateFails, Creating
<1>24. ASSUME NEW s \in Session, CreateQueue(s)
       PROVE  PhaseMoves
  BY <1>0, <1>24 DEF DownFits, CreateQueue, Creating
<1>25. ASSUME NEW s \in Session, NEW keep \in BOOLEAN, CreateEnter(s, keep)
       PROVE  PhaseMoves
  BY <1>0, <1>25 DEF DownFits, CreateEnter
<1>26. ASSUME NEW s \in Session, Begins(s)
       PROVE  PhaseMoves
  BY <1>0, <1>26, BeginsIs
<1>27. ASSUME NEW s \in Session, Update(s)
       PROVE  PhaseMoves
  BY <1>0, <1>27 DEF DownFits, Update
<1>28. ASSUME NEW s \in Session, EndsInside(s)
       PROVE  PhaseMoves
  BY <1>28
<1>29. ASSUME NEW S \in SUBSET open, Removes(S)
       PROVE  PhaseMoves
  BY <1>0, <1>29 DEF DownFits, Removes, Drops, DropsEnding
<1>30. ASSUME NEW j \in Job, JobEnds(j)
       PROVE  PhaseMoves
  BY <1>30 DEF JobEnds, memory
<1>31. ASSUME NEW j \in Job, JobForgotten(j)
       PROVE  PhaseMoves
  BY <1>31 DEF JobForgotten, memory
<1>32. CASE Close
  BY <1>0, <1>32 DEF DownFits, Close
<1>33. CASE Ends
  BY <1>33
<1>34. CASE Restart
  BY <1>34
<1>35. CASE UNCHANGED vars
  BY <1>35 DEF vars, memory
<1> HIDE DEF PhaseMoves
<1>36. CASE \E s \in Session : (\E v \in Voice : Extract(s, v)) \/ ExtractAll(s) \/ TranscribeSpeakers(s)
  BY <1>26, <1>36, RequestsBegin
<1>37. CASE CloseEnds \/ \E s \in Session : Delete(s) \/ Expire(s) \/ (s \in open /\ CreateFails(s))
  <2>1. \E S \in SUBSET open : Removes(S)
    BY <1>37, SectionsRemove
  <2>. QED  BY <1>29, <2>1
<1>. QED
  BY <1>1, <1>2, <1>3, <1>4, <1>5, <1>6, <1>7, <1>8, <1>9, <1>10, <1>11, <1>12,
     <1>13, <1>14, <1>15, <1>16, <1>17, <1>18, <1>19, <1>20, <1>21, <1>22, <1>23, <1>24,
     <1>25, <1>26, <1>27, <1>28, <1>29, <1>30, <1>31, <1>32, <1>33, <1>34, <1>35, <1>36,
     <1>37, Zenon
  DEF Next, WorkerSteps, FollowerSteps, CreateSteps, Requests

(* Between two processes nothing but files is left.                        *)
LEMMA DownKept ==
    ASSUME Shapes, DownFits, [Next]_vars
    PROVE  DownFits'
<1>1. PhaseMoves
  BY StepsOfPhase
<1>2. CASE Restart
  BY <1>2, RestartIs DEF DownFits
<1>3. CASE Forgotten
  <2>1. /\ open' = {} /\ pending' = <<>> /\ wake' = FALSE
        /\ \A w \in Worker : worker'[w].pc = "exited"
        /\ \A s \in Session : follow'[s].pc = "none"
        /\ creating' \in [Session -> {"never", "created"}]
    BY <1>3, ForgottenIs
  <2>. QED  BY <2>1 DEF DownFits, Following, Creating
<1>4. CASE UNCHANGED <<phase, open, view, pending, wake, worker, follow, creating, disk, stray, intact>>
  BY <1>4 DEF DownFits, Following, Creating
<1>. QED  BY <1>1, <1>2, <1>3, <1>4 DEF PhaseMoves, Ends, EndsInside, DownFits

(* A step that leaves the line alone, the signal set, and wakes nobody.    *)
LEMMA SameLine ==
    ASSUME NoTaskForgotten, pending' = pending, wake => wake',
           \/ worker' = worker
           \/ \A x \in Worker : /\ worker'[x].pc = "asleep" => worker[x].pc = "asleep"
                                /\ worker[x].pc = "looking" => worker'[x].pc = "looking"
    PROVE  NoTaskForgotten'
BY DEF NoTaskForgotten

(* No step leaves a task to workers that sleep unsignalled.                 *)
LEMMA LineKept ==
    ASSUME Shapes, CarryFits, NoTaskForgotten, [Next]_vars
    PROVE  NoTaskForgotten'
<1>0. worker \in [Worker -> Runs] /\ open \subseteq Session /\ OneTaskEach
  BY DEF Shapes, PlainShapes, WorkersFit, CarryFits
<1>1. ASSUME NEW w \in Worker, NextTakes(w)
      PROVE  NoTaskForgotten'
  <2>1. pending' # <<>> => wake'
    <3>1. PICK t \in Tasks : pending' # <<>> => wake'
      BY <1>1, <1>0, NextTakesIs
    <3>. QED  BY <3>1
  <2>. QED  BY <2>1 DEF NoTaskForgotten
<1>2. ASSUME NEW w \in Worker, NextWaits(w)
      PROVE  NoTaskForgotten'
  <2>1. pending' = <<>>
    BY <1>2 DEF NextWaits
  <2>. QED  BY <2>1 DEF NoTaskForgotten
<1>3. ASSUME NEW w \in Worker, NextWakes(w)
      PROVE  NoTaskForgotten'
  <2>1. worker'[w].pc = "looking"
    BY <1>0, <1>3 DEF NextWakes, WorkerIs, Resting
  <2>. QED  BY <2>1 DEF NoTaskForgotten
<1>4. ASSUME NEW w \in Worker, NextEnds(w)
      PROVE  NoTaskForgotten'
  <2>1. pending' = pending /\ (wake => wake')
    BY <1>4 DEF NextEnds, OnlyWorker
  <2>2. \A x \in Worker : /\ worker'[x].pc = "asleep" => worker[x].pc = "asleep"
                          /\ worker[x].pc = "looking" => worker'[x].pc = "looking"
    BY <1>0, <1>4 DEF NextEnds, WorkerIs, OnlyWorker, Resting, Fails, Runs
  <2>. QED  BY <2>1, <2>2, SameLine
<1>5. ASSUME NEW w \in Worker, RunStarts(w)
      PROVE  NoTaskForgotten'
  <2>1. pending' = pending /\ (wake => wake')
    BY <1>5 DEF RunStarts, OnlyWorker
  <2>2. \A x \in Worker : /\ worker'[x].pc = "asleep" => worker[x].pc = "asleep"
                          /\ worker[x].pc = "looking" => worker'[x].pc = "looking"
    BY <1>0, <1>5 DEF RunStarts, WorkerIs, OnlyWorker, Resting, Fails, Runs
  <2>. QED  BY <2>1, <2>2, SameLine
<1>6. ASSUME NEW w \in Worker, WorkFails(w)
      PROVE  NoTaskForgotten'
  <2>1. pending' = pending /\ (wake => wake')
    BY <1>6 DEF WorkFails, OnlyWorker
  <2>2. \A x \in Worker : /\ worker'[x].pc = "asleep" => worker[x].pc = "asleep"
                          /\ worker[x].pc = "looking" => worker'[x].pc = "looking"
    BY <1>0, <1>6 DEF WorkFails, WorkerIs, OnlyWorker, Resting, Fails, Runs
  <2>. QED  BY <2>1, <2>2, SameLine
<1>7. ASSUME NEW w \in Worker, Decode(w)
      PROVE  NoTaskForgotten'
  <2>1. pending' = pending /\ (wake => wake')
    BY <1>7 DEF Decode, OnlyWorker
  <2>2. \A x \in Worker : /\ worker'[x].pc = "asleep" => worker[x].pc = "asleep"
                          /\ worker[x].pc = "looking" => worker'[x].pc = "looking"
    BY <1>0, <1>7 DEF Decode, WorkerIs, OnlyWorker, Resting, Fails, Runs
  <2>. QED  BY <2>1, <2>2, SameLine
<1>8. ASSUME NEW w \in Worker, NEW sm \in SUBSET Voice, Voices(w, sm)
      PROVE  NoTaskForgotten'
  <2>1. pending' = pending /\ (wake => wake')
    BY <1>8 DEF Voices, OnlyWorker
  <2>2. \A x \in Worker : /\ worker'[x].pc = "asleep" => worker[x].pc = "asleep"
                          /\ worker[x].pc = "looking" => worker'[x].pc = "looking"
    BY <1>0, <1>8 DEF Voices, WorkerIs, OnlyWorker, Resting, Fails, Runs
  <2>. QED  BY <2>1, <2>2, SameLine
<1>9. ASSUME NEW w \in Worker, NoVoices(w)
      PROVE  NoTaskForgotten'
  <2>1. pending' = pending /\ (wake => wake')
    BY <1>9 DEF NoVoices, OnlyWorker
  <2>2. \A x \in Worker : /\ worker'[x].pc = "asleep" => worker[x].pc = "asleep"
                          /\ worker[x].pc = "looking" => worker'[x].pc = "looking"
    BY <1>0, <1>9 DEF NoVoices, WorkerIs, OnlyWorker, Resting, Fails, Runs
  <2>. QED  BY <2>1, <2>2, SameLine
<1>10. ASSUME NEW w \in Worker, NEW v \in Voice, WriteTrack(w, v)
       PROVE  NoTaskForgotten'
  <2>1. pending' = pending /\ (wake => wake')
    BY <1>10 DEF WriteTrack, OnlyWorker
  <2>2. \A x \in Worker : /\ worker'[x].pc = "asleep" => worker[x].pc = "asleep"
                          /\ worker[x].pc = "looking" => worker'[x].pc = "looking"
    BY <1>0, <1>10 DEF WriteTrack, WorkerIs, OnlyWorker, Resting, Fails, Runs
  <2>. QED  BY <2>1, <2>2, SameLine
<1>11. ASSUME NEW w \in Worker, PutTrack(w)
       PROVE  NoTaskForgotten'
  <2>1. pending' = pending /\ (wake => wake')
    BY <1>11 DEF PutTrack, OnlyWorker
  <2>2. \A x \in Worker : /\ worker'[x].pc = "asleep" => worker[x].pc = "asleep"
                          /\ worker[x].pc = "looking" => worker'[x].pc = "looking"
    BY <1>0, <1>11 DEF PutTrack, WorkerIs, OnlyWorker, Resting, Fails, Runs
  <2>. QED  BY <2>1, <2>2, SameLine
<1>12. ASSUME NEW w \in Worker, Extracted(w)
       PROVE  NoTaskForgotten'
  <2>1. pending' = pending /\ (wake => wake')
    BY <1>12 DEF Extracted, OnlyWorker
  <2>2. \A x \in Worker : /\ worker'[x].pc = "asleep" => worker[x].pc = "asleep"
                          /\ worker[x].pc = "looking" => worker'[x].pc = "looking"
    BY <1>0, <1>12 DEF Extracted, WorkerIs, OnlyWorker, Resting, Fails, Runs
  <2>. QED  BY <2>1, <2>2, SameLine
<1>13. ASSUME NEW w \in Worker, RunHandsOver(w)
       PROVE  NoTaskForgotten'
  <2>1. pending' = pending /\ (wake => wake')
    BY <1>13 DEF RunHandsOver, OnlyWorker
  <2>2. \A x \in Worker : /\ worker'[x].pc = "asleep" => worker[x].pc = "asleep"
                          /\ worker[x].pc = "looking" => worker'[x].pc = "looking"
    BY <1>0, <1>13 DEF RunHandsOver, WorkerIs, OnlyWorker, Resting, Fails, Runs
  <2>. QED  BY <2>1, <2>2, SameLine
<1>14. ASSUME NEW w \in Worker, RunEnds(w)
       PROVE  NoTaskForgotten'
  <2>1. pending' = pending /\ (wake => wake')
    BY <1>14 DEF RunEnds, RunEndsWith, OnlyWorker
  <2>2. \A x \in Worker : /\ worker'[x].pc = "asleep" => worker[x].pc = "asleep"
                          /\ worker[x].pc = "looking" => worker'[x].pc = "looking"
    BY <1>0, <1>14 DEF RunEnds, RunEndsWith, WorkerIs, OnlyWorker, Resting, Fails, Runs
  <2>. QED  BY <2>1, <2>2, SameLine
<1>15. ASSUME NEW s \in Session, NEW v \in Voice, NEW j \in Job, Submit(s, v, j)
       PROVE  NoTaskForgotten'
  BY <1>15, SameLine DEF Submit, OnlyFollower
<1>16. ASSUME NEW s \in Session, SubmitFails(s)
       PROVE  NoTaskForgotten'
  BY <1>16, SameLine DEF SubmitFails, OnlyFollower
<1>17. ASSUME NEW s \in Session, Submitted(s)
       PROVE  NoTaskForgotten'
  BY <1>17, SameLine DEF Submitted, OnlyFollower
<1>18. ASSUME NEW s \in Session, Awaited(s)
       PROVE  NoTaskForgotten'
  BY <1>18, SameLine DEF Awaited, OnlyFollower
<1>19. ASSUME NEW s \in Session, CancelJobs(s)
       PROVE  NoTaskForgotten'
  BY <1>19, SameLine DEF CancelJobs, OnlyFollower
<1>20. ASSUME NEW s \in Session, WriteTranscript(s)
       PROVE  NoTaskForgotten'
  BY <1>20, SameLine DEF WriteTranscript, OnlyFollower
<1>21. ASSUME NEW s \in Session, FollowEnds(s)
       PROVE  NoTaskForgotten'
  BY <1>21, SameLine DEF FollowEnds, FollowEndsWith, OnlyFollower
<1>22. ASSUME NEW s \in Session, CreateUpload(s)
       PROVE  NoTaskForgotten'
  BY <1>22, SameLine DEF CreateUpload, memory
<1>23. ASSUME NEW s \in Session, s \notin open, CreateFails(s)
       PROVE  NoTaskForgotten'
  BY <1>23, SameLine DEF CreateFails
<1>24. ASSUME NEW s \in Session, CreateQueue(s)
       PROVE  NoTaskForgotten'
  BY <1>24 DEF CreateQueue, Enqueues, NoTaskForgotten
<1>25. ASSUME NEW s \in Session, NEW keep \in BOOLEAN, CreateEnter(s, keep)
       PROVE  NoTaskForgotten'
  BY <1>25, SameLine DEF CreateEnter, memory
<1>26. ASSUME NEW s \in Session, Begins(s)
       PROVE  NoTaskForgotten'
  BY <1>26, BeginsIs DEF Enqueues, NoTaskForgotten
<1>27. ASSUME NEW s \in Session, Update(s)
       PROVE  NoTaskForgotten'
  BY <1>27, SameLine DEF Update, memory
<1>28. ASSUME NEW s \in Session, EndsInside(s)
       PROVE  NoTaskForgotten'
  BY <1>28 DEF EndsInside, Forgotten, NoTaskForgotten
<1>29. ASSUME NEW S \in SUBSET open, Removes(S)
       PROVE  NoTaskForgotten'
  <2>1. S \in SUBSET Session /\ Drops(S) /\ UNCHANGED <<wake, worker>>
    BY <1>0, <1>29 DEF Removes
  <2>2. pending = <<>> => pending' = <<>>
    BY <2>1, DropsIs DEF CarryFits
  <2>. QED  BY <2>1, <2>2 DEF NoTaskForgotten
<1>30. ASSUME NEW j \in Job, JobEnds(j)
       PROVE  NoTaskForgotten'
  BY <1>30, SameLine DEF JobEnds, memory
<1>31. ASSUME NEW j \in Job, JobForgotten(j)
       PROVE  NoTaskForgotten'
  BY <1>31, SameLine DEF JobForgotten, memory
<1>32. CASE Close
  BY <1>32, SameLine DEF Close, memory
<1>33. CASE Ends
  BY <1>33 DEF Ends, Forgotten, NoTaskForgotten
<1>34. CASE Restart
  BY <1>34, RestartIs DEF Resting, NoTaskForgotten
<1>35. CASE UNCHANGED vars
  BY <1>35, SameLine DEF vars, memory
<1>36. CASE \E s \in Session : (\E v \in Voice : Extract(s, v)) \/ ExtractAll(s) \/ TranscribeSpeakers(s)
  BY <1>26, <1>36, RequestsBegin
<1>37. CASE CloseEnds \/ \E s \in Session : Delete(s) \/ Expire(s) \/ (s \in open /\ CreateFails(s))
  <2>1. \E S \in SUBSET open : Removes(S)
    BY <1>37, SectionsRemove
  <2>. QED  BY <1>29, <2>1
<1>. QED
  BY <1>1, <1>2, <1>3, <1>4, <1>5, <1>6, <1>7, <1>8, <1>9, <1>10, <1>11, <1>12,
     <1>13, <1>14, <1>15, <1>16, <1>17, <1>18, <1>19, <1>20, <1>21, <1>22, <1>23, <1>24,
     <1>25, <1>26, <1>27, <1>28, <1>29, <1>30, <1>31, <1>32, <1>33, <1>34, <1>35, <1>36,
     <1>37, Zenon
  DEF Next, WorkerSteps, FollowerSteps, CreateSteps, Requests

-----------------------------------------------------------------------------
(* What is kept, step by step.                                             *)

(* Nothing that KeptOf speaks of changes for a session, unless it is gone. *)
SameFor(s) ==
    /\ view'[s] = view[s] /\ disk'[s] = disk[s] /\ intact'[s] = intact[s]
    /\ \/ follow'[s] = follow[s]
       \/ /\ follow'[s].pc = "failing" => ~follow'[s].ok
          /\ follow'[s].pc = "ending" => ~follow'[s].ok
    /\ s \in open' <=> s \in open
    /\ (s \in unsaved' <=> s \in unsaved) /\ (s \in stray => s \in stray')
    /\ phase = "down" => phase' = "down"
    /\ s \in open =>
          /\ creating[s] = "uploading" => creating'[s] = "uploading"
          /\ \A w \in Worker :
                /\ worker[w].s = s => worker'[w].s = s
                /\ (worker'[w].s = s /\ worker'[w].pc \in {"decoded", "written"}) =>
                      /\ worker[w].s = s /\ worker'[w].pc = worker[w].pc
                      /\ worker'[w].made = worker[w].made

(* Then what is kept of it stays kept.                                     *)
LEMMA KeptElsewhere ==
    ASSUME NEW s \in Session, KeptOf(s), SameFor(s)
    PROVE  KeptOf(s)'
<1>1. FilesOf(s)'
  BY DEF KeptOf, FilesOf, SameFor
<1>2. SavedOf(s)'
  BY DEF KeptOf, SavedOf, SameFor
<1>3. TextOf(s)'
  BY DEF KeptOf, TextOf, SameFor, Current
<1>4. RestOf(s)'
  <2>1. /\ view'[s] = view[s] /\ disk'[s] = disk[s] /\ (s \in open' <=> s \in open)
        /\ s \in unsaved' <=> s \in unsaved
        /\ s \in open => \A w \in Worker : worker[w].s = s => worker'[w].s = s
    BY DEF SameFor
  <2>. QED  BY <2>1 DEF KeptOf, RestOf
<1>. QED  BY <1>1, <1>2, <1>3, <1>4 DEF KeptOf

(* A state file that says what is shown keeps it, and brings it back.      *)
LEMMA SavedIsShown ==
    ASSUME Shapes', NEW s \in Session, s \in open', FilesOf(s)', TextOf(s)',
           view'[s].keep, disk'[s].saved = view'[s], disk'[s].dir
    PROVE  SavedOf(s)' /\ RestOf(s)'
<1>1. view'[s] \in Views /\ disk'[s] \in Dirs /\ view'[s] # None
  BY NoneAssumption DEF Shapes
<1>2. SavedOf(s)'
  BY <1>1 DEF FilesOf, SavedOf, TextOf, Current
<1>3. ASSUME ~Busy(view'[s].status)
      PROVE  Restored(disk'[s]) = view'[s]
  <2>1. PICK d \in Dirs, v \in Views : d = disk'[s] /\ v = view'[s]
    BY <1>1
  <2>2. d.saved = v /\ d.saved # None /\ v.tracks \subseteq d.tracks /\ ~Busy(v.status)
    BY <1>1, <1>3, <2>1 DEF FilesOf
  <2>3. Restored(d) = [v EXCEPT !.tracks = @ \cap d.tracks]
    BY <2>2, RestoredIs
  <2>4. v.tracks \cap d.tracks = v.tracks
    BY <2>2
  <2>5. [v EXCEPT !.tracks = @ \cap d.tracks] = v
    BY <2>4 DEF Views
  <2>. QED  BY <2>1, <2>3, <2>5
<1>4. RestOf(s)'
  BY <1>1, <1>3 DEF RestOf
<1>. QED  BY <1>2, <1>4

(* A section that saves: the state file says what is shown, or it stays    *)
(* what it was, and is known to be behind.                                 *)
StateIsSaved(s) ==
    /\ \/ view'[s].keep /\ disk'[s].saved = view'[s] /\ disk'[s].dir
       \/ disk'[s].saved = disk[s].saved
    /\ view'[s].keep => disk'[s].saved = view'[s] \/ s \in unsaved'
    /\ ~view'[s].keep => ~view[s].keep
    /\ (disk[s].dir => disk'[s].dir) /\ (disk[s].source => disk'[s].source)
    /\ s \in stray => s \in stray'

(* Either way no more is claimed for the state file than is so.            *)
LEMMA SaveKeeps ==
    ASSUME Shapes', NEW s \in Session, s \in open', phase # "down", SavedOf(s),
           FilesOf(s)', TextOf(s)', StateIsSaved(s)
    PROVE  SavedOf(s)' /\ RestOf(s)'
<1>1. CASE view'[s].keep /\ disk'[s].saved = view'[s] /\ disk'[s].dir
  BY <1>1, SavedIsShown
<1>2. CASE view'[s].keep /\ disk'[s].saved = disk[s].saved /\ s \in unsaved'
  <2>1. SavedOf(s)'
    BY <1>2 DEF SavedOf, StateIsSaved
  <2>. QED  BY <1>2, <2>1 DEF RestOf
<1>3. CASE view'[s].keep /\ disk'[s].saved = view'[s] /\ disk'[s].saved = disk[s].saved
  <2>1. view'[s] # None
    BY NoneAssumption DEF Shapes
  <2>2. disk'[s].dir
    BY <1>3, <2>1 DEF SavedOf, StateIsSaved
  <2>. QED  BY <1>1, <1>3, <2>2
<1>4. CASE ~view'[s].keep
  <2>1. disk'[s].saved = disk[s].saved /\ (disk[s].saved # None => s \in stray')
    BY <1>4 DEF SavedOf, StateIsSaved
  <2>2. SavedOf(s)'
    BY <2>1 DEF SavedOf, StateIsSaved
  <2>. QED  BY <1>4, <2>2 DEF RestOf
<1>. QED  BY <1>1, <1>2, <1>3, <1>4 DEF StateIsSaved

(* saveLocked, once the directory is there.                                *)
LEMMA SaveHolds ==
    ASSUME Shapes, Shapes', NEW s \in Session, s \in open, FilesOf(s), creating[s] # "uploading",
           Saves(s, view'[s], disk[s]), view'[s].keep = view[s].keep, stray' = stray
    PROVE  /\ StateIsSaved(s)
           /\ disk'[s].dir /\ disk'[s].source = disk[s].source
           /\ disk'[s].tracks = disk[s].tracks /\ disk'[s].transcript = disk[s].transcript
<1>1. PICK v \in Views : v = view'[s]
  BY DEF Shapes
<1>2. disk[s] \in Dirs /\ Saves(s, v, disk[s])
  BY <1>1 DEF Shapes
<1>3. /\ disk'[s].dir = disk[s].dir /\ disk'[s].source = disk[s].source
      /\ disk'[s].tracks = disk[s].tracks /\ disk'[s].transcript = disk[s].transcript
      /\ (disk'[s].saved = v /\ v.keep /\ disk[s].dir) \/ disk'[s].saved = disk[s].saved
      /\ v.keep => disk'[s].saved = v \/ s \in unsaved'
  BY <1>2, SavesIs
<1>4. disk[s].dir
  BY DEF FilesOf
<1>. QED  BY <1>1, <1>3, <1>4 DEF StateIsSaved

(* A worker's session was created, and its process is up.                  *)
LEMMA WorkedOn ==
    ASSUME Shapes, CarryFits, DownFits, NEW w \in Worker, NEW s \in Session, worker[w].s = s
    PROVE  /\ creating[s] # "uploading" /\ phase # "down"
           /\ HandsOn(w, s) => ~Following(s) /\ \A x \in Worker : HandsOn(x, s) => x = w
           /\ (HandsOn(w, s) /\ s \in open) => Busy(view[s].status)
<1>1. creating[s] # "uploading"
  BY DEF CarryFits, OneAtMost, Creating
<1>2. phase # "down"
  BY IsolationAssumption DEF DownFits, Shapes, WorkersFit, Fit
<1>3. HandsOn(w, s) => ~Following(s) /\ \A x \in Worker : HandsOn(x, s) => x = w
  BY DEF CarryFits, OneAtMost
<1>. QED  BY <1>1, <1>2, <1>3, HandsAreBusy

(* So was that of a follower.                                              *)
LEMMA FollowedIs ==
    ASSUME Shapes, CarryFits, DownFits, NEW s \in Session, Following(s)
    PROVE  /\ creating[s] # "uploading" /\ phase # "down"
           /\ \A w \in Worker : ~HandsOn(w, s)
           /\ s \in open => Busy(view[s].status)
BY DEF CarryFits, OneAtMost, Creating, DownFits, BusyIsCarried

(* Every step keeps what is shown on the disk, and able to come back.      *)
LEMMA KeptStays ==
    ASSUME Shapes, CarryFits, DownFits, KeptFits, Shapes', [Next]_vars
    PROVE  KeptFits'
<1>0. /\ WorkersFit /\ open \subseteq Session /\ view \in [Session -> Views]
      /\ disk \in [Session -> Dirs] /\ follow \in [Session -> Follows]
      /\ creating \in [Session -> {"never", "uploading", "uploaded", "created"}]
      /\ intact \in [Session -> {"yes", "no", "torn"}] /\ OneTaskEach
  BY DEF Shapes, PlainShapes, CarryFits
<1> USE <1>0
<1>1. ASSUME NEW w \in Worker, NextTakes(w)
      PROVE  KeptFits'
  <2>1. PICK t \in Tasks :
           /\ t.s \in Session /\ worker' = [worker EXCEPT ![w] = worker'[w]]
           /\ worker[w].pc = "looking" /\ worker'[w].pc = "taken" /\ worker'[w].s = t.s
    BY <1>1, <1>0, NextTakesIs
  <2>2. UNCHANGED <<phase, open, creating, follow, view, disk, intact, unsaved, stray>>
    BY <1>1 DEF NextTakes, OnlyWorker
  <2>3. worker[w].s = None /\ \A x \in Worker \ {w} : worker'[x] = worker[x]
    BY <2>1, <1>0 DEF WorkersFit, Fit
  <2>4. \A x \in Session : SameFor(x)
    BY <2>1, <2>2, <2>3, IsolationAssumption DEF SameFor
  <2>. QED  BY <2>4, KeptElsewhere DEF KeptFits
<1>2. ASSUME NEW w \in Worker, NextWaits(w)
      PROVE  KeptFits'
  <2>1. \A x \in Session : SameFor(x)
    BY <1>2 DEF SameFor, NextWaits, WorkerIs, OnlyWorker, Resting, Fails, WorkersFit, Runs, Fit
  <2>. QED  BY <2>1, KeptElsewhere DEF KeptFits
<1>3. ASSUME NEW w \in Worker, NextWakes(w)
      PROVE  KeptFits'
  <2>1. \A x \in Session : SameFor(x)
    BY <1>3 DEF SameFor, NextWakes, WorkerIs, OnlyWorker, Resting, Fails, WorkersFit, Runs, Fit
  <2>. QED  BY <2>1, KeptElsewhere DEF KeptFits
<1>4. ASSUME NEW w \in Worker, NextEnds(w)
      PROVE  KeptFits'
  <2>1. \A x \in Session : SameFor(x)
    BY <1>4 DEF SameFor, NextEnds, WorkerIs, OnlyWorker, Resting, Fails, WorkersFit, Runs, Fit
  <2>. QED  BY <2>1, KeptElsewhere DEF KeptFits
<1>5. ASSUME NEW w \in Worker, RunStarts(w)
      PROVE  KeptFits'
  <2>1. UNCHANGED <<phase, open, creating, follow, view, disk, intact, unsaved, stray>>
    BY <1>5 DEF RunStarts, OnlyWorker
  <2>2. /\ \A x \in Worker \ {w} : worker'[x] = worker[x]
        /\ worker'[w].pc \in {"working", "looking"}
        /\ worker[w].s \in open => worker'[w].s = worker[w].s
    BY <1>5 DEF RunStarts, WorkerIs, Resting, WorkersFit, Runs
  <2>3. \A x \in Session : SameFor(x)
    BY <2>1, <2>2 DEF SameFor
  <2>. QED  BY <2>3, KeptElsewhere DEF KeptFits
<1>6. ASSUME NEW w \in Worker, WorkFails(w)
      PROVE  KeptFits'
  <2>1. \A x \in Session : SameFor(x)
    BY <1>6 DEF SameFor, WorkFails, WorkerIs, OnlyWorker, Resting, Fails, WorkersFit, Runs, Fit
  <2>. QED  BY <2>1, KeptElsewhere DEF KeptFits
<1>7. ASSUME NEW w \in Worker, Decode(w)
      PROVE  KeptFits'
  <2>1. PICK s \in Session : s = worker[w].s
    BY <1>7 DEF Decode, WorkersFit, Fit
  <2>2. /\ creating[s] # "uploading" /\ phase # "down"
        /\ HandsOn(w, s) => ~Following(s) /\ \A x \in Worker : HandsOn(x, s) => x = w
        /\ (HandsOn(w, s) /\ s \in open) => Busy(view[s].status)
    BY <2>1, WorkedOn
  <2>3. UNCHANGED <<phase, open, creating, follow, intact, unsaved, stray>>
    BY <1>7 DEF Decode, OnlyWorker
  <2>4. /\ worker[w].pc = "working" /\ worker'[w].pc = "decoded" /\ worker'[w].s = s
        /\ \A x \in Worker \ {w} : worker'[x] = worker[x]
    BY <1>7, <2>1 DEF Decode, WorkerIs, WorkersFit, Runs
  <2>5. /\ \A x \in Session \ {s} : view'[x] = view[x] /\ disk'[x] = disk[x]
        /\ s \in open => /\ view'[s].status = "analysing"
                         /\ SameOffer(view'[s], view[s]) /\ SameText(view'[s], view[s])
        /\ disk'[s].source /\ disk'[s].tracks = disk[s].tracks /\ SameFiles(disk'[s], disk[s])
    BY <1>7, <2>1, DecodeIs
  <2>6. \A x \in Session \ {s} : SameFor(x)
    BY <2>1, <2>3, <2>4, <2>5 DEF SameFor
  <2>7. /\ FilesOf(s) /\ SavedOf(s) /\ TextOf(s)
    BY DEF KeptFits, KeptOf
  <2>8. FilesOf(s)'
    BY <2>3, <2>4, <2>5, <2>7 DEF FilesOf, SameOffer, SameFiles
  <2>9. SavedOf(s)'
    BY <2>3, <2>5, <2>7 DEF SavedOf, SameOffer, SameFiles
  <2>10. TextOf(s)'
    BY <2>3, <2>5, <2>7 DEF TextOf, SameText, SameFiles, Current
  <2>11. RestOf(s)'
    BY <2>4 DEF RestOf
  <2>. QED  BY <2>6, <2>8, <2>9, <2>10, <2>11, KeptElsewhere DEF KeptFits, KeptOf
<1>8. ASSUME NEW w \in Worker, NEW sm \in SUBSET Voice, Voices(w, sm)
      PROVE  KeptFits'
  <2>1. PICK s \in Session : s = worker[w].s
    BY <1>8 DEF Voices, WorkersFit, Fit
  <2>2. /\ creating[s] # "uploading" /\ phase # "down"
        /\ HandsOn(w, s) => ~Following(s) /\ \A x \in Worker : HandsOn(x, s) => x = w
        /\ (HandsOn(w, s) /\ s \in open) => Busy(view[s].status)
    BY <2>1, WorkedOn
  <2>3. UNCHANGED <<phase, open, creating, follow, disk, intact, unsaved, stray>>
    BY <1>8 DEF Voices, OnlyWorker
  <2>4. /\ worker[w].pc = "decoded" /\ worker'[w].pc = "finishing" /\ worker'[w].s = s
        /\ \A x \in Worker \ {w} : worker'[x] = worker[x]
    BY <1>8, <2>1 DEF Voices, WorkerIs, WorkersFit, Runs
  <2>5. /\ \A x \in Session \ {s} : view'[x] = view[x]
        /\ s \in open => /\ view'[s].keep = view[s].keep /\ view'[s].tracks = view[s].tracks
                         /\ SameText(view'[s], view[s])
    BY <1>8, <2>1, VoicesIs
  <2>6. \A x \in Session \ {s} : SameFor(x)
    BY <2>1, <2>3, <2>4, <2>5 DEF SameFor
  <2>7. FilesOf(s) /\ SavedOf(s) /\ TextOf(s)
    BY DEF KeptFits, KeptOf
  <2>8. FilesOf(s)'
    BY <2>1, <2>3, <2>4, <2>5, <2>7 DEF FilesOf
  <2>9. SavedOf(s)'
    BY <2>3, <2>5, <2>7 DEF SavedOf
  <2>10. TextOf(s)'
    BY <2>3, <2>5, <2>7 DEF TextOf, SameText, Current
  <2>11. RestOf(s)'
    BY <2>4 DEF RestOf
  <2>. QED  BY <2>6, <2>8, <2>9, <2>10, <2>11, KeptElsewhere DEF KeptFits, KeptOf
<1>9. ASSUME NEW w \in Worker, NoVoices(w)
      PROVE  KeptFits'
  <2>1. \A x \in Session : SameFor(x)
    BY <1>9 DEF SameFor, NoVoices, WorkerIs, OnlyWorker, Resting, Fails, WorkersFit, Runs, Fit
  <2>. QED  BY <2>1, KeptElsewhere DEF KeptFits
<1>10. ASSUME NEW w \in Worker, NEW v \in Voice, WriteTrack(w, v)
       PROVE  KeptFits'
  <2>1. PICK s \in Session : s = worker[w].s
    BY <1>10 DEF WriteTrack, WorkersFit, Fit
  <2>2. /\ creating[s] # "uploading" /\ phase # "down"
        /\ HandsOn(w, s) => ~Following(s) /\ \A x \in Worker : HandsOn(x, s) => x = w
        /\ (HandsOn(w, s) /\ s \in open) => Busy(view[s].status)
    BY <2>1, WorkedOn
  <2>3. UNCHANGED <<phase, open, creating, follow, intact, unsaved, stray>>
    BY <1>10 DEF WriteTrack, OnlyWorker
  <2>4. /\ \A x \in Session \ {s} : view'[x] = view[x] /\ disk'[x] = disk[x]
        /\ s \in open => SameOffer(view'[s], view[s]) /\ SameText(view'[s], view[s])
        /\ disk'[s].tracks = disk[s].tracks \cup {v}
        /\ disk'[s].source = disk[s].source /\ SameFiles(disk'[s], disk[s])
        /\ \A x \in Worker \ {w} : worker'[x] = worker[x]
        /\ worker'[w].pc = "written" /\ worker'[w].made = v /\ worker'[w].s = s
    BY <1>10, <2>1, WriteTrackIs, SMTT(30)
  <2>6. \A x \in Session \ {s} : SameFor(x)
    BY <2>1, <2>3, <2>4 DEF SameFor
  <2>7. FilesOf(s) /\ SavedOf(s) /\ TextOf(s)
    BY DEF KeptFits, KeptOf
  <2>8. FilesOf(s)'
    BY <2>3, <2>4, <2>7 DEF FilesOf, SameOffer, SameFiles
  <2>9. SavedOf(s)'
    BY <2>3, <2>4, <2>7 DEF SavedOf, SameOffer, SameFiles
  <2>10. TextOf(s)'
    BY <2>3, <2>4, <2>7 DEF TextOf, SameText, SameFiles, Current
  <2>11. RestOf(s)'
    BY <2>4 DEF RestOf
  <2>. QED  BY <2>6, <2>8, <2>9, <2>10, <2>11, KeptElsewhere DEF KeptFits, KeptOf
<1>11. ASSUME NEW w \in Worker, PutTrack(w)
       PROVE  KeptFits'
  <2>1. PICK s \in Session : s = worker[w].s
    BY <1>11 DEF PutTrack, WorkersFit, Fit
  <2>2. /\ creating[s] # "uploading" /\ phase # "down"
        /\ HandsOn(w, s) => ~Following(s) /\ \A x \in Worker : HandsOn(x, s) => x = w
        /\ (HandsOn(w, s) /\ s \in open) => Busy(view[s].status)
    BY <2>1, WorkedOn
  <2>3. UNCHANGED <<phase, open, creating, follow, intact, stray>>
    BY <1>11 DEF PutTrack, OnlyWorker
  <2>4. /\ \A x \in Session \ {s} : view'[x] = view[x] /\ disk'[x] = disk[x]
        /\ s \notin open => view' = view /\ disk' = disk /\ unsaved' = unsaved
        /\ s \in open => /\ view'[s].tracks = view[s].tracks \cup {worker[w].made}
                         /\ view'[s].keep = view[s].keep /\ view'[s].voices = view[s].voices
                         /\ SameText(view'[s], view[s]) /\ Saves(s, view'[s], disk[s])
        /\ UnsavedApart(s)
        /\ \A x \in Worker \ {w} : worker'[x] = worker[x]
        /\ worker[w].pc = "written" /\ worker'[w].pc \in {"working", "finishing"} /\ worker'[w].s = s
    BY <1>11, <2>1, PutTrackIs
  <2>5. \A x \in Session : x # s \/ s \notin open => SameFor(x)
    BY <2>1, <2>3, <2>4 DEF SameFor, UnsavedApart
  <2>6. FilesOf(s) /\ TextOf(s) /\ KeptOf(s)
    BY DEF KeptFits, KeptOf
  <2>7. ASSUME s \in open PROVE KeptOf(s)'
    <3>1. /\ StateIsSaved(s)
          /\ disk'[s].dir /\ disk'[s].source = disk[s].source
          /\ disk'[s].tracks = disk[s].tracks /\ disk'[s].transcript = disk[s].transcript
      BY <2>2, <2>3, <2>4, <2>6, <2>7, SaveHolds
    <3>2. FilesOf(s)'
      <4>1. worker[w].made \in disk[s].tracks
        BY <2>1, <2>4, <2>6, <2>7 DEF FilesOf
      <4>2. /\ disk'[s].dir /\ view'[s].tracks \subseteq disk'[s].tracks
            /\ view'[s].voices # {} => disk'[s].source \/ s \in stray'
        BY <2>3, <2>4, <2>6, <2>7, <3>1, <4>1 DEF FilesOf
      <4>3. ASSUME NEW x \in Worker, worker'[x].s = s
            PROVE  /\ worker'[x].pc = "decoded" => disk'[s].source
                   /\ worker'[x].pc = "written" => worker'[x].made \in disk'[s].tracks
        <5>1. CASE x = w
          BY <2>4, <5>1
        <5>2. CASE x # w
          <6>1. worker'[x] = worker[x]
            BY <2>4, <5>2
          <6>. QED  BY <2>6, <2>7, <3>1, <4>3, <6>1 DEF FilesOf
        <5>. QED  BY <5>1, <5>2
      <4>. QED  BY <4>2, <4>3 DEF FilesOf
    <3>3. TextOf(s)'
      BY <2>3, <2>4, <2>6, <2>7, <3>1 DEF TextOf, SameText, Current
    <3>. QED  BY <2>2, <2>3, <2>6, <2>7, <3>1, <3>2, <3>3, SaveKeeps DEF KeptOf
  <2>. QED  BY <2>5, <2>6, <2>7, KeptElsewhere DEF KeptFits
<1>12. ASSUME NEW w \in Worker, Extracted(w)
       PROVE  KeptFits'
  <2>1. PICK s \in Session : s = worker[w].s
    BY <1>12 DEF Extracted, WorkersFit, Fit
  <2>2. /\ creating[s] # "uploading" /\ phase # "down"
        /\ HandsOn(w, s) => ~Following(s) /\ \A x \in Worker : HandsOn(x, s) => x = w
        /\ (HandsOn(w, s) /\ s \in open) => Busy(view[s].status)
    BY <2>1, WorkedOn
  <2>3. UNCHANGED <<phase, open, creating, follow, disk, intact, unsaved, stray>>
    BY <1>12 DEF Extracted, OnlyWorker
  <2>4. /\ worker'[w].pc = "finishing" /\ worker'[w].s = s
        /\ \A x \in Worker \ {w} : worker'[x] = worker[x]
    BY <1>12, <2>1 DEF Extracted, WorkerIs, WorkersFit, Runs
  <2>5. /\ \A x \in Session \ {s} : view'[x] = view[x]
        /\ SameOffer(view'[s], view[s]) /\ SameText(view'[s], view[s])
    BY <1>12, <2>1, ExtractedIs DEF SameOffer, SameText
  <2>6. \A x \in Session \ {s} : SameFor(x)
    BY <2>1, <2>3, <2>4, <2>5 DEF SameFor
  <2>7. FilesOf(s) /\ SavedOf(s) /\ TextOf(s)
    BY DEF KeptFits, KeptOf
  <2>8. FilesOf(s)'
    BY <2>3, <2>4, <2>5, <2>7 DEF FilesOf, SameOffer
  <2>9. SavedOf(s)'
    BY <2>3, <2>5, <2>7 DEF SavedOf, SameOffer
  <2>10. TextOf(s)'
    BY <2>3, <2>5, <2>7 DEF TextOf, SameText, Current
  <2>11. RestOf(s)'
    BY <2>4 DEF RestOf
  <2>. QED  BY <2>6, <2>8, <2>9, <2>10, <2>11, KeptElsewhere DEF KeptFits, KeptOf
<1>13. ASSUME NEW w \in Worker, RunHandsOver(w)
       PROVE  KeptFits'
  <2>1. PICK s \in Session : s = worker[w].s
    BY <1>13 DEF RunHandsOver, WorkersFit, Fit
  <2>2. /\ creating[s] # "uploading" /\ phase # "down"
        /\ HandsOn(w, s) => ~Following(s) /\ \A x \in Worker : HandsOn(x, s) => x = w
        /\ (HandsOn(w, s) /\ s \in open) => Busy(view[s].status)
    BY <2>1, WorkedOn
  <2>3. UNCHANGED <<phase, open, creating, intact, stray>>
    BY <1>13 DEF RunHandsOver
  <2>4. /\ s \in open /\ view'[s].transcript = "running" /\ SameOffer(view'[s], view[s])
        /\ \A x \in Session \ {s} : view'[x] = view[x] /\ disk'[x] = disk[x] /\ follow'[x] = follow[x]
        /\ follow'[s].pc = "submitting" /\ Saves(s, view'[s], disk[s]) /\ UnsavedApart(s)
    BY <1>13, <2>1, RunHandsOverIs
  <2>5. worker'[w].s = None /\ \A x \in Worker \ {w} : worker'[x] = worker[x]
    BY <1>13 DEF RunHandsOver, WorkerIs, Resting, WorkersFit
  <2>6. \A x \in Session \ {s} : SameFor(x)
    BY <2>1, <2>3, <2>4, <2>5, IsolationAssumption DEF SameFor, UnsavedApart
  <2>7. FilesOf(s) /\ TextOf(s) /\ KeptOf(s)
    BY DEF KeptFits, KeptOf
  <2>8. /\ StateIsSaved(s)
        /\ disk'[s].dir /\ disk'[s].source = disk[s].source /\ disk'[s].tracks = disk[s].tracks
    BY <2>2, <2>3, <2>4, <2>7, SaveHolds DEF SameOffer
  <2>9. FilesOf(s)'
    <3>1. /\ disk'[s].dir /\ view'[s].tracks \subseteq disk'[s].tracks
          /\ view'[s].voices # {} => disk'[s].source \/ s \in stray'
      BY <2>3, <2>4, <2>7, <2>8 DEF FilesOf, SameOffer
    <3>2. ASSUME NEW x \in Worker, worker'[x].s = s
          PROVE  /\ worker'[x].pc = "decoded" => disk'[s].source
                 /\ worker'[x].pc = "written" => worker'[x].made \in disk'[s].tracks
      <4>1. x # w
        BY <2>1, <2>5, <3>2, IsolationAssumption
      <4>2. worker'[x] = worker[x]
        BY <2>5, <4>1
      <4>. QED  BY <2>4, <2>7, <2>8, <3>2, <4>2 DEF FilesOf
    <3>. QED  BY <3>1, <3>2 DEF FilesOf
  <2>10. TextOf(s)'
    BY <2>3, <2>4 DEF TextOf, Current
  <2>11. KeptOf(s)'
    BY <2>2, <2>3, <2>4, <2>7, <2>8, <2>9, <2>10, SaveKeeps DEF KeptOf
  <2>. QED  BY <2>6, <2>11, KeptElsewhere DEF KeptFits
<1>14. ASSUME NEW w \in Worker, RunEnds(w)
       PROVE  KeptFits'
  <2>1. PICK s \in Session : s = worker[w].s
    BY <1>14 DEF RunEnds, RunEndsWith, WorkersFit, Fit
  <2>2. /\ creating[s] # "uploading" /\ phase # "down"
        /\ HandsOn(w, s) => ~Following(s) /\ \A x \in Worker : HandsOn(x, s) => x = w
        /\ (HandsOn(w, s) /\ s \in open) => Busy(view[s].status)
    BY <2>1, WorkedOn
  <2>3. UNCHANGED <<phase, open, creating, follow, intact, stray>>
    BY <1>14, <2>1, RunEndsIs DEF OnlyWorker
  <2>4. /\ \A x \in Session \ {s} : view'[x] = view[x] /\ disk'[x] = disk[x]
        /\ s \notin open => view' = view /\ disk' = disk /\ unsaved' = unsaved
        /\ s \in open => /\ SameOffer(view'[s], view[s]) /\ Saves(s, view'[s], disk[s])
                         /\ view'[s].stale = view[s].stale
                         /\ view'[s].transcript \in {view[s].transcript, "failed"}
        /\ worker' = [worker EXCEPT ![w] = Resting("looking")] /\ UnsavedApart(s)
    BY <1>14, <2>1, RunEndsIs
  <2>5. worker'[w].s = None /\ \A x \in Worker \ {w} : worker'[x] = worker[x]
    BY <2>4 DEF Resting, WorkersFit
  <2>6. \A x \in Session : x # s \/ s \notin open => SameFor(x)
    BY <2>1, <2>3, <2>4, <2>5, IsolationAssumption DEF SameFor, UnsavedApart
  <2>7. FilesOf(s) /\ TextOf(s) /\ KeptOf(s)
    BY DEF KeptFits, KeptOf
  <2>8. ASSUME s \in open PROVE KeptOf(s)'
    <3>1. /\ StateIsSaved(s)
          /\ disk'[s].dir /\ disk'[s].source = disk[s].source
          /\ disk'[s].tracks = disk[s].tracks /\ disk'[s].transcript = disk[s].transcript
      BY <2>2, <2>3, <2>4, <2>7, <2>8, SaveHolds DEF SameOffer
    <3>2. FilesOf(s)'
      <4>1. /\ disk'[s].dir /\ view'[s].tracks \subseteq disk'[s].tracks
            /\ view'[s].voices # {} => disk'[s].source \/ s \in stray'
        BY <2>3, <2>4, <2>7, <2>8, <3>1 DEF FilesOf, SameOffer
      <4>2. ASSUME NEW x \in Worker, worker'[x].s = s
            PROVE  /\ worker'[x].pc = "decoded" => disk'[s].source
                   /\ worker'[x].pc = "written" => worker'[x].made \in disk'[s].tracks
        <5>1. x # w
          BY <2>1, <2>5, <4>2, IsolationAssumption
        <5>2. worker'[x] = worker[x]
          BY <2>5, <5>1
        <5>. QED  BY <2>7, <2>8, <3>1, <4>2, <5>2 DEF FilesOf
      <4>. QED  BY <4>1, <4>2 DEF FilesOf
    <3>3. TextOf(s)'
      BY <2>3, <2>4, <2>7, <2>8, <3>1 DEF TextOf, Current
    <3>. QED  BY <2>2, <2>3, <2>7, <2>8, <3>1, <3>2, <3>3, SaveKeeps DEF KeptOf
  <2>. QED  BY <2>6, <2>7, <2>8, KeptElsewhere DEF KeptFits
<1>15. ASSUME NEW s \in Session, NEW v \in Voice, NEW j \in Job, Submit(s, v, j)
       PROVE  KeptFits'
  <2>1. \A x \in Session : SameFor(x)
    BY <1>15 DEF SameFor, Submit, FollowerIs, OnlyFollower, Follows
  <2>. QED  BY <2>1, KeptElsewhere DEF KeptFits
<1>16. ASSUME NEW s \in Session, SubmitFails(s)
       PROVE  KeptFits'
  <2>1. \A x \in Session : SameFor(x)
    BY <1>16 DEF SameFor, SubmitFails, FollowerIs, OnlyFollower, Follows
  <2>. QED  BY <2>1, KeptElsewhere DEF KeptFits
<1>17. ASSUME NEW s \in Session, Submitted(s)
       PROVE  KeptFits'
  <2>1. /\ UNCHANGED <<phase, open, creating, worker, view, intact, stray>> /\ Following(s)
        /\ \A x \in Session \ {s} : follow'[x] = follow[x]
        /\ follow'[s].pc = "awaiting"
    BY <1>17 DEF Submitted, OnlyFollower, FollowerIs, Following, Follows
  <2>2. /\ creating[s] # "uploading" /\ phase # "down"
    BY <2>1, FollowedIs
  <2>3. /\ \A x \in Session \ {s} : disk'[x] = disk[x]
        /\ s \notin open => disk' = disk /\ unsaved' = unsaved
        /\ UnsavedApart(s)
        /\ s \in open => Saves(s, view'[s], disk[s])
    BY <1>17, <2>1, SubmittedIs
  <2>4. \A x \in Session : x # s \/ s \notin open => SameFor(x)
    BY <2>1, <2>3 DEF SameFor, UnsavedApart
  <2>5. FilesOf(s) /\ TextOf(s) /\ KeptOf(s)
    BY DEF KeptFits, KeptOf
  <2>6. ASSUME s \in open PROVE KeptOf(s)'
    <3>1. /\ StateIsSaved(s)
          /\ disk'[s].dir /\ disk'[s].source = disk[s].source
          /\ disk'[s].tracks = disk[s].tracks /\ disk'[s].transcript = disk[s].transcript
      BY <2>1, <2>2, <2>3, <2>5, <2>6, SaveHolds
    <3>2. FilesOf(s)'
      BY <2>1, <2>5, <2>6, <3>1 DEF FilesOf
    <3>3. TextOf(s)'
      BY <2>1, <2>5, <2>6, <3>1 DEF TextOf, Current
    <3>. QED  BY <2>1, <2>2, <2>5, <2>6, <3>1, <3>2, <3>3, SaveKeeps DEF KeptOf
  <2>. QED  BY <2>4, <2>5, <2>6, KeptElsewhere DEF KeptFits
<1>18. ASSUME NEW s \in Session, Awaited(s)
       PROVE  KeptFits'
  <2>1. \A x \in Session : SameFor(x)
    BY <1>18 DEF SameFor, Awaited, FollowerIs, OnlyFollower, Follows
  <2>. QED  BY <2>1, KeptElsewhere DEF KeptFits
<1>19. ASSUME NEW s \in Session, CancelJobs(s)
       PROVE  KeptFits'
  <2>1. ~follow[s].ok
    BY <1>19 DEF CancelJobs, KeptFits, KeptOf, TextOf
  <2>2. \A x \in Session : SameFor(x)
    BY <2>1, <1>19 DEF SameFor, CancelJobs, FollowerIs, OnlyFollower, Follows
  <2>. QED  BY <2>2, KeptElsewhere DEF KeptFits
<1>20. ASSUME NEW s \in Session, WriteTranscript(s)
       PROVE  KeptFits'
  <2>0. PICK ok \in BOOLEAN :
           /\ follow' = [follow EXCEPT ![s] = [follow[s] EXCEPT !.pc = "ending", !.ok = ok]]
           /\ disk' = [disk EXCEPT ![s] = [disk[s] EXCEPT !.transcript = disk[s].transcript \/ ok]]
           /\ intact' = [intact EXCEPT ![s] = IF ok THEN "yes" ELSE @] /\ view' = view
    BY <1>20, TranscriptIs, Zenon
  <2>1. /\ UNCHANGED <<phase, open, creating, worker, view, unsaved, stray>> /\ Following(s)
        /\ \A x \in Session \ {s} : follow'[x] = follow[x] /\ disk'[x] = disk[x] /\ intact'[x] = intact[x]
        /\ follow'[s].pc = "ending" /\ follow'[s].ok = ok
    <3>1. UNCHANGED <<phase, open, creating, worker, view, unsaved, stray>> /\ Following(s)
      BY <1>20 DEF WriteTranscript, Following
    <3>2. /\ \A x \in Session \ {s} : follow'[x] = follow[x] /\ disk'[x] = disk[x] /\ intact'[x] = intact[x]
          /\ follow'[s].pc = "ending" /\ follow'[s].ok = ok
      BY <2>0 DEF Follows
    <3>. QED  BY <3>1, <3>2
  <2>2. /\ disk'[s].dir = disk[s].dir /\ disk'[s].source = disk[s].source
        /\ disk'[s].tracks = disk[s].tracks /\ disk'[s].transcript = (disk[s].transcript \/ ok)
        /\ disk'[s].saved = disk[s].saved /\ intact'[s] = IF ok THEN "yes" ELSE intact[s]
    <3>1. PICK d : d = [disk[s] EXCEPT !.transcript = disk[s].transcript \/ ok]
      OBVIOUS
    <3>2. /\ d.dir = disk[s].dir /\ d.source = disk[s].source /\ d.tracks = disk[s].tracks
          /\ d.transcript = (disk[s].transcript \/ ok) /\ d.saved = disk[s].saved
      BY <3>1 DEF Dirs
    <3>3. disk'[s] = d
      BY <2>0, <3>1
    <3>4. intact'[s] = IF ok THEN "yes" ELSE intact[s]
      BY <2>0
    <3>. QED  BY <3>2, <3>3, <3>4
  <2>3. /\ creating[s] # "uploading" /\ phase # "down"
        /\ s \in open => Busy(view[s].status)
    BY <2>1, FollowedIs
  <2>4. \A x \in Session \ {s} : SameFor(x)
    BY <2>1 DEF SameFor
  <2>5. FilesOf(s) /\ SavedOf(s) /\ TextOf(s)
    BY DEF KeptFits, KeptOf
  <2>6. FilesOf(s)'
    BY <2>1, <2>2, <2>5 DEF FilesOf
  <2>7. SavedOf(s)'
    BY <2>1, <2>2, <2>3, <2>5 DEF SavedOf
  <2>8. TextOf(s)'
    <3>1. CASE ok = TRUE
      <4>1. disk'[s].transcript /\ intact'[s] = "yes"
        BY <2>2, <3>1
      <4>. QED  BY <2>1, <4>1 DEF TextOf
    <3>2. CASE ok = FALSE
      <4>1. intact'[s] = intact[s] /\ (disk[s].transcript => disk'[s].transcript)
        BY <2>2, <3>2
      <4>2. ~follow'[s].ok /\ follow'[s].pc = "ending"
        BY <2>1, <3>2
      <4>. QED  BY <2>1, <2>5, <4>1, <4>2 DEF TextOf, Current
    <3>. QED  BY <3>1, <3>2
  <2>9. RestOf(s)'
    BY <2>1, <2>3 DEF RestOf
  <2>. QED  BY <2>4, <2>6, <2>7, <2>8, <2>9, KeptElsewhere DEF KeptFits, KeptOf
<1>21. ASSUME NEW s \in Session, FollowEnds(s)
       PROVE  KeptFits'
  <2>1. /\ UNCHANGED <<phase, open, creating, worker, intact, stray>> /\ Following(s) /\ follow[s].pc = "ending"
        /\ \A x \in Session \ {s} : view'[x] = view[x] /\ disk'[x] = disk[x] /\ follow'[x] = follow[x]
        /\ follow'[s].pc = "none" /\ (s \notin open => view' = view /\ disk' = disk /\ unsaved' = unsaved)
        /\ UnsavedApart(s)
        /\ s \in open => /\ Saves(s, view'[s], disk[s]) /\ SameOffer(view'[s], view[s])
                         /\ view'[s].transcript = "succeeded" => follow[s].ok
    BY <1>21, FollowEndsIs DEF OnlyFollower, Following
  <2>2. creating[s] # "uploading" /\ phase # "down"
    BY <2>1, FollowedIs
  <2>4. \A x \in Session : x # s \/ s \notin open => SameFor(x)
    BY <2>1 DEF SameFor, UnsavedApart
  <2>5. FilesOf(s) /\ TextOf(s) /\ KeptOf(s)
    BY DEF KeptFits, KeptOf
  <2>6. ASSUME s \in open PROVE KeptOf(s)'
    <3>1. /\ StateIsSaved(s)
          /\ disk'[s].dir /\ disk'[s].source = disk[s].source
          /\ disk'[s].tracks = disk[s].tracks /\ disk'[s].transcript = disk[s].transcript
      BY <2>1, <2>2, <2>5, <2>6, SaveHolds DEF SameOffer
    <3>2. FilesOf(s)'
      BY <2>1, <2>5, <2>6, <3>1 DEF FilesOf, SameOffer
    <3>3. TextOf(s)'
      BY <2>1, <2>5, <2>6, <3>1 DEF TextOf, Current
    <3>. QED  BY <2>1, <2>2, <2>5, <2>6, <3>1, <3>2, <3>3, SaveKeeps DEF KeptOf
  <2>. QED  BY <2>4, <2>5, <2>6, KeptElsewhere DEF KeptFits
<1>22. ASSUME NEW s \in Session, CreateUpload(s)
       PROVE  KeptFits'
  <2>1. /\ UNCHANGED <<phase, open, worker, view, follow, intact, unsaved, stray>> /\ creating[s] = "uploading"
        /\ creating' = [creating EXCEPT ![s] = "uploaded"]
    BY <1>22 DEF CreateUpload, memory
  <2>2. /\ \A x \in Session \ {s} : disk'[x] = disk[x]
        /\ disk'[s].dir /\ disk'[s].source = disk[s].source /\ disk'[s].tracks = disk[s].tracks
        /\ disk'[s].transcript = disk[s].transcript /\ disk'[s].saved = disk[s].saved
    BY <1>22, CreateUploadIs
  <2>3. s \in open => Busy(view[s].status)
    BY <2>1 DEF CarryFits, BusyIsCarried, Creating
  <2>4. \A x \in Session \ {s} : SameFor(x)
    BY <2>1, <2>2 DEF SameFor
  <2>5. FilesOf(s) /\ SavedOf(s) /\ TextOf(s)
    BY DEF KeptFits, KeptOf
  <2>6. FilesOf(s)'
    BY <2>1, <2>2, <2>5 DEF FilesOf
  <2>7. SavedOf(s)'
    BY <2>1, <2>2, <2>5 DEF SavedOf
  <2>8. TextOf(s)'
    BY <2>1, <2>2, <2>5 DEF TextOf, Current
  <2>9. RestOf(s)'
    BY <2>1, <2>3 DEF RestOf
  <2>. QED  BY <2>4, <2>6, <2>7, <2>8, <2>9, KeptElsewhere DEF KeptFits, KeptOf
<1>23. ASSUME NEW s \in Session, s \notin open, CreateFails(s)
       PROVE  KeptFits'
  <2>1. \A x \in Session : SameFor(x)
    BY <1>23 DEF SameFor, CreateFails
  <2>. QED  BY <2>1, KeptElsewhere DEF KeptFits
<1>24. ASSUME NEW s \in Session, CreateQueue(s)
       PROVE  KeptFits'
  <2>1. /\ UNCHANGED <<phase, open, worker, view, follow, intact, stray>> /\ creating[s] = "uploaded"
        /\ creating' = [creating EXCEPT ![s] = "created"]
    BY <1>24 DEF CreateQueue
  <2>2. /\ creating[s] # "uploading" /\ creating'[s] # "uploading" /\ phase # "down"
    BY <2>1 DEF DownFits, Creating
  <2>3. /\ \A x \in Session \ {s} : disk'[x] = disk[x]
        /\ s \notin open => disk' = disk /\ unsaved' = unsaved
        /\ UnsavedApart(s)
        /\ s \in open => Saves(s, view'[s], disk[s])
    BY <1>24, <2>1, CreateQueueIs DEF CarryFits
  <2>4. \A x \in Session : x # s \/ s \notin open => SameFor(x)
    BY <2>1, <2>3 DEF SameFor, UnsavedApart
  <2>5. FilesOf(s) /\ TextOf(s) /\ KeptOf(s)
    BY DEF KeptFits, KeptOf
  <2>6. ASSUME s \in open PROVE KeptOf(s)'
    <3>1. /\ StateIsSaved(s)
          /\ disk'[s].dir /\ disk'[s].source = disk[s].source
          /\ disk'[s].tracks = disk[s].tracks /\ disk'[s].transcript = disk[s].transcript
      BY <2>1, <2>2, <2>3, <2>5, <2>6, SaveHolds
    <3>2. FilesOf(s)'
      BY <2>1, <2>5, <2>6, <3>1 DEF FilesOf
    <3>3. TextOf(s)'
      BY <2>1, <2>5, <2>6, <3>1 DEF TextOf, Current
    <3>. QED  BY <2>1, <2>2, <2>5, <2>6, <3>1, <3>2, <3>3, SaveKeeps DEF KeptOf
  <2>. QED  BY <2>4, <2>5, <2>6, KeptElsewhere DEF KeptFits
<1>25. ASSUME NEW s \in Session, NEW keep \in BOOLEAN, CreateEnter(s, keep)
       PROVE  KeptFits'
  <2>1. /\ UNCHANGED <<phase, worker, follow, disk, intact, unsaved, stray>> /\ creating[s] = "never"
        /\ creating' = [creating EXCEPT ![s] = "uploading"] /\ open' = open \cup {s}
    BY <1>25 DEF CreateEnter
  <2>2. /\ disk[s].saved = None /\ follow[s].pc = "none" /\ \A w \in Worker : worker[w].s # s
    BY <2>1 DEF CarryFits, FreshFits, Following
  <2>3. /\ \A x \in Session \ {s} : view'[x] = view[x]
        /\ Busy(view'[s].status) /\ view'[s].voices = {} /\ view'[s].tracks = {}
        /\ view'[s].transcript = "none"
    BY <1>25, CreateEnterIs DEF Busy
  <2>4. \A x \in Session \ {s} : SameFor(x)
    BY <2>1, <2>3 DEF SameFor
  <2>5. KeptOf(s)'
    BY <2>1, <2>2, <2>3 DEF KeptOf, FilesOf, SavedOf, TextOf, RestOf, Current
  <2>. QED  BY <2>4, <2>5, KeptElsewhere DEF KeptFits
<1>26. ASSUME NEW s \in Session, Begins(s)
       PROVE  KeptFits'
  <2>1. /\ phase = "running" /\ s \in open /\ ~Busy(view[s].status) /\ view'[s].status = "queued"
        /\ view'[s].keep = view[s].keep /\ view'[s].voices = view[s].voices
        /\ UNCHANGED <<phase, creating, open, worker, follow, stray>> /\ UnsavedApart(s)
        /\ disk'[s].dir = disk[s].dir /\ disk'[s].source = disk[s].source
        /\ (disk'[s].saved = view'[s] /\ view[s].keep /\ disk[s].dir) \/ disk'[s].saved = disk[s].saved
        /\ view[s].keep => disk'[s].saved = view'[s] \/ s \in unsaved'
        /\ view[s].tracks \subseteq disk[s].tracks => view'[s].tracks \subseteq disk'[s].tracks
    BY <1>26, BeginsIs
  <2>2. /\ view'[s].transcript \in {view[s].transcript, "queued"}
        /\ view'[s].transcript = "queued" \/ disk'[s].transcript = disk[s].transcript
        /\ intact[s] = "torn" => intact'[s] = "torn"
        /\ intact'[s] = intact[s] \/ view'[s].transcript # "succeeded" \/ view'[s].stale
        /\ view[s].transcript = "succeeded" /\ view[s].stale
              => view'[s].transcript # "succeeded" \/ view'[s].stale
    BY <1>26, BeginsIs
  <2>3. /\ view' = [view EXCEPT ![s] = view'[s]] /\ disk' = [disk EXCEPT ![s] = disk'[s]]
        /\ intact' = [intact EXCEPT ![s] = intact'[s]]
    BY <1>26, BeginsIs
  <2>4. \A x \in Session \ {s} : view'[x] = view[x] /\ disk'[x] = disk[x] /\ intact'[x] = intact[x]
    BY <2>3
  <2>5. \A x \in Session \ {s} : SameFor(x)
    BY <2>1, <2>4 DEF SameFor, UnsavedApart
  <2>6. creating[s] # "uploading" /\ ~Following(s) /\ \A w \in Worker : ~HandsOn(w, s)
    BY <2>1 DEF CarryFits, BusyIsCarried, Creating
  <2>7. FilesOf(s) /\ SavedOf(s) /\ TextOf(s)
    BY DEF KeptFits, KeptOf
  <2>8. StateIsSaved(s)
    BY <2>1 DEF StateIsSaved
  <2>9. FilesOf(s)'
    BY <2>1, <2>6, <2>7 DEF FilesOf, HandsOn
  <2>10. Current(s)' => Current(s) /\ disk'[s].transcript = disk[s].transcript /\ intact'[s] = intact[s]
    BY <2>2 DEF Current
  <2>11. TextOf(s)'
    BY <2>1, <2>6, <2>7, <2>10 DEF TextOf, Following
  <2>12. KeptOf(s)'
    BY <2>1, <2>7, <2>8, <2>9, <2>11, SaveKeeps DEF KeptOf
  <2>. QED  BY <2>5, <2>12, KeptElsewhere DEF KeptFits
<1>27. ASSUME NEW s \in Session, Update(s)
       PROVE  KeptFits'
  <2>1. /\ UNCHANGED <<phase, open, creating, worker, follow, intact>>
        /\ \A x \in Session \ {s} : view'[x] = view[x] /\ disk'[x] = disk[x]
        /\ UnsavedApart(s) /\ stray \subseteq stray'
    BY <1>27, UpdateIs DEF Update
  <2>2. /\ s \in open /\ view'[s].keep = ~view[s].keep
        /\ view'[s].status = view[s].status /\ view'[s].voices = view[s].voices
        /\ view'[s].tracks = view[s].tracks /\ SameText(view'[s], view[s])
        /\ disk'[s].dir = disk[s].dir /\ disk'[s].source = disk[s].source
        /\ disk'[s].tracks = disk[s].tracks /\ disk'[s].transcript = disk[s].transcript
    BY <1>27, UpdateIs
  <2>3. \A x \in Session \ {s} : SameFor(x)
    BY <2>1 DEF SameFor, UnsavedApart
  <2>4. FilesOf(s) /\ TextOf(s) /\ SavedOf(s) /\ phase # "down"
    BY <2>2 DEF KeptFits, KeptOf, DownFits
  <2>5. FilesOf(s)'
    BY <2>1, <2>2, <2>4 DEF FilesOf
  <2>6. TextOf(s)'
    BY <2>1, <2>2, <2>4 DEF TextOf, SameText, Current
  <2>7. CASE view'[s].keep
    <3>1. PICK v \in Views : v = view'[s]
      BY DEF Shapes
    <3>2. Saves(s, v, disk[s]) /\ v.keep /\ disk[s] \in Dirs
      BY <1>27, <2>7, <3>1, UpdateIs
    <3>3. StateIsSaved(s)
      BY <2>1, <2>2, <2>7, <3>1, <3>2, SavesIs DEF StateIsSaved
    <3>4. KeptOf(s)'
      BY <2>1, <2>2, <2>4, <2>5, <2>6, <3>3, SaveKeeps DEF KeptOf
    <3>. QED  BY <2>3, <3>4, KeptElsewhere DEF KeptFits
  <2>8. CASE ~view'[s].keep
    <3>1. /\ disk'[s].saved \in {None, disk[s].saved}
          /\ disk'[s].saved # None => s \in stray'
      BY <1>27, <2>8, UpdateIs
    <3>2. SavedOf(s)'
      BY <2>2, <2>4, <3>1 DEF SavedOf
    <3>3. RestOf(s)'
      BY <2>8 DEF RestOf
    <3>. QED  BY <2>3, <2>5, <2>6, <3>2, <3>3, KeptElsewhere DEF KeptFits, KeptOf
  <2>. QED  BY <2>7, <2>8
<1>28. ASSUME NEW s \in Session, EndsInside(s)
       PROVE  KeptFits'
  <2>0. /\ phase' = "down" /\ Forgotten
        /\ \A x \in Session \ {s} : disk'[x] = disk[x]
        /\ disk'[s].saved = disk[s].saved /\ disk'[s].source = disk[s].source /\ disk'[s].dir = disk[s].dir
        /\ intact' = [intact EXCEPT ![s] = "torn"] /\ UNCHANGED <<unsaved, stray>>
    BY <1>28, EndsInsideIs
  <2>1. /\ phase' = "down" /\ \A x \in Session \ {s} : disk'[x] = disk[x] /\ intact'[x] = intact[x]
        /\ disk'[s].saved = disk[s].saved /\ disk'[s].source = disk[s].source /\ disk'[s].dir = disk[s].dir
        /\ intact'[s] = "torn" /\ UNCHANGED <<unsaved, stray>>
    BY <2>0
  <2>2. open' = {} /\ \A x \in Session : follow'[x].pc = "none"
    BY <2>0, ForgottenIs
  <2>3. ASSUME NEW x \in Session PROVE KeptOf(x)'
    <3>1. SavedOf(x)
      BY DEF KeptFits, KeptOf
    <3>2. SavedOf(x)'
      BY <2>1, <3>1 DEF SavedOf
    <3>. QED  BY <2>2, <3>2 DEF KeptOf, FilesOf, TextOf, RestOf
  <2>. QED  BY <2>3 DEF KeptFits
<1>29. ASSUME NEW S \in SUBSET open, Removes(S)
       PROVE  KeptFits'
  <2>1. S \in SUBSET Session /\ Drops(S) /\ UNCHANGED <<worker, follow, intact>>
    BY <1>29 DEF Removes
  <2>2. /\ open' = open \ S
        /\ \A x \in Session \ S : view'[x] = view[x] /\ disk'[x] = disk[x]
        /\ \A x \in S : disk'[x] = NoDir \/ LeftOf(x)
        /\ stray \subseteq stray' /\ unsaved' = unsaved \ S
    BY <2>1, DropsIs DEF CarryFits
  <2>3. \A x \in Session \ S : creating'[x] = creating[x]
    BY <1>29 DEF Removes
  <2>4. phase = "down" => phase' = "down"
    BY <1>29 DEF Removes
  <2>5. \A x \in Session \ S : SameFor(x)
    BY <2>1, <2>2, <2>3, <2>4 DEF SameFor
  <2>6. ASSUME NEW x \in S PROVE KeptOf(x)'
    <3>1. x \in Session /\ TextOf(x) /\ SavedOf(x)
      BY <2>1 DEF KeptFits, KeptOf
    <3>2. x \notin open' /\ follow' = follow
      BY <2>1, <2>2
    <3>3. SavedOf(x)'
      <4>1. CASE disk'[x] = NoDir
        BY <4>1 DEF NoDir, SavedOf
      <4>2. CASE LeftOf(x)
        BY <3>1, <4>2 DEF LeftOf, SavedOf
      <4>. QED  BY <2>2, <4>1, <4>2
    <3>. QED  BY <3>1, <3>2, <3>3 DEF KeptOf, FilesOf, TextOf, RestOf
  <2>. QED  BY <2>5, <2>6, KeptElsewhere DEF KeptFits
<1>30. ASSUME NEW j \in Job, JobEnds(j)
       PROVE  KeptFits'
  <2>1. \A x \in Session : SameFor(x)
    BY <1>30 DEF SameFor, JobEnds, memory
  <2>. QED  BY <2>1, KeptElsewhere DEF KeptFits
<1>31. ASSUME NEW j \in Job, JobForgotten(j)
       PROVE  KeptFits'
  <2>1. \A x \in Session : SameFor(x)
    BY <1>31 DEF SameFor, JobForgotten, memory
  <2>. QED  BY <2>1, KeptElsewhere DEF KeptFits
<1>32. CASE Close
  <2>1. \A x \in Session : SameFor(x)
    BY <1>32 DEF SameFor, Close, memory
  <2>. QED  BY <2>1, KeptElsewhere DEF KeptFits
<1>33. CASE Ends
  <2>1. phase' = "down" /\ Forgotten /\ UNCHANGED <<disk, intact, unsaved, stray>>
    BY <1>33 DEF Ends
  <2>2. open' = {} /\ \A x \in Session : follow'[x].pc = "none"
    BY <2>1, ForgottenIs
  <2>3. ASSUME NEW x \in Session PROVE KeptOf(x)'
    <3>1. SavedOf(x)
      BY DEF KeptFits, KeptOf
    <3>2. SavedOf(x)'
      BY <2>1, <3>1 DEF SavedOf
    <3>. QED  BY <2>2, <3>2 DEF KeptOf, FilesOf, TextOf, RestOf
  <2>. QED  BY <2>3 DEF KeptFits
<1>34. CASE Restart
  <2>1. /\ phase = "down" /\ open' \subseteq {x \in Session : disk[x].saved # None}
        /\ {x \in Session : disk[x].saved # None} \subseteq open' \cup stray'
        /\ stray \subseteq stray' /\ unsaved' = {}
        /\ \A x \in open' : view'[x] = Restored(disk[x])
        /\ \A x \in Session : disk'[x] = IF disk[x].saved # None THEN disk[x] ELSE NoDir
        /\ worker' = [w \in Worker |-> Resting("looking")] /\ UNCHANGED <<creating, follow>>
        /\ intact' = [x \in Session |-> IF x \in unsaved \cup stray THEN "torn" ELSE intact[x]]
    BY <1>34, RestartIs
  <2>2. \A x \in Session : follow'[x].pc = "none" /\ \A w \in Worker : worker'[w].s # x
    BY <2>1, IsolationAssumption DEF DownFits, Following, Resting
  <2>3. ASSUME NEW x \in Session, disk[x].saved # None PROVE KeptOf(x)'
    <3>1. disk[x] \in Dirs /\ disk'[x] = disk[x] /\ SavedOf(x)
      BY <2>1, <2>3 DEF KeptFits, KeptOf
    <3>2. PICK d \in Dirs : d = disk[x] /\ d.saved # None
      BY <2>3, <3>1
    <3>3. x \in open' =>
             /\ view'[x].keep = d.saved.keep /\ view'[x].voices = d.saved.voices
             /\ view'[x].stale = d.saved.stale /\ view'[x].tracks = d.saved.tracks \cap d.tracks
             /\ view'[x].transcript = "succeeded" => d.saved.transcript = "succeeded"
      BY <2>1, <3>2, RestoredIs
    <3>4. /\ d.saved.keep /\ d.dir /\ (d.saved.voices # {} => d.source \/ x \in stray)
          /\ (d.saved.transcript = "succeeded" /\ ~d.saved.stale) =>
                \/ intact'[x] = "yes" /\ d.transcript
                \/ intact'[x] = "torn"
      BY <2>1, <3>1, <3>2 DEF SavedOf
    <3>5. FilesOf(x)'
      BY <2>1, <2>2, <3>1, <3>2, <3>3, <3>4 DEF FilesOf
    <3>6. SavedOf(x)'
      BY <2>1, <3>1, <3>2, <3>3, <3>4 DEF SavedOf
    <3>7. TextOf(x)'
      BY <2>2, <3>1, <3>2, <3>3, <3>4 DEF TextOf, Current
    <3>8. RestOf(x)'
      BY <2>1, <3>1, <3>2 DEF RestOf
    <3>. QED  BY <3>5, <3>6, <3>7, <3>8 DEF KeptOf
  <2>4. ASSUME NEW x \in Session, disk[x].saved = None PROVE KeptOf(x)'
    <3>1. disk'[x].saved = None /\ x \notin open'
      BY <2>1, <2>4 DEF NoDir
    <3>. QED  BY <2>2, <3>1 DEF KeptOf, FilesOf, SavedOf, TextOf, RestOf
  <2>. QED  BY <2>3, <2>4 DEF KeptFits
<1>35. CASE UNCHANGED vars
  <2>1. \A x \in Session : SameFor(x)
    BY <1>35 DEF SameFor, vars, memory
  <2>. QED  BY <2>1, KeptElsewhere DEF KeptFits
<1>36. CASE \E s \in Session : (\E v \in Voice : Extract(s, v)) \/ ExtractAll(s) \/ TranscribeSpeakers(s)
  BY <1>26, <1>36, RequestsBegin
<1>37. CASE CloseEnds \/ \E s \in Session : Delete(s) \/ Expire(s) \/ (s \in open /\ CreateFails(s))
  <2>1. \E S \in SUBSET open : Removes(S)
    BY <1>37, SectionsRemove
  <2>. QED  BY <1>29, <2>1
<1>. QED
  BY <1>1, <1>2, <1>3, <1>4, <1>5, <1>6, <1>7, <1>8, <1>9, <1>10, <1>11, <1>12,
     <1>13, <1>14, <1>15, <1>16, <1>17, <1>18, <1>19, <1>20, <1>21, <1>22, <1>23, <1>24,
     <1>25, <1>26, <1>27, <1>28, <1>29, <1>30, <1>31, <1>32, <1>33, <1>34, <1>35, <1>36,
     <1>37, Zenon
  DEF Next, WorkerSteps, FollowerSteps, CreateSteps, Requests

-----------------------------------------------------------------------------
(* The room for isolations, step by step.                                  *)

(* What a removal or a restore has failed on stays known.                  *)
LEMMA StrayGrows ==
    ASSUME Shapes, [Next]_vars
    PROVE  stray \subseteq stray'
<1>1. ASSUME NEW w \in Worker, WorkerSteps(w)
      PROVE  stray' = stray
  <2>1. CASE NextTakes(w) \/ NextWaits(w) \/ NextWakes(w) \/ NextEnds(w)
    BY <2>1 DEF NextTakes, NextWaits, NextWakes, NextEnds, OnlyWorker
  <2>2. CASE RunStarts(w) \/ WorkFails(w) \/ Decode(w)
    BY <2>2 DEF RunStarts, WorkFails, Decode, OnlyWorker
  <2>3. CASE NoVoices(w) \/ PutTrack(w) \/ Extracted(w)
    BY <2>3 DEF NoVoices, PutTrack, Extracted, OnlyWorker
  <2>4. ASSUME NEW sm \in SUBSET Voice, Voices(w, sm)
        PROVE  stray' = stray
    BY <2>4 DEF Voices, OnlyWorker
  <2>7. ASSUME NEW v \in Voice, WriteTrack(w, v)
        PROVE  stray' = stray
    BY <2>7 DEF WriteTrack, OnlyWorker
  <2>5. CASE RunHandsOver(w)
    BY <2>5 DEF RunHandsOver
  <2>6. CASE RunEnds(w)
    BY <2>6 DEF RunEnds, RunEndsWith, OnlyWorker
  <2>. QED  BY <1>1, <2>1, <2>2, <2>3, <2>4, <2>5, <2>6, <2>7, Zenon DEF WorkerSteps
<1>2. ASSUME NEW s \in Session, FollowerSteps(s)
      PROVE  stray' = stray
  <2>1. CASE \E v \in Voice, j \in Job : Submit(s, v, j)
    BY <2>1 DEF Submit, OnlyFollower
  <2>2. CASE SubmitFails(s) \/ Submitted(s)
    BY <2>2 DEF SubmitFails, Submitted, OnlyFollower
  <2>5. CASE Awaited(s)
    BY <2>5 DEF Awaited, OnlyFollower
  <2>6. CASE CancelJobs(s)
    BY <2>6 DEF CancelJobs, OnlyFollower
  <2>3. CASE WriteTranscript(s)
    BY <2>3 DEF WriteTranscript
  <2>4. CASE FollowEnds(s)
    BY <2>4 DEF FollowEnds, FollowEndsWith, OnlyFollower
  <2>. QED  BY <1>2, <2>1, <2>2, <2>3, <2>4, <2>5, <2>6, Zenon DEF FollowerSteps
<1>3. ASSUME NEW s \in Session, CreateSteps(s)
      PROVE  stray \subseteq stray'
  BY <1>3 DEF CreateSteps, CreateUpload, CreateFails, CreateQueue, Drops, DropsEnding
<1>4. ASSUME NEW s \in Session, Requests(s)
      PROVE  stray \subseteq stray'
  <2>1. CASE (\E v \in Voice : Extract(s, v)) \/ ExtractAll(s) \/ TranscribeSpeakers(s)
    <3>1. Begins(s)
      BY <2>1, RequestsBegin
    <3>. QED  BY <3>1 DEF Begins, Starts
  <2>2. CASE Update(s)
    BY <2>2, UpdateIs
  <2>3. CASE \E keep \in BOOLEAN : CreateEnter(s, keep)
    BY <2>3 DEF CreateEnter
  <2>4. CASE Delete(s)
    BY <2>4 DEF Delete, Drops, DropsEnding
  <2>. QED  BY <1>4, <2>1, <2>2, <2>3, <2>4 DEF Requests
<1>5. ASSUME NEW s \in Session, Expire(s) \/ EndsInside(s)
      PROVE  stray \subseteq stray'
  BY <1>5 DEF Expire, EndsInside, Drops, DropsEnding
<1>6. ASSUME NEW j \in Job, JobEnds(j) \/ JobForgotten(j)
      PROVE  stray' = stray
  BY <1>6 DEF JobEnds, JobForgotten
<1>7. CASE Close \/ CloseEnds \/ Ends
  BY <1>7 DEF Close, CloseEnds, Ends, Drops, DropsEnding
<1>8. CASE Restart
  BY <1>8, RestartIs
<1>9. CASE UNCHANGED vars
  BY <1>9 DEF vars
<1>. QED  BY <1>1, <1>2, <1>3, <1>4, <1>5, <1>6, <1>7, <1>8, <1>9, Zenon DEF Next

(* Nobody comes, nobody changes sides.                                     *)
LEMMA SameRoom ==
    ASSUME Shapes, RoomIsKept, open' \subseteq open, stray \subseteq stray',
           \A x \in open' : view'[x].keep = view[x].keep
    PROVE  RoomIsKept'
<1> DEFINE K == {s \in open : view[s].keep} \ stray
           F == {s \in open : ~view[s].keep}
<1>1. IsFiniteSet(K) /\ IsFiniteSet(F)
  BY IsolationAssumption, FS_Subset DEF Shapes, PlainShapes
<1>2. {s \in open' : view'[s].keep} \ stray' \in SUBSET K /\ {s \in open' : ~view'[s].keep} \in SUBSET F
  OBVIOUS
<1>3. /\ Cardinality({s \in open' : view'[s].keep} \ stray') <= Cardinality(K)
      /\ Cardinality({s \in open' : ~view'[s].keep}) <= Cardinality(F)
      /\ Cardinality({s \in open' : view'[s].keep} \ stray') \in Nat
      /\ Cardinality({s \in open' : ~view'[s].keep}) \in Nat
      /\ Cardinality(K) \in Nat /\ Cardinality(F) \in Nat
  BY <1>1, <1>2, FS_Subset, FS_CardinalityType
<1>4. Cardinality(K) <= MaxKept /\ Cardinality(F) <= MaxIsolations
  BY DEF RoomIsKept
<1> HIDE DEF K, F
<1>. QED  BY <1>3, <1>4, IsolationAssumption DEF RoomIsKept

(* The sessions of one side that count; and how many there may be.         *)
Counted(b) == IF b THEN {x \in open : view[x].keep} \ stray ELSE {x \in open : ~view[x].keep}
AtMost(b) == IF b THEN MaxKept ELSE MaxIsolations

(* roomLocked, and one that comes to the side it has asked for.            *)
LEMMA OneMore ==
    ASSUME Shapes, Shapes', RoomIsKept, NEW s \in Session, NEW keep \in BOOLEAN, Room(keep),
           s \in open => view[s].keep # keep, stray \subseteq stray',
           open' = open \cup {s}, view'[s].keep = keep,
           \A x \in Session \ {s} : view'[x] = view[x]
    PROVE  RoomIsKept'
<1> DEFINE M == {x \in open : view[x].keep = keep}
<1>0. /\ open \in SUBSET Session /\ \A x \in Session : view[x].keep \in BOOLEAN /\ view'[x].keep \in BOOLEAN
      /\ Counted(TRUE) \in SUBSET open /\ Counted(FALSE) \in SUBSET open
  BY DEF Shapes, PlainShapes, Views, Counted
<1>1. IsFiniteSet(M) /\ IsFiniteSet(Counted(~keep)) /\ s \notin M
  BY <1>0, IsolationAssumption, FS_Subset
<1>2. Counted(keep)' \in SUBSET (M \cup {s}) /\ Counted(~keep)' \in SUBSET Counted(~keep)
  BY <1>0 DEF Counted
<1>3. IsFiniteSet(M \cup {s}) /\ Cardinality(M \cup {s}) = Cardinality(M) + 1
  BY <1>1, FS_AddElement
<1>4. /\ Cardinality(Counted(keep)') <= Cardinality(M \cup {s})
      /\ Cardinality(Counted(~keep)') <= Cardinality(Counted(~keep))
      /\ IsFiniteSet(Counted(keep)') /\ IsFiniteSet(Counted(~keep)')
  BY <1>1, <1>2, <1>3, FS_Subset
<1>5. /\ Cardinality(M) \in Nat /\ Cardinality(Counted(~keep)) \in Nat
      /\ Cardinality(Counted(keep)') \in Nat /\ Cardinality(Counted(~keep)') \in Nat
  BY <1>1, <1>4, FS_CardinalityType
<1>6. Cardinality(M) < AtMost(keep)
  BY DEF Room, AtMost
<1>7. Cardinality(Counted(~keep)) <= AtMost(~keep)
  BY DEF RoomIsKept, Counted, AtMost
<1>8. AtMost(keep) \in Nat /\ AtMost(~keep) \in Nat
  BY IsolationAssumption DEF AtMost
<1>9. Cardinality(Counted(keep)') <= AtMost(keep) /\ Cardinality(Counted(~keep)') <= AtMost(~keep)
  <2> HIDE DEF M
  <2>. QED  BY <1>3, <1>4, <1>5, <1>6, <1>7, <1>8
<1>. QED  BY <1>9 DEF RoomIsKept, Counted, AtMost

(* No step lets more in than there is room for.                            *)
LEMMA RoomStays ==
    ASSUME Shapes, CarryFits, RoomFits, KeptFits, Shapes', [Next]_vars
    PROVE  RoomIsKept'
<1>0. /\ WorkersFit /\ open \subseteq Session /\ view \in [Session -> Views] /\ stray \subseteq stray'
      /\ disk \in [Session -> Dirs] /\ OneTaskEach /\ RoomIsKept
  BY StrayGrows DEF Shapes, PlainShapes, CarryFits, RoomFits
<1> USE <1>0
<1>1. ASSUME NEW w \in Worker, NextTakes(w)
      PROVE  RoomIsKept'
  BY <1>1, SameRoom DEF NextTakes, OnlyWorker
<1>2. ASSUME NEW w \in Worker, NextWaits(w)
      PROVE  RoomIsKept'
  BY <1>2, SameRoom DEF NextWaits, OnlyWorker
<1>3. ASSUME NEW w \in Worker, NextWakes(w)
      PROVE  RoomIsKept'
  BY <1>3, SameRoom DEF NextWakes, OnlyWorker
<1>4. ASSUME NEW w \in Worker, NextEnds(w)
      PROVE  RoomIsKept'
  BY <1>4, SameRoom DEF NextEnds, OnlyWorker
<1>5. ASSUME NEW w \in Worker, RunStarts(w)
      PROVE  RoomIsKept'
  BY <1>5, SameRoom DEF RunStarts, OnlyWorker
<1>6. ASSUME NEW w \in Worker, WorkFails(w)
      PROVE  RoomIsKept'
  BY <1>6, SameRoom DEF WorkFails, OnlyWorker
<1>7. ASSUME NEW w \in Worker, Decode(w)
      PROVE  RoomIsKept'
  <2>1. PICK s \in Session : s = worker[w].s
    BY <1>7 DEF Decode, WorkersFit, Fit
  <2>2. open' = open
    BY <1>7 DEF Decode, OnlyWorker
  <2>3. \A x \in open : view'[x].keep = view[x].keep
    BY <1>7, <2>1, DecodeIs DEF SameOffer
  <2>. QED  BY <2>2, <2>3, SameRoom
<1>8. ASSUME NEW w \in Worker, NEW sm \in SUBSET Voice, Voices(w, sm)
      PROVE  RoomIsKept'
  <2>1. PICK s \in Session : s = worker[w].s
    BY <1>8 DEF Voices, WorkersFit, Fit
  <2>2. open' = open
    BY <1>8 DEF Voices, OnlyWorker
  <2>3. \A x \in open : view'[x].keep = view[x].keep
    BY <1>8, <2>1, VoicesIs DEF SameOffer
  <2>. QED  BY <2>2, <2>3, SameRoom
<1>9. ASSUME NEW w \in Worker, NoVoices(w)
      PROVE  RoomIsKept'
  BY <1>9, SameRoom DEF NoVoices, OnlyWorker
<1>10. ASSUME NEW w \in Worker, NEW v \in Voice, WriteTrack(w, v)
       PROVE  RoomIsKept'
  <2>1. PICK s \in Session : s = worker[w].s
    BY <1>10 DEF WriteTrack, WorkersFit, Fit
  <2>2. open' = open
    BY <1>10 DEF WriteTrack, OnlyWorker
  <2>3. \A x \in open : view'[x].keep = view[x].keep
    BY <1>10, <2>1, WriteTrackIs DEF SameOffer
  <2>. QED  BY <2>2, <2>3, SameRoom
<1>11. ASSUME NEW w \in Worker, PutTrack(w)
       PROVE  RoomIsKept'
  <2>1. PICK s \in Session : s = worker[w].s
    BY <1>11 DEF PutTrack, WorkersFit, Fit
  <2>2. open' = open
    BY <1>11 DEF PutTrack, OnlyWorker
  <2>3. \A x \in open : view'[x].keep = view[x].keep
    BY <1>11, <2>1, PutTrackIs DEF SameOffer
  <2>. QED  BY <2>2, <2>3, SameRoom
<1>12. ASSUME NEW w \in Worker, Extracted(w)
       PROVE  RoomIsKept'
  <2>1. PICK s \in Session : s = worker[w].s
    BY <1>12 DEF Extracted, WorkersFit, Fit
  <2>2. open' = open
    BY <1>12 DEF Extracted, OnlyWorker
  <2>3. \A x \in open : view'[x].keep = view[x].keep
    BY <1>12, <2>1, ExtractedIs DEF SameOffer
  <2>. QED  BY <2>2, <2>3, SameRoom
<1>13. ASSUME NEW w \in Worker, RunHandsOver(w)
       PROVE  RoomIsKept'
  <2>1. PICK s \in Session : s = worker[w].s
    BY <1>13 DEF RunHandsOver, WorkersFit, Fit
  <2>2. open' = open
    BY <1>13 DEF RunHandsOver
  <2>3. \A x \in open : view'[x].keep = view[x].keep
    BY <1>13, <2>1, RunHandsOverIs DEF SameOffer
  <2>. QED  BY <2>2, <2>3, SameRoom
<1>14. ASSUME NEW w \in Worker, RunEnds(w)
       PROVE  RoomIsKept'
  <2>1. PICK s \in Session : s = worker[w].s
    BY <1>14 DEF RunEnds, RunEndsWith, WorkersFit, Fit
  <2>2. open' = open
    BY <1>14, <2>1, RunEndsIs DEF OnlyWorker
  <2>3. \A x \in open : view'[x].keep = view[x].keep
    BY <1>14, <2>1, RunEndsIs DEF SameOffer
  <2>. QED  BY <2>2, <2>3, SameRoom
<1>15. ASSUME NEW s \in Session, NEW v \in Voice, NEW j \in Job, Submit(s, v, j)
       PROVE  RoomIsKept'
  BY <1>15, SameRoom DEF Submit, OnlyFollower
<1>16. ASSUME NEW s \in Session, SubmitFails(s)
       PROVE  RoomIsKept'
  BY <1>16, SameRoom DEF SubmitFails, OnlyFollower
<1>17. ASSUME NEW s \in Session, Submitted(s)
       PROVE  RoomIsKept'
  BY <1>17, SameRoom DEF Submitted, OnlyFollower
<1>18. ASSUME NEW s \in Session, Awaited(s)
       PROVE  RoomIsKept'
  BY <1>18, SameRoom DEF Awaited, OnlyFollower
<1>19. ASSUME NEW s \in Session, CancelJobs(s)
       PROVE  RoomIsKept'
  BY <1>19, SameRoom DEF CancelJobs, OnlyFollower
<1>20. ASSUME NEW s \in Session, WriteTranscript(s)
       PROVE  RoomIsKept'
  BY <1>20, SameRoom DEF WriteTranscript
<1>21. ASSUME NEW s \in Session, FollowEnds(s)
       PROVE  RoomIsKept'
  BY <1>21, FollowEndsIs, SameRoom DEF SameOffer, OnlyFollower
<1>22. ASSUME NEW s \in Session, CreateUpload(s)
       PROVE  RoomIsKept'
  BY <1>22, SameRoom DEF CreateUpload, memory
<1>23. ASSUME NEW s \in Session, s \notin open, CreateFails(s)
       PROVE  RoomIsKept'
  BY <1>23, SameRoom DEF CreateFails, memory
<1>24. ASSUME NEW s \in Session, CreateQueue(s)
       PROVE  RoomIsKept'
  BY <1>24, SameRoom DEF CreateQueue, memory
<1>25. ASSUME NEW s \in Session, NEW keep \in BOOLEAN, CreateEnter(s, keep)
       PROVE  RoomIsKept'
  <2>1. s \notin open /\ open' = open \cup {s} /\ Room(keep)
    BY <1>25 DEF CreateEnter, CarryFits, FreshFits
  <2>2. view'[s].keep = keep /\ \A x \in Session \ {s} : view'[x] = view[x]
    BY <1>25, CreateEnterIs
  <2>3. CASE keep = TRUE
    BY <2>1, <2>2, <2>3, OneMore
  <2>4. CASE keep = FALSE
    BY <2>1, <2>2, <2>4, OneMore
  <2>. QED  BY <2>3, <2>4
<1>26. ASSUME NEW s \in Session, Begins(s)
       PROVE  RoomIsKept'
  <2>1. open' = open /\ \A x \in open : view'[x].keep = view[x].keep
    BY <1>26, BeginsIs
  <2>. QED  BY <2>1, SameRoom
<1>27. ASSUME NEW s \in Session, Update(s)
       PROVE  RoomIsKept'
  <2>1. s \in open /\ open' = open /\ view'[s].keep = ~view[s].keep /\ Room(view'[s].keep)
    BY <1>27, UpdateIs DEF Update
  <2>2. \A x \in Session \ {s} : view'[x] = view[x]
    BY <1>27, UpdateIs
  <2>3. CASE view'[s].keep = TRUE
    BY <2>1, <2>2, <2>3, OneMore, ZenonT(60)
  <2>4. CASE view'[s].keep = FALSE
    BY <2>1, <2>2, <2>4, OneMore
  <2>. QED  BY <2>1, <2>3, <2>4 DEF Views
<1>28. ASSUME NEW s \in Session, EndsInside(s)
       PROVE  RoomIsKept'
  <2>1. open' = {}
    BY <1>28 DEF EndsInside, Forgotten
  <2>. QED  BY <2>1, SameRoom
<1>29. ASSUME NEW S \in SUBSET open, Removes(S)
       PROVE  RoomIsKept'
  <2>1. S \in SUBSET Session /\ Drops(S)
    BY <1>29 DEF Removes
  <2>2. open' = open \ S /\ \A x \in Session \ S : view'[x] = view[x]
    BY <2>1, DropsIs DEF CarryFits
  <2>. QED  BY <2>2, SameRoom
<1>30. ASSUME NEW j \in Job, JobEnds(j)
       PROVE  RoomIsKept'
  BY <1>30, SameRoom DEF JobEnds, memory
<1>31. ASSUME NEW j \in Job, JobForgotten(j)
       PROVE  RoomIsKept'
  BY <1>31, SameRoom DEF JobForgotten, memory
<1>32. CASE Close
  BY <1>32, SameRoom DEF Close, memory
<1>33. CASE Ends
  <2>1. open' = {}
    BY <1>33 DEF Ends, Forgotten
  <2>. QED  BY <2>1, SameRoom
<1>34. CASE Restart
  <2> DEFINE Filed == {x \in Session : disk[x].saved # None} \ stray
  <2>1. /\ phase = "down" /\ open' \subseteq {x \in Session : disk[x].saved # None}
        /\ \A x \in open' : view'[x] = Restored(disk[x])
    BY <1>34, RestartIs
  <2>2. ASSUME NEW x \in open' PROVE view'[x].keep
    <3>1. x \in Session /\ disk[x] \in Dirs /\ disk[x].saved # None /\ SavedOf(x)
      BY <2>1 DEF KeptFits, KeptOf
    <3>. QED  BY <2>1, <3>1, RestoredIs DEF SavedOf
  <2>3. {x \in open' : view'[x].keep} \ stray' \in SUBSET Filed /\ {x \in open' : ~view'[x].keep} = {}
    BY <2>1, <2>2
  <2>4. Cardinality({x \in open' : ~view'[x].keep}) = 0
    BY <2>3, FS_EmptySet
  <2>5. IsFiniteSet(Filed) /\ Cardinality(Filed) <= MaxKept
    BY <2>1, IsolationAssumption, FS_Subset DEF RoomFits
  <2>6. /\ Cardinality({x \in open' : view'[x].keep} \ stray') <= Cardinality(Filed)
        /\ Cardinality({x \in open' : view'[x].keep} \ stray') \in Nat /\ Cardinality(Filed) \in Nat
    BY <2>3, <2>5, FS_Subset, FS_CardinalityType
  <2> HIDE DEF Filed
  <2>. QED  BY <2>4, <2>5, <2>6, IsolationAssumption DEF RoomIsKept
<1>35. CASE UNCHANGED vars
  BY <1>35, SameRoom DEF vars, memory
<1>36. CASE \E s \in Session : (\E v \in Voice : Extract(s, v)) \/ ExtractAll(s) \/ TranscribeSpeakers(s)
  BY <1>26, <1>36, RequestsBegin
<1>37. CASE CloseEnds \/ \E s \in Session : Delete(s) \/ Expire(s) \/ (s \in open /\ CreateFails(s))
  <2>1. \E S \in SUBSET open : Removes(S)
    BY <1>37, SectionsRemove
  <2>. QED  BY <1>29, <2>1
<1>. QED
  BY <1>1, <1>2, <1>3, <1>4, <1>5, <1>6, <1>7, <1>8, <1>9, <1>10, <1>11, <1>12,
     <1>13, <1>14, <1>15, <1>16, <1>17, <1>18, <1>19, <1>20, <1>21, <1>22, <1>23, <1>24,
     <1>25, <1>26, <1>27, <1>28, <1>29, <1>30, <1>31, <1>32, <1>33, <1>34, <1>35, <1>36,
     <1>37, Zenon
  DEF Next, WorkerSteps, FollowerSteps, CreateSteps, Requests

(* What waits for the next process is what this one had room for.          *)
LEMMA RoomKept ==
    ASSUME Shapes, CarryFits, DownFits, RoomFits, KeptFits, Shapes', [Next]_vars
    PROVE  RoomFits'
<1>1. RoomIsKept'
  BY RoomStays
<1>2. ASSUME phase' = "down"
      PROVE  Cardinality({s \in Session : disk'[s].saved # None} \ stray') <= MaxKept
  <2> DEFINE Waiting == {s \in Session : disk'[s].saved # None} \ stray'
             K == {s \in open : view[s].keep} \ stray
  <2>1. CASE UNCHANGED <<phase, open, view, pending, wake, worker, follow, creating, disk, stray, intact>>
    BY <1>2, <2>1 DEF RoomFits
  <2>2. CASE phase # "down" /\ \A s \in Session : disk'[s].saved = disk[s].saved
    <3>1. Waiting \in SUBSET K
      BY <2>2, StrayGrows DEF KeptFits, KeptOf, SavedOf
    <3>2. IsFiniteSet(K)
      BY IsolationAssumption, FS_Subset DEF Shapes, PlainShapes
    <3>3. Cardinality(Waiting) <= Cardinality(K) /\ Cardinality(K) <= MaxKept
      BY <3>1, <3>2, FS_Subset DEF RoomFits, RoomIsKept
    <3>4. Cardinality(Waiting) \in Nat /\ Cardinality(K) \in Nat
      BY <3>1, <3>2, FS_Subset, FS_CardinalityType
    <3>5. Cardinality(Waiting) <= MaxKept
      <4> HIDE DEF Waiting, K
      <4>. QED  BY <3>3, <3>4, IsolationAssumption
    <3>. QED  BY <3>5
  <2>3. CASE Restart
    BY <1>2, <2>3, RestartIs
  <2>4. CASE Ends
    BY <2>2, <2>4 DEF Ends
  <2>5. ASSUME NEW s \in Session, EndsInside(s)
        PROVE  phase # "down" /\ \A x \in Session : disk'[x].saved = disk[x].saved
    <3>1. phase # "down"
      BY <2>5 DEF EndsInside, Idle
    <3>. QED  BY <2>5, <3>1, EndsInsideIs
  <2>6. PhaseMoves
    BY StepsOfPhase
  <2>. QED  BY <1>2, <2>1, <2>2, <2>3, <2>4, <2>5, <2>6 DEF PhaseMoves
<1>. QED  BY <1>1, <1>2 DEF RoomFits

-----------------------------------------------------------------------------
(* The theorems.                                                           *)

(* A service that has just started holds the invariant: there is nothing.  *)
LEMMA InitiallyInv ==
    ASSUME Init
    PROVE  IsolationInv
<1>1. /\ NoView \in Views /\ NoDir \in Dirs /\ NoFollow \in Follows
      /\ Resting("looking") \in Runs /\ Fit(Resting("looking"))
      /\ NoFollow.pc = "none" /\ NoDir.saved = None /\ Resting("looking").s = None
  BY IsolationAssumption DEF NoView, NoDir, NoFollow, Views, Statuses, Dirs, Follows, Resting, Runs, Fit
<1>2. Shapes
  <2>1. pending \in Seq(Tasks) /\ 1 \in 1 .. MaxStarts
    BY IsolationAssumption DEF Init
  <2>. QED  BY <1>1, <2>1 DEF Init, Shapes, PlainShapes, ContextShapes, WorkersFit
<1>3. \A s \in Session : /\ ~Creating(s) /\ ~Tasked(s) /\ ~Following(s) /\ s \notin open
                         /\ \A w \in Worker : worker[w].s # s /\ ~HandsOn(w, s)
  BY <1>1, IsolationAssumption DEF Init, Creating, Tasked, Following, HandsOn
<1>4. CarryFits
  BY <1>1, <1>3 DEF Init, CarryFits, OneTaskEach, OneAtMost, BusyIsCarried, FreshFits
<1>5. DownFits /\ NoTaskForgotten
  BY DEF Init, DownFits, NoTaskForgotten
<1>6. RoomFits
  <2>1. {s \in open : view[s].keep} \ stray = {} /\ {s \in open : ~view[s].keep} = {}
    BY DEF Init
  <2>2. Cardinality({s \in open : view[s].keep} \ stray) = 0 /\ Cardinality({s \in open : ~view[s].keep}) = 0
    BY <2>1, FS_EmptySet
  <2>. QED  BY <2>2, IsolationAssumption DEF Init, RoomFits, RoomIsKept
<1>7. KeptFits
  BY <1>1, <1>3 DEF Init, KeptFits, KeptOf, FilesOf, SavedOf, TextOf, RestOf, Following
<1>. QED  BY <1>2, <1>4, <1>5, <1>6, <1>7 DEF IsolationInv

(* The inductive invariant holds in every state of the service, whoever    *)
(* acts, whenever sessions are deleted and wherever a process ends.        *)
THEOREM IsolationInvariant == Spec => []IsolationInv
<1>1. Init => IsolationInv
  BY InitiallyInv
<1>2. IsolationInv /\ [Next]_vars => IsolationInv'
  <2> SUFFICES ASSUME IsolationInv, [Next]_vars
               PROVE  IsolationInv'
    OBVIOUS
  <2>0. Shapes /\ CarryFits /\ DownFits /\ NoTaskForgotten /\ RoomFits /\ KeptFits
    BY DEF IsolationInv
  <2>1. Shapes'
    BY <2>0, ShapesKept DEF CarryFits
  <2>2. CarryFits'
    BY <2>0, <2>1, CarryKept
  <2>3. DownFits'
    BY <2>0, DownKept
  <2>4. NoTaskForgotten'
    BY <2>0, LineKept
  <2>5. RoomFits'
    BY <2>0, <2>1, RoomKept
  <2>6. KeptFits'
    BY <2>0, <2>1, KeptStays
  <2>. QED  BY <2>1, <2>2, <2>3, <2>4, <2>5, <2>6 DEF IsolationInv
<1>. QED  BY <1>1, <1>2, PTL DEF Spec

(* Counting the carriers: none of a session at rest, one of a busy one.    *)
LEMMA CarriersCounted ==
    ASSUME Shapes, CarryFits
    PROVE  BusyHasOneCarrier
<1> SUFFICES ASSUME NEW s \in open
             PROVE  Cardinality(Carriers(s)) = IF Busy(view[s].status) THEN 1 ELSE 0
  BY DEF BusyHasOneCarrier
<1>0. s \in Session
  BY DEF Shapes, PlainShapes
<1>1. \A c : c \in Carriers(s) <=>
         \/ c = <<"create", s>> /\ Creating(s)
         \/ \E i \in 1 .. Len(pending) : c = <<"task", i>> /\ pending[i].s = s
         \/ \E w \in Worker : c = <<"run", w>> /\ HandsOn(w, s)
         \/ c = <<"follow", s>> /\ Following(s)
  BY DEF Carriers, Creating, HandsOn
<1>2. Busy(view[s].status) <=>
         Creating(s) \/ Tasked(s) \/ Following(s) \/ \E w \in Worker : HandsOn(w, s)
  BY DEF CarryFits, BusyIsCarried
<1>3. /\ Creating(s) => ~Tasked(s) /\ ~Following(s) /\ \A w \in Worker : ~HandsOn(w, s)
      /\ Tasked(s) => ~Following(s) /\ \A w \in Worker : ~HandsOn(w, s)
      /\ \A w \in Worker : HandsOn(w, s) =>
            ~Following(s) /\ \A x \in Worker : HandsOn(x, s) => x = w
  BY <1>0 DEF CarryFits, OneAtMost, HandsOn
<1>4. CASE ~Busy(view[s].status)
  <2>1. Carriers(s) = {}
    BY <1>1, <1>2, <1>4 DEF Tasked
  <2>. QED  BY <1>4, <2>1, FS_EmptySet
<1>5. CASE Busy(view[s].status)
  <2>1. \E c : Carriers(s) = {c}
    <3>1. CASE Creating(s)
      <4>1. Carriers(s) = {<<"create", s>>}
        BY <1>1, <1>3, <3>1 DEF Tasked
      <4>. QED  BY <4>1
    <3>2. CASE Tasked(s)
      <4>1. PICK i \in 1 .. Len(pending) : pending[i].s = s
        BY <3>2 DEF Tasked
      <4>2. \A k \in 1 .. Len(pending) : pending[k].s = s => k = i
        BY <4>1 DEF CarryFits, OneTaskEach
      <4>3. Carriers(s) = {<<"task", i>>}
        BY <1>1, <1>3, <3>2, <4>1, <4>2
      <4>. QED  BY <4>3
    <3>3. CASE \E w \in Worker : HandsOn(w, s)
      <4>1. PICK w \in Worker : HandsOn(w, s)
        BY <3>3
      <4>2. ~Creating(s) /\ ~Tasked(s) /\ ~Following(s)
        BY <1>3, <4>1
      <4>3. Carriers(s) = {<<"run", w>>}
        BY <1>1, <1>3, <4>1, <4>2 DEF Tasked
      <4>. QED  BY <4>3
    <3>4. CASE Following(s)
      <4>1. Carriers(s) = {<<"follow", s>>}
        BY <1>1, <1>3, <3>4 DEF Tasked
      <4>. QED  BY <4>1
    <3>. QED  BY <1>2, <1>5, <3>1, <3>2, <3>3, <3>4
  <2>. QED  BY <1>5, <2>1, FS_Singleton
<1>. QED  BY <1>4, <1>5

(* The types of the run's invariant.                                       *)
LEMMA TypesAreRight ==
    ASSUME Shapes
    PROVE  TypeOK
<1>1. \A i \in 1 .. Len(pending) : pending[i] \in Tasks
  BY DEF Shapes, PlainShapes
<1>2. \A w \in Worker : worker[w] \in Runs /\ Fit(worker[w])
  BY DEF Shapes, WorkersFit
<1>3. \A w \in Worker :
         /\ worker[w].todo \subseteq Voice
         /\ (Running(w) \/ worker[w].pc = "taken") => worker[w].s \in Session
         /\ worker[w].pc = "written" <=> worker[w].made \in Voice
  BY <1>2 DEF Runs, Fit, Running
<1>4. \A s \in Session :
         /\ follow[s].todo \subseteq Voice /\ follow[s].jobs \subseteq Job
         /\ disk[s].saved \in Views \cup {None} /\ disk[s].tracks \subseteq Voice
  BY DEF Shapes, Follows, Dirs
<1>. QED  BY <1>1, <1>3, <1>4 DEF TypeOK, Shapes, PlainShapes, ContextShapes, Tasks, Kinds

(* In every state each busy isolation is the work of exactly one activity, *)
(* no task waits for a worker that sleeps, and kept and passing isolations *)
(* keep to their limits: startLocked, enqueue, next, run, followJobs,      *)
(* dropLocked, roomLocked and restore taken together, whatever of saves,   *)
(* removals and restores fails; but what came back after such a failure is *)
(* not counted among the kept.                                             *)
THEOREM IsolationWorkIsHeld == Spec => []WorkIsHeld
<1>1. IsolationInv => WorkIsHeld
  BY CarriersCounted, TypesAreRight DEF IsolationInv, RoomFits, WorkIsHeld
<1>. QED  BY <1>1, IsolationInvariant, PTL

(* In every state the tracks and recordings that are offered are on the    *)
(* disk, a transcript shown as current is current, only kept isolations    *)
(* have a state file, and that of one at rest restores to what is shown:   *)
(* saveLocked in every section that changes a view, against restore.  A    *)
(* failed save excepts its session from the last, a failed removal or      *)
(* restore its session from the one before; nothing else is excepted but   *)
(* a recording and a transcript that such a failure took.                  *)
THEOREM IsolationShownIsKept == Spec => []ShownIsKept
<1>1. ASSUME IsolationInv
      PROVE  ShownIsKept
  <2>1. /\ open \subseteq Session
        /\ \A s \in Session : FilesOf(s) /\ SavedOf(s) /\ TextOf(s) /\ RestOf(s)
    BY <1>1 DEF IsolationInv, Shapes, PlainShapes, KeptFits, KeptOf
  <2>2. ServedFilesExist
    BY <2>1 DEF FilesOf, ServedFilesExist
  <2>3. OnlyKeptComesBack
    BY <2>1 DEF SavedOf, OnlyKeptComesBack
  <2>4. RestartChangesNothing
    BY <2>1 DEF RestOf, RestartChangesNothing
  <2>5. TranscriptIsCurrent
    BY <2>1 DEF TextOf, TranscriptIsCurrent
  <2>. QED  BY <2>2, <2>3, <2>4, <2>5 DEF ShownIsKept
<1>. QED  BY <1>1, IsolationInvariant, PTL

=============================================================================
