--------------------------- MODULE ServiceProofs ---------------------------
(***************************************************************************)
(* Theorems about the smaller machines, each on its own.                   *)
(*                                                                         *)
(* A realtime session, however much its client says, how often it commits  *)
(* and clears, and whatever the room for audio and events and the rounds   *)
(* of a tick are: its words are reported in order and once, none is lost   *)
(* but with the session, and a commit is answered by everything that was   *)
(* appended before it.                                                     *)
(*                                                                         *)
(* The rate limiter, at any rate and for as long as one likes; start-up    *)
(* and shutdown, for every configuration; the events of a job, however its *)
(* watchers lag, leave and come back; the runs of the pipeline, however    *)
(* many share the slots and wherever they fail; a connection of the        *)
(* realtime API, however its client cuts the audio into frames and however *)
(* late its pongs are; and the Windows service, whatever operators         *)
(* command.                                                                *)
(***************************************************************************)
EXTENDS RealtimeSession, RealtimeWire, RateLimiter, Lifecycle, EventHub, PipelineRun,
        WindowsService, FiniteSetTheorems, WellFoundedInduction, TLAPS

-----------------------------------------------------------------------------
(* Sequences of pieces.                                                    *)

Piece == Nat \ {Silence}

Ordered(s) ==
    \A i, j \in 1 .. Len(s) : i < j /\ s[i] # Silence /\ s[j] # Silence => s[i] < s[j]

Before(s, t) ==
    \A i \in 1 .. Len(s), j \in 1 .. Len(t) :
        s[i] # Silence /\ t[j] # Silence => s[i] < t[j]

UpTo(s, n) == \A i \in 1 .. Len(s) : s[i] <= n
Beyond(s, n) == \A i \in 1 .. Len(s) : s[i] > n

(* What a concatenation has at each place.                                 *)
LEMMA ConcatParts ==
    ASSUME NEW s \in Seq(Nat), NEW t \in Seq(Nat)
    PROVE  /\ s \o t \in Seq(Nat) /\ Len(s \o t) = Len(s) + Len(t)
           /\ \A i \in 1 .. Len(s) : (s \o t)[i] = s[i]
           /\ \A j \in 1 .. Len(t) : (s \o t)[Len(s) + j] = t[j]
           /\ \A k \in 1 .. Len(s \o t) :
                 k \in 1 .. Len(s) \/ \E j \in 1 .. Len(t) : k = Len(s) + j
<1>1. s \o t \in Seq(Nat) /\ Len(s \o t) = Len(s) + Len(t)
  OBVIOUS
<1>2. \A i \in 1 .. Len(s) : (s \o t)[i] = s[i]
  OBVIOUS
<1>3. \A j \in 1 .. Len(t) : (s \o t)[Len(s) + j] = t[j]
  OBVIOUS
<1>4. ASSUME NEW k \in 1 .. Len(s \o t), k \notin 1 .. Len(s)
      PROVE  \E j \in 1 .. Len(t) : k = Len(s) + j
  <2>1. k - Len(s) \in 1 .. Len(t) /\ k = Len(s) + (k - Len(s))
    BY <1>1, <1>4
  <2>. QED  BY <2>1
<1>. QED  BY <1>1, <1>2, <1>3, <1>4

(* A concatenation is in order if its parts are and the first comes before *)
(* the second.                                                             *)
LEMMA ConcatOrdered ==
    ASSUME NEW s \in Seq(Nat), NEW t \in Seq(Nat)
    PROVE  Ordered(s \o t) <=> Ordered(s) /\ Ordered(t) /\ Before(s, t)
<1> DEFINE u == s \o t
<1>1. /\ u \in Seq(Nat) /\ Len(u) = Len(s) + Len(t)
      /\ \A i \in 1 .. Len(s) : u[i] = s[i]
      /\ \A j \in 1 .. Len(t) : u[Len(s) + j] = t[j]
      /\ \A k \in 1 .. Len(u) : k \in 1 .. Len(s) \/ \E j \in 1 .. Len(t) : k = Len(s) + j
  BY ConcatParts
<1>2. Len(s) \in Nat /\ Len(t) \in Nat
  OBVIOUS
<1> HIDE DEF u
<1>3. ASSUME Ordered(u) PROVE Ordered(s) /\ Ordered(t) /\ Before(s, t)
  <2>1. \A i \in 1 .. Len(s) : i \in 1 .. Len(u)
    BY <1>1, <1>2
  <2>2. \A j \in 1 .. Len(t) : Len(s) + j \in 1 .. Len(u)
    BY <1>1, <1>2
  <2>3. Ordered(s)
    BY <1>1, <1>3, <2>1 DEF Ordered
  <2>4. Ordered(t)
    <3> SUFFICES ASSUME NEW i \in 1 .. Len(t), NEW j \in 1 .. Len(t), i < j,
                        t[i] # Silence, t[j] # Silence
                 PROVE  t[i] < t[j]
      BY DEF Ordered
    <3>1. Len(s) + i < Len(s) + j
      BY <1>2
    <3>. QED  BY <1>1, <1>3, <2>2, <3>1 DEF Ordered
  <2>5. Before(s, t)
    <3> SUFFICES ASSUME NEW i \in 1 .. Len(s), NEW j \in 1 .. Len(t),
                        s[i] # Silence, t[j] # Silence
                 PROVE  s[i] < t[j]
      BY DEF Before
    <3>1. i < Len(s) + j
      BY <1>2
    <3>. QED  BY <1>1, <1>3, <2>1, <2>2, <3>1 DEF Ordered
  <2>. QED  BY <2>3, <2>4, <2>5
<1>4. ASSUME Ordered(s), Ordered(t), Before(s, t) PROVE Ordered(u)
  <2> SUFFICES ASSUME NEW i \in 1 .. Len(u), NEW j \in 1 .. Len(u), i < j,
                      u[i] # Silence, u[j] # Silence
               PROVE  u[i] < u[j]
    BY DEF Ordered
  <2>1. CASE i \in 1 .. Len(s) /\ j \in 1 .. Len(s)
    BY <1>1, <1>4, <2>1 DEF Ordered
  <2>2. CASE i \in 1 .. Len(s) /\ j \notin 1 .. Len(s)
    <3> PICK b \in 1 .. Len(t) : j = Len(s) + b
      BY <1>1, <2>2
    <3>. QED  BY <1>1, <1>4, <2>2 DEF Before
  <2>3. CASE i \notin 1 .. Len(s)
    <3>1. PICK a \in 1 .. Len(t) : i = Len(s) + a
      BY <1>1, <2>3
    <3>2. j \notin 1 .. Len(s)
      BY <1>2, <3>1
    <3>3. PICK b \in 1 .. Len(t) : j = Len(s) + b
      BY <1>1, <3>2
    <3>4. a < b
      BY <1>2, <3>1, <3>3
    <3>. QED  BY <1>1, <1>4, <3>1, <3>3, <3>4 DEF Ordered
  <2>. QED  BY <2>1, <2>2, <2>3
<1>. QED  BY <1>3, <1>4 DEF u

(* The relations distribute over concatenation.                            *)
LEMMA ConcatBefore ==
    ASSUME NEW s \in Seq(Nat), NEW t \in Seq(Nat), NEW r \in Seq(Nat), NEW n \in Nat
    PROVE  /\ Before(s \o t, r) <=> Before(s, r) /\ Before(t, r)
           /\ Before(r, s \o t) <=> Before(r, s) /\ Before(r, t)
           /\ UpTo(s \o t, n) <=> UpTo(s, n) /\ UpTo(t, n)
<1> DEFINE u == s \o t
<1>1. /\ u \in Seq(Nat) /\ Len(u) = Len(s) + Len(t)
      /\ \A i \in 1 .. Len(s) : u[i] = s[i]
      /\ \A j \in 1 .. Len(t) : u[Len(s) + j] = t[j]
      /\ \A k \in 1 .. Len(u) : k \in 1 .. Len(s) \/ \E j \in 1 .. Len(t) : k = Len(s) + j
  BY ConcatParts
<1> HIDE DEF u
<1>2. /\ \A i \in 1 .. Len(s) : i \in 1 .. Len(u)
      /\ \A j \in 1 .. Len(t) : Len(s) + j \in 1 .. Len(u)
  <2>1. Len(s) \in Nat /\ Len(t) \in Nat
    OBVIOUS
  <2>. QED  BY <1>1, <2>1
<1>3. Before(u, r) <=> Before(s, r) /\ Before(t, r)
  BY <1>1, <1>2 DEF Before
<1>4. Before(r, u) <=> Before(r, s) /\ Before(r, t)
  BY <1>1, <1>2 DEF Before
<1>5. UpTo(u, n) <=> UpTo(s, n) /\ UpTo(t, n)
  BY <1>1, <1>2 DEF UpTo
<1>. QED  BY <1>3, <1>4, <1>5 DEF u

-----------------------------------------------------------------------------
(* The way of the words: what was reported, then what is heard, then what  *)
(* the recogniser holds, then what waits, of n pieces in all.              *)

Line(f, h, s, p, n) ==
    /\ f \in Seq(Nat) /\ h \in Seq(Nat) /\ s \in Seq(Nat) /\ p \in Seq(Nat) /\ n \in Nat
    /\ Ordered(f) /\ Ordered(h) /\ Ordered(s) /\ Ordered(p)
    /\ Before(f, h) /\ Before(f, s) /\ Before(f, p)
    /\ Before(h, s) /\ Before(h, p) /\ Before(s, p)
    /\ UpTo(f, n) /\ UpTo(h, n) /\ UpTo(s, n) /\ UpTo(p, n)

(* Nothing is in order, and so is one piece; silence comes before all.     *)
LEMMA ShortOrdered ==
    ASSUME NEW s \in Seq(Nat), NEW x \in Nat, NEW n \in Nat
    PROVE  /\ Ordered(<<>>) /\ Before(<<>>, s) /\ Before(s, <<>>) /\ UpTo(<<>>, n)
           /\ Ordered(<<x>>) /\ (x <= n => UpTo(<<x>>, n))
           /\ Before(<<Silence>>, s) /\ Before(s, <<Silence>>)
           /\ UpTo(s, n) => Before(s, <<n + 1>>) /\ UpTo(s, n + 1)
<1>1. Ordered(<<>>) /\ Before(<<>>, s) /\ Before(s, <<>>) /\ UpTo(<<>>, n)
  BY DEF Ordered, Before, UpTo
<1>2. Len(<<x>>) = 1 /\ <<x>>[1] = x
  OBVIOUS
<1>3. Ordered(<<x>>) /\ (x <= n => UpTo(<<x>>, n))
  BY <1>2 DEF Ordered, UpTo
<1>4. Before(<<Silence>>, s) /\ Before(s, <<Silence>>)
  BY DEF Before, Silence
<1>5. ASSUME UpTo(s, n) PROVE Before(s, <<n + 1>>) /\ UpTo(s, n + 1)
  <2>1. \A i \in 1 .. Len(s) : s[i] \in Nat /\ s[i] <= n
    BY <1>5 DEF UpTo
  <2>. QED  BY <2>1 DEF Before, UpTo
<1>. QED  BY <1>1, <1>3, <1>4, <1>5

(* Append adds the piece with the next number.                             *)
LEMMA LineAppends ==
    ASSUME NEW f, NEW h, NEW s, NEW p, NEW n, Line(f, h, s, p, n)
    PROVE  Line(f, h, s, Append(p, n + 1), n + 1)
<1>1. p \in Seq(Nat) /\ n \in Nat /\ n + 1 \in Nat
  BY DEF Line
<1> DEFINE q == <<n + 1>>
<1>2. Append(p, n + 1) = p \o q /\ q \in Seq(Nat)
  BY <1>1
<1>3. /\ Ordered(q) /\ UpTo(q, n + 1)
      /\ \A r \in {f, h, s, p} : Before(r, q) /\ UpTo(r, n + 1)
  <2>1. /\ f \in Seq(Nat) /\ h \in Seq(Nat) /\ s \in Seq(Nat)
        /\ UpTo(f, n) /\ UpTo(h, n) /\ UpTo(s, n) /\ UpTo(p, n)
    BY DEF Line
  <2>2. \A r \in {f, h, s, p} : Before(r, q) /\ UpTo(r, n + 1)
    BY <1>1, <2>1, ShortOrdered
  <2>3. Ordered(q)
    BY <1>1, ShortOrdered
  <2>4. UpTo(q, n + 1)
    BY <1>1 DEF UpTo
  <2>. QED  BY <2>2, <2>3, <2>4
<1>4. q \in Seq(Nat) /\ p \o q \in Seq(Nat)
  BY <1>1, <1>2
<1> HIDE DEF q
<1>5. /\ Ordered(p \o q) /\ UpTo(p \o q, n + 1)
      /\ \A r \in {f, h, s} : Before(r, p \o q)
  BY <1>1, <1>3, <1>4, ConcatOrdered, ConcatBefore DEF Line
<1>6. Line(f, h, s, p \o q, n + 1)
  BY <1>1, <1>3, <1>4, <1>5 DEF Line
<1>. QED  BY <1>2, <1>6 DEF q

(* Clear drops what waits, and the loop what is heard.                     *)
LEMMA LineClears ==
    ASSUME NEW f, NEW h, NEW s, NEW p, NEW n, Line(f, h, s, p, n)
    PROVE  Line(f, h, s, <<>>, n) /\ Line(f, <<>>, s, p, n)
<1>1. <<>> \in Seq(Nat)
  OBVIOUS
<1>. QED  BY <1>1, ShortOrdered DEF Line

(* feed.                                                                   *)
LEMMA LineFeeds ==
    ASSUME NEW f, NEW h, NEW s, NEW p, NEW n, Line(f, h, s, p, n)
    PROVE  Line(f, h, s \o p, <<>>, n)
<1>1. <<>> \in Seq(Nat) /\ s \o p \in Seq(Nat)
  BY DEF Line
<1>2. /\ Ordered(s \o p) /\ UpTo(s \o p, n)
      /\ Before(f, s \o p) /\ Before(h, s \o p)
  BY ConcatOrdered, ConcatBefore DEF Line
<1>. QED  BY <1>1, <1>2, ShortOrdered DEF Line

(* A piece that is decoded is heard, unless it is silence.                 *)
LEMMA LineHears ==
    ASSUME NEW f, NEW h, NEW s, NEW p, NEW n, Line(f, h, s, p, n), s # <<>>
    PROVE  Line(f, IF Head(s) = Silence THEN h ELSE Append(h, Head(s)), Tail(s), p, n)
<1> DEFINE x == <<Head(s)>>
           t == Tail(s)
<1>1. s = x \o t /\ x \in Seq(Nat) /\ t \in Seq(Nat)
  BY DEF Line
<1>2. Append(h, Head(s)) = h \o x /\ h \o x \in Seq(Nat)
  BY <1>1 DEF Line
<1> HIDE DEF x, t
<1>3. /\ Ordered(x) /\ Ordered(t) /\ Before(x, t) /\ UpTo(x, n) /\ UpTo(t, n)
      /\ Before(f, x) /\ Before(h, x) /\ Before(f, t) /\ Before(h, t)
      /\ Before(x, p) /\ Before(t, p)
  BY <1>1, ConcatOrdered, ConcatBefore DEF Line
<1>4. /\ Ordered(h \o x) /\ UpTo(h \o x, n) /\ Before(f, h \o x)
      /\ Before(h \o x, t) /\ Before(h \o x, p)
  BY <1>1, <1>3, ConcatOrdered, ConcatBefore DEF Line
<1>5. Line(f, h, t, p, n) /\ Line(f, h \o x, t, p, n)
  BY <1>1, <1>2, <1>3, <1>4 DEF Line
<1>. QED  BY <1>2, <1>5 DEF t

(* What is heard becomes part of the report.                               *)
LEMMA LineEnds ==
    ASSUME NEW f, NEW h, NEW s, NEW p, NEW n, Line(f, h, s, p, n)
    PROVE  Line(f \o h, <<>>, s, p, n)
<1>1. <<>> \in Seq(Nat) /\ f \o h \in Seq(Nat)
  BY DEF Line
<1>2. /\ Ordered(f \o h) /\ UpTo(f \o h, n)
      /\ Before(f \o h, s) /\ Before(f \o h, p)
  BY ConcatOrdered, ConcatBefore DEF Line
<1>. QED  BY <1>1, <1>2, ShortOrdered DEF Line

(* The answer of a commit: what is heard and the tail are reported, and    *)
(* the recogniser is left with silence.                                    *)
LEMMA LineAnswers ==
    ASSUME NEW f, NEW h, NEW s, NEW p, NEW n, Line(f, h, s, p, n)
    PROVE  Line(f \o h \o Words(s), <<>>, <<Silence>>, p, n)
<1>1. Line(f \o h, <<>>, s, p, n)
  BY LineEnds
<1> DEFINE g == f \o h
<1> HIDE DEF g
<1>2. Line(g, s, <<>>, p, n) /\ Line(g, <<>>, <<>>, p, n)
  <2>1. <<>> \in Seq(Nat)
    OBVIOUS
  <2>. QED  BY <1>1, <2>1, ShortOrdered DEF Line, g
<1>3. Line(g, Words(s), <<>>, p, n)
  BY <1>2 DEF Words
<1>4. Line(g \o Words(s), <<>>, <<>>, p, n)
  BY <1>3, LineEnds
<1>5. Line(g \o Words(s), <<>>, <<Silence>>, p, n)
  <2>1. <<Silence>> \in Seq(Nat) /\ Silence <= n /\ Silence \in Nat
    BY <1>4 DEF Line, Silence
  <2>. QED  BY <1>4, <2>1, ShortOrdered DEF Line
<1>. QED  BY <1>5 DEF g

(* Then all of it is in order.                                             *)
LEMMA LineIsOrdered ==
    ASSUME NEW f, NEW h, NEW s, NEW p, NEW n, Line(f, h, s, p, n)
    PROVE  Ordered(f \o h \o s \o p)
<1>1. /\ Line(f \o h, <<>>, s, p, n)
      /\ f \o h \in Seq(Nat) /\ s \in Seq(Nat) /\ p \in Seq(Nat)
  <2>1. f \in Seq(Nat) /\ h \in Seq(Nat) /\ s \in Seq(Nat) /\ p \in Seq(Nat)
    BY DEF Line
  <2>. QED  BY <2>1, LineEnds
<1> DEFINE g == f \o h
<1>2. Ordered(g \o s) /\ Before(g \o s, p) /\ g \o s \in Seq(Nat)
  <2> HIDE DEF g
  <2>1. Line(g, <<>>, s, p, n)
    BY <1>1 DEF g
  <2>. QED  BY <2>1, ConcatOrdered, ConcatBefore DEF Line
<1>. QED  BY <1>1, <1>2, ConcatOrdered DEF Line

-----------------------------------------------------------------------------
(* The inductive invariant.                                                *)

RtTypeOK ==
    /\ commit \in BOOLEAN /\ committing \in BOOLEAN /\ failed \in BOOLEAN /\ lost \in BOOLEAN
    /\ promised \in Nat /\ wanted \in Nat

(* An event that could not be delivered is remembered until the check at   *)
(* the end of the step, which ends the session for it.                     *)
LossFits ==
    /\ lost => failed
    /\ failed => lpc # "waiting"

(* A commit that the loop works on was of audio already appended, and once *)
(* the loop has fed the recogniser again, what waits came after it.        *)
CommitFits ==
    /\ wanted <= said /\ promised <= said
    /\ committing /\ lpc # "refeed" => Beyond(pending, promised)

RtInv == RtTypeOK /\ Line(finals, heard, stream, pending, said) /\ LossFits /\ CommitFits

(* A new session has heard nothing.                                        *)
LEMMA RtInvInit == RtInit => RtInv
<1> SUFFICES ASSUME RtInit PROVE RtInv
  OBVIOUS
<1>1. Line(<<>>, <<>>, <<>>, <<>>, 0)
  <2>1. <<>> \in Seq(Nat) /\ 0 \in Nat
    OBVIOUS
  <2>. QED  BY <2>1, ShortOrdered DEF Line
<1>2. Line(finals, heard, stream, pending, said)
  BY <1>1, Zenon DEF RtInit
<1>3. RtTypeOK /\ LossFits /\ CommitFits
  <2>1. /\ promised = 0 /\ wanted = 0 /\ said = 0
        /\ commit = FALSE /\ committing = FALSE /\ failed = FALSE /\ lost = FALSE
    BY Zenon DEF RtInit
  <2>2. RtTypeOK
    BY <2>1 DEF RtTypeOK
  <2>3. LossFits
    BY <2>1 DEF LossFits
  <2>4. wanted <= said /\ promised <= said
    BY <2>1
  <2>5. CommitFits
    BY <2>1, <2>4, Zenon DEF CommitFits
  <2>. QED  BY <2>2, <2>3, <2>5
<1>. QED  BY <1>2, <1>3 DEF RtInv

(* emit marks the session when something but a partial event does not fit. *)
LEMMA EmittedMarks ==
    ASSUME NEW es, Emitted(es), failed \in BOOLEAN, lost \in BOOLEAN, lost => failed
    PROVE  failed' \in BOOLEAN /\ lost' \in BOOLEAN /\ (lost' => failed') /\ (failed => failed')
BY DEF Emitted

(* The client appends at the end, commits to what is there, and clears     *)
(* what waits and the commit nobody works on.                              *)
LEMMA ClientKeepsInv ==
    ASSUME RtInv, AppendAudio \/ SessionCommit \/ SessionClear \/ ReadEvent \/ Hangup
    PROVE  RtInv'
<1> USE DEF RtInv, clientvars, sharedvars, loopvars
<1>1. said \in Nat /\ pending \in Seq(Nat)
  BY DEF Line
<1>2. CASE AppendAudio
  <2>1. Line(finals, heard, stream, Append(pending, said + 1), said + 1)
    BY LineAppends
  <2>2. committing /\ lpc # "refeed" => Beyond(Append(pending, said + 1), promised)
    BY <1>1 DEF RtTypeOK, CommitFits, Beyond
  <2>. QED  BY <1>1, <1>2, <2>1, <2>2 DEF AppendAudio, RtTypeOK, LossFits, CommitFits
<1>3. CASE SessionCommit
  BY <1>1, <1>3 DEF SessionCommit, RtTypeOK, LossFits, CommitFits
<1>4. CASE SessionClear
  <2>1. Line(finals, heard, stream, <<>>, said)
    BY LineClears
  <2>2. Beyond(<<>>, promised)
    BY DEF Beyond
  <2>3. Line(finals', heard', stream', pending', said')
    BY <1>4, <2>1, Zenon DEF SessionClear
  <2>4. committing' /\ lpc' # "refeed" => Beyond(pending', promised')
    BY <1>4, <2>2, Zenon DEF SessionClear
  <2>5. /\ said' = said /\ wanted' = 0 /\ promised' = promised
        /\ commit' = FALSE /\ committing' = committing
        /\ failed' = failed /\ lost' = lost /\ lpc' = lpc
    BY <1>4, Zenon DEF SessionClear
  <2>6. RtTypeOK'
    BY <2>5 DEF RtTypeOK
  <2>7. LossFits'
    BY <2>5 DEF LossFits
  <2>8. wanted' <= said' /\ promised' <= said'
    BY <1>1, <2>5 DEF CommitFits
  <2>9. CommitFits'
    BY <2>4, <2>8, Zenon DEF CommitFits
  <2>. QED  BY <2>3, <2>6, <2>7, <2>9
<1>5. CASE ReadEvent \/ Hangup
  BY <1>5 DEF ReadEvent, Hangup, RtTypeOK, LossFits, CommitFits
<1>. QED  BY <1>2, <1>3, <1>4, <1>5

(* A round of decoding, wherever the loop is in its step.                  *)
LEMMA ObservesKeepsLine ==
    ASSUME RtInv, Observes, stream # <<>>
    PROVE  /\ Line(finals', heard', stream', pending, said)
           /\ failed' \in BOOLEAN /\ lost' \in BOOLEAN /\ (lost' => failed')
<1>1. Line(finals, Decoded, Tail(stream), pending, said)
  BY LineHears DEF RtInv, Decoded
<1>2. Line(finals \o Decoded, <<>>, Tail(stream), pending, said)
  BY <1>1, LineEnds
<1> DEFINE starts == IF Decoded # <<>> /\ ~spoke THEN <<"started">> ELSE <<>>
<1>3. PICK partial \in {<<>>, <<"partial">>}, endpoint \in BOOLEAN :
        /\ stream' = Tail(stream)
        /\ IF endpoint
           THEN /\ Emitted(starts \o partial \o IF Decoded = <<>> THEN <<>> ELSE <<"stopped", "final">>)
                /\ finals' = IF Decoded = <<>> THEN finals ELSE finals \o Decoded
                /\ NextItem
           ELSE /\ Emitted(starts \o partial) /\ heard' = Decoded
                /\ UNCHANGED finals
  BY DEF Observes
<1>4. \E es : Emitted(es)
  BY <1>3
<1>5. failed' \in BOOLEAN /\ lost' \in BOOLEAN /\ (lost' => failed')
  BY <1>4, EmittedMarks DEF RtInv, RtTypeOK, LossFits
<1>6. CASE endpoint /\ Decoded = <<>>
  BY <1>1, <1>3, <1>5, <1>6 DEF NextItem
<1>7. CASE endpoint /\ Decoded # <<>>
  BY <1>2, <1>3, <1>5, <1>7 DEF NextItem
<1>8. CASE ~endpoint
  BY <1>1, <1>3, <1>5, <1>8
<1>. QED  BY <1>6, <1>7, <1>8

(* The loop's step.                                                        *)
LEMMA StepKeepsInv ==
    ASSUME RtInv, LoopStep
    PROVE  RtInv'
<1> USE DEF RtInv, clientvars, sharedvars, loopvars
<1>1. CASE StepClears
  <2>1. Line(finals, <<>>, stream, pending, said)
    BY LineClears
  <2>2. failed' \in BOOLEAN /\ lost' \in BOOLEAN /\ (lost' => failed')
    BY <1>1, EmittedMarks DEF StepClears, RtTypeOK, LossFits
  <2>3. heard' \in {heard, <<>>}
    BY <1>1 DEF StepClears, NextItem
  <2>. QED  BY <1>1, <2>1, <2>2, <2>3 DEF StepClears, RtTypeOK, LossFits, CommitFits
<1>2. CASE StepFeeds \/ StepRefeeds
  <2>1. Line(finals, heard, stream \o pending, <<>>, said)
    BY LineFeeds
  <2>2. Beyond(<<>>, promised)
    BY DEF Beyond
  <2>3. Line(finals', heard', stream', pending', said')
    BY <1>2, <2>1, Zenon DEF StepFeeds, StepRefeeds, Feeds
  <2>4. Beyond(pending', promised')
    BY <1>2, <2>2, Zenon DEF StepFeeds, StepRefeeds, Feeds
  <2>. QED  BY <1>2, <2>3, <2>4 DEF StepFeeds, StepRefeeds, RtTypeOK, LossFits, CommitFits
<1>3. CASE StepDecodes \/ StepDrains
  <2>1. stream # <<>>
    BY <1>3 DEF StepDecodes, StepDrains, StreamReady
  <2>. QED
    BY <1>3, <2>1, ObservesKeepsLine DEF StepDecodes, StepDrains, RtTypeOK, LossFits, CommitFits
<1>4. CASE StepDecoded \/ StepPostpones
  BY <1>4 DEF StepDecoded, StepPostpones, RtTypeOK, LossFits, CommitFits
<1>5. CASE StepTakesCommit
  BY <1>5 DEF StepTakesCommit, TakesCommit, RtTypeOK, LossFits, CommitFits
<1>6. CASE StepAnswers
  <2>1. Line(finals \o heard \o Words(stream), <<>>, <<Silence>>, pending, said)
    BY LineAnswers
  <2>2. failed' \in BOOLEAN /\ lost' \in BOOLEAN /\ (lost' => failed')
    BY <1>6, EmittedMarks DEF StepAnswers, RtTypeOK, LossFits
  <2>. QED  BY <1>6, <2>1, <2>2 DEF StepAnswers, NextItem, RtTypeOK, LossFits, CommitFits
<1>7. CASE StepEnds
  BY <1>7 DEF StepEnds, RtTypeOK, LossFits, CommitFits
<1>. QED  BY <1>1, <1>2, <1>3, <1>4, <1>5, <1>6, <1>7 DEF LoopStep

(* Every step of the session keeps the invariant.                          *)
LEMMA RtInvStep == RtInv /\ [RtNext]_rtvars => RtInv'
<1> SUFFICES ASSUME RtInv, [RtNext]_rtvars PROVE RtInv'
  OBVIOUS
<1>1. CASE SessionTeardown
  <2>1. failed' \in BOOLEAN /\ lost' \in BOOLEAN /\ (lost' => failed')
    BY <1>1, EmittedMarks DEF SessionTeardown, RtInv, RtTypeOK, LossFits
  <2>. QED
    BY <1>1, <2>1 DEF SessionTeardown, clientvars, RtInv, RtTypeOK, LossFits, CommitFits
<1>2. CASE UNCHANGED rtvars
  BY <1>2 DEF rtvars, clientvars, sharedvars, loopvars, RtInv, RtTypeOK, LossFits, CommitFits
<1>. QED  BY <1>1, <1>2, ClientKeepsInv, StepKeepsInv DEF RtNext

-----------------------------------------------------------------------------
(* The theorems.                                                           *)

(* Every behaviour keeps the inductive invariant.                          *)
THEOREM RealtimeInvariant == RtSpec => []RtInv
BY RtInvInit, RtInvStep, PTL DEF RtSpec

(* session.go 19 and 220-236: what was reported, what is heard, what the   *)
(* recogniser holds and what waits are pieces in the order they were sent, *)
(* none twice, and a final event that could not be delivered ends the      *)
(* session.                                                                *)
THEOREM RealtimeWordsArrive == RtSpec => []WordsArrive
<1>1. RtInv => WordsArrive
  <2> SUFFICES ASSUME RtInv PROVE WordsArrive
    OBVIOUS
  <2>1. Ordered(finals \o heard \o stream \o pending)
    BY LineIsOrdered DEF RtInv
  <2>2. WordsInOrderOnce
    BY <2>1 DEF WordsInOrderOnce, Ordered
  <2>. QED  BY <2>2 DEF WordsArrive, LostMeansClosed, RtInv, LossFits
<1>. QED  BY <1>1, RealtimeInvariant, PTL

(* realtime.go:329: when a commit is answered, nothing that was appended   *)
(* before it is still with the recogniser or on its way there, through     *)
(* commits and clears that arrive while the loop works on another.         *)
THEOREM RealtimeCommitIsWhole == RtSpec => CommitIsWhole
<1> DEFINE Whole == committing /\ ~committing' =>
                      \A w \in Range(stream') \cup Range(pending') : w = Silence \/ w > promised
<1>1. ASSUME RtInv, [RtNext]_rtvars, committing, ~committing' PROVE Whole
  <2>1. StepAnswers
    BY <1>1 DEF RtNext, LoopStep, AppendAudio, SessionCommit, SessionClear, ReadEvent, Hangup,
       SessionTeardown, StepClears, StepFeeds, StepDecodes, StepDecoded, StepTakesCommit, TakesCommit,
       StepRefeeds, StepDrains, StepPostpones, StepEnds, rtvars, clientvars, sharedvars, loopvars
  <2>2. stream' = <<Silence>> /\ pending' = pending /\ lpc = "drain"
    BY <2>1 DEF StepAnswers, sharedvars
  <2>3. \A w \in Range(<<Silence>>) : w = Silence
    BY DEF Range
  <2>4. pending \in Seq(Nat) /\ Beyond(pending, promised)
    BY <1>1, <2>2 DEF RtInv, Line, CommitFits
  <2>5. \A w \in Range(pending) : w > promised
    BY <2>4 DEF Range, Beyond
  <2>. QED  BY <2>2, <2>3, <2>5
<1>2. RtInv /\ [RtNext]_rtvars => [Whole]_rtvars
  BY <1>1
<1>. QED  BY <1>2, RealtimeInvariant, PTL DEF RtSpec, CommitIsWhole

-----------------------------------------------------------------------------
(* The rate limiter.                                                       *)

(* math.Ceil: the least number of parts that is enough.                    *)
LEMMA CeilIs ==
    ASSUME NEW a \in Nat, NEW b \in Nat \ {0}
    PROVE  Ceil(a, b) \in Nat /\ Ceil(a, b) * b >= a /\ (Ceil(a, b) - 1) * b < a
<1> DEFINE x == a + b - 1
           q == x \div b
<1>1. x \in Nat /\ q \in Nat
  OBVIOUS
<1>2. q * b <= x /\ x < q * b + b
  OBVIOUS
<1>3. (q - 1) * b = q * b - b
  BY <1>1
<1> HIDE DEF q
<1>4. q * b \in Int
  BY <1>1
<1>5. q * b >= a /\ (q - 1) * b < a
  BY <1>2, <1>3, <1>4
<1>. QED  BY <1>1, <1>5 DEF Ceil, q

(* What the bucket holds and what was admitted since any request are       *)
(* together no more than the burst and what has come in since.             *)
Paid(i) ==
    (Len(admitted) - i + 1) * Token + Refilled <= Capacity + (now - admitted[i]) * rate

RlTypeOK ==
    /\ rate \in Rates /\ now \in Nat
    /\ bucket \in [seen : BOOLEAN, tokens : Nat, last : Nat] /\ bucket.last <= now
    /\ admitted \in Seq(Nat)

RlInv ==
    /\ RlTypeOK /\ RateIsKept
    /\ ~bucket.seen => admitted = <<>>
    /\ \A i \in 1 .. Len(admitted) : Paid(i)

(* A bucket is between empty and full.                                     *)
LEMMA RefilledIs ==
    ASSUME RlTypeOK
    PROVE  /\ rate \in Nat \ {0} /\ Capacity \in Nat
           /\ Refilled \in Nat /\ Refilled <= Capacity
<1>1. rate \in Nat \ {0} /\ Second \in Nat /\ now - bucket.last \in Nat
  BY RateAssumption DEF RlTypeOK
<1>2. Capacity \in Nat
  BY <1>1 DEF Capacity, burstFactor
<1>3. (now - bucket.last) * rate \in Nat
  BY <1>1
<1>4. bucket.tokens + (now - bucket.last) * rate \in Nat
  BY <1>3 DEF RlTypeOK
<1>. QED  BY <1>1, <1>2, <1>4 DEF Refilled, Least

(* A key that was never seen has a full bucket.                            *)
LEMMA RlInvInit == RlInit => RlInv
BY RateAssumption DEF RlInit, RlInv, RlTypeOK, NoBucket, RateIsKept

(* A request takes a token or nothing, and what is left is counted from    *)
(* now on.                                                                 *)
LEMMA AllowKeepsInv ==
    ASSUME RlInv, AllowRequest
    PROVE  RlInv'
<1>1. /\ rate \in Nat \ {0} /\ Capacity \in Nat /\ Refilled \in Nat /\ Refilled <= Capacity
      /\ Token \in Nat \ {0} /\ rate' = rate /\ now' = now /\ now \in Nat /\ Capacity' = Capacity
      /\ admitted \in Seq(Nat)
  BY RefilledIs, RateAssumption DEF RlInv, RlTypeOK, AllowRequest, Capacity
<1>2. PICK left \in Nat :
        /\ left = IF Refilled < Token THEN Refilled ELSE Refilled - Token
        /\ bucket' = [seen |-> TRUE, last |-> now, tokens |-> left]
  <2> DEFINE rest == IF Refilled < Token THEN Refilled ELSE Refilled - Token
  <2>1. rest \in Nat
    BY <1>1
  <2>2. bucket' = [seen |-> TRUE, last |-> now, tokens |-> rest]
    BY DEF AllowRequest
  <2>. QED  BY <2>1, <2>2
<1>3. Refilled' = left
  <2>1. Refilled' = Least(Capacity, left + (now - now) * rate)
    BY <1>1, <1>2 DEF Refilled
  <2>2. (now - now) * rate = 0
    BY <1>1
  <2>3. left <= Capacity
    BY <1>1, <1>2
  <2>. QED  BY <1>1, <2>1, <2>2, <2>3 DEF Least
<1>4. bucket'.seen /\ RlTypeOK'
  <2>1. admitted' \in Seq(Nat)
    BY <1>1 DEF AllowRequest
  <2>2. rate' \in Rates
    BY <1>1 DEF RlInv, RlTypeOK
  <2>. QED  BY <1>1, <1>2, <2>1, <2>2 DEF RlTypeOK
<1>5. CASE Refilled < Token
  <2>1. admitted' = admitted /\ left = Refilled
    BY <1>2, <1>5 DEF AllowRequest
  <2>2. \A i \in 1 .. Len(admitted) : Paid(i)'
    BY <1>1, <1>3, <2>1 DEF RlInv, Paid
  <2>3. RateIsKept'
    BY <1>1, <2>1 DEF RlInv, RateIsKept
  <2>. QED  BY <1>4, <2>1, <2>2, <2>3 DEF RlInv
<1>6. CASE ~(Refilled < Token)
  <2>0. PICK n \in Nat : n = Len(admitted)
    BY <1>1
  <2>1. /\ admitted' = Append(admitted, now) /\ left = Refilled - Token
        /\ Len(admitted') = n + 1 /\ admitted'[n + 1] = now
        /\ \A i \in 1 .. n : admitted'[i] = admitted[i] /\ admitted[i] \in Nat
    BY <1>1, <1>2, <1>6, <2>0 DEF AllowRequest
  <2>2. ASSUME NEW i \in 1 .. n PROVE Paid(i)'
    <3>1. (n - i + 1) * Token + Refilled <= Capacity + (now - admitted[i]) * rate
      BY <2>0, <2>2 DEF RlInv, Paid
    <3>2. (n + 1 - i + 1) * Token = (n - i + 1) * Token + Token
      BY <1>1, <2>1
    <3>3. (n + 1 - i + 1) * Token + left <= Capacity + (now - admitted[i]) * rate
      <4>1. (n - i + 1) * Token \in Int
        BY <1>1, <2>1
      <4>2. (now - admitted[i]) * rate \in Int
        BY <1>1, <2>1
      <4>. QED  BY <1>1, <2>1, <3>1, <3>2, <4>1, <4>2
    <3>. QED  BY <1>1, <1>3, <2>1, <3>3 DEF Paid
  <2>3. Paid(n + 1)'
    <3>1. (n + 1 - (n + 1) + 1) * Token = Token /\ (now - now) * rate = 0
      BY <1>1, <2>1
    <3>2. (n + 1 - (n + 1) + 1) * Token + left <= Capacity + (now - now) * rate
      BY <1>1, <2>1, <3>1
    <3>. QED  BY <1>1, <1>3, <2>1, <3>2 DEF Paid
  <2>4. ASSUME NEW i \in 1 .. n + 1 PROVE Paid(i)'
    <3>1. CASE i \in 1 .. n
      BY <2>2, <3>1
    <3>2. CASE i = n + 1
      BY <2>3, <3>2
    <3>. QED  BY <2>1, <3>1, <3>2
  <2>5. RateIsKept'
    <3> SUFFICES ASSUME NEW i \in 1 .. n + 1, NEW j \in 1 .. n + 1, i <= j
                 PROVE  (j - i + 1) * Token
                          <= Capacity + (admitted'[j] - admitted'[i]) * rate
      BY <1>1, <2>1 DEF RateIsKept
    <3>1. CASE j = n + 1
      <4>1. (n + 1 - i + 1) * Token + left <= Capacity + (now - admitted'[i]) * rate
        BY <1>1, <1>3, <2>1, <2>4, SMTT(30) DEF Paid
      <4>2. (n + 1 - i + 1) * Token \in Int /\ (now - admitted'[i]) * rate \in Int
        <5>1. admitted'[i] \in Int
          BY <1>1, <2>1
        <5>. QED  BY <1>1, <2>1, <5>1
      <4>. QED  BY <1>1, <1>2, <2>1, <3>1, <4>1, <4>2, SMTT(30)
    <3>2. CASE j \in 1 .. n
      <4>1. i \in 1 .. n
        BY <2>1, <3>2
      <4>. QED  BY <2>0, <2>1, <3>2, <4>1 DEF RlInv, RateIsKept
    <3>. QED  BY <2>1, <3>1, <3>2
  <2>. QED  BY <1>4, <2>1, <2>4, <2>5 DEF RlInv
<1>. QED  BY <1>5, <1>6

(* A tick brings at most the rate into the bucket.                         *)
LEMMA ClockKeepsInv ==
    ASSUME RlInv, ClockTicks
    PROVE  RlInv'
<1>1. /\ rate \in Nat \ {0} /\ Capacity \in Nat /\ Refilled \in Nat /\ Refilled <= Capacity
      /\ Token \in Nat \ {0} /\ rate' = rate /\ now' = now + 1 /\ now \in Nat /\ Capacity' = Capacity
      /\ admitted \in Seq(Nat) /\ admitted' = admitted /\ bucket' = bucket /\ RlTypeOK
  BY RefilledIs, RateAssumption DEF RlInv, RlTypeOK, ClockTicks, Capacity
<1>2. RlTypeOK'
  BY <1>1 DEF RlTypeOK
<1>3. Refilled' <= Refilled + rate /\ Refilled' \in Nat
  <2>1. Refilled' \in Nat
    <3>1. (now' - bucket'.last) * rate' \in Nat
      BY <1>1, <1>2 DEF RlTypeOK
    <3>2. bucket'.tokens + (now' - bucket'.last) * rate' \in Nat
      BY <1>2, <3>1 DEF RlTypeOK
    <3>. QED  BY <1>1, <3>2 DEF Refilled, Least
  <2>2. CASE ~bucket.seen
    <3>1. Refilled = Capacity /\ Refilled' = Capacity'
      BY <1>1, <2>2 DEF Refilled
    <3>. QED  BY <1>1, <2>1, <3>1
  <2>3. CASE bucket.seen
    <3> DEFINE in == bucket.tokens + (now - bucket.last) * rate
    <3>1. (now' - bucket.last) * rate = (now - bucket.last) * rate + rate
      BY <1>1 DEF RlTypeOK
    <3>2. (now - bucket.last) * rate \in Int /\ bucket.tokens \in Nat
      BY <1>1 DEF RlTypeOK
    <3>3. in \in Int /\ bucket.tokens + (now' - bucket.last) * rate = in + rate
      BY <1>1, <3>1, <3>2
    <3>4. Refilled = Least(Capacity, in)
      BY <2>3 DEF Refilled
    <3>5. Refilled' = Least(Capacity, bucket.tokens + (now' - bucket.last) * rate)
      BY <1>1, <2>3 DEF Refilled
    <3> HIDE DEF in
    <3>6. Least(Capacity, in + rate) <= Least(Capacity, in) + rate
      BY <1>1, <3>3 DEF Least
    <3>. QED  BY <2>1, <3>3, <3>4, <3>5, <3>6
  <2>. QED  BY <2>1, <2>2, <2>3
<1>4. ASSUME NEW i \in 1 .. Len(admitted) PROVE Paid(i)'
  <2>1. (Len(admitted) - i + 1) * Token + Refilled <= Capacity + (now - admitted[i]) * rate
    BY <1>4 DEF RlInv, Paid
  <2>2. Len(admitted) \in Nat /\ admitted[i] \in Nat
    BY <1>1
  <2>3. (now' - admitted[i]) * rate = (now - admitted[i]) * rate + rate
    <3>1. PICK d \in Int : d = now - admitted[i] /\ now' - admitted[i] = d + 1
      BY <1>1, <2>2
    <3>2. (d + 1) * rate = d * rate + rate
      BY <1>1
    <3>. QED  BY <3>1, <3>2
  <2>4. (Len(admitted) - i + 1) * Token \in Int /\ (now - admitted[i]) * rate \in Int
    BY <1>1, <2>2
  <2>5. (Len(admitted) - i + 1) * Token + Refilled' <= Capacity + (now' - admitted[i]) * rate
    <3>1. PICK due \in Int, come \in Int, old \in Nat, new \in Nat :
            /\ due = (Len(admitted) - i + 1) * Token /\ come = (now - admitted[i]) * rate
            /\ old = Refilled /\ new = Refilled'
      BY <1>1, <1>3, <2>4
    <3>2. due + old <= Capacity + come /\ new <= old + rate
      BY <1>3, <2>1, <3>1
    <3>3. due + new <= Capacity + (come + rate)
      BY <1>1, <3>2
    <3>. QED  BY <2>3, <3>1, <3>3
  <2>6. Paid(i)' <=> (Len(admitted) - i + 1) * Token + Refilled' <= Capacity' + (now' - admitted[i]) * rate
    BY <1>1 DEF Paid
  <2>. QED  BY <1>1, <2>5, <2>6
<1>5. RateIsKept'
  BY <1>1 DEF RlInv, RateIsKept
<1>. QED  BY <1>1, <1>2, <1>4, <1>5 DEF RlInv

(* In every behaviour, what was admitted is paid for.                      *)
THEOREM RateInvariant == RlSpec => []RlInv
<1>1. RlInv /\ UNCHANGED rlvars => RlInv'
  BY DEF rlvars, RlInv, RlTypeOK, RateIsKept, Paid, Refilled, Capacity
<1>2. RlInv /\ [RlNext]_rlvars => RlInv'
  BY <1>1, AllowKeepsInv, ClockKeepsInv DEF RlNext
<1>. QED  BY <1>2, RlInvInit, PTL DEF RlSpec

(* ratelimit.go 14 and 75: in no stretch of time does a key get more than  *)
(* its rate and one burst, and a client that waits as long as it was told  *)
(* is admitted then and would not have been a tick earlier, where the      *)
(* bucket can hold a token at all; where it cannot, a rate below half a    *)
(* request a second, nobody is ever admitted.                              *)
THEOREM RateLimiterIsFair == RlSpec => []RateIsFair
<1>1. RlInv => WaitSuffices
  <2> SUFFICES ASSUME RlInv, Refilled < Token, Capacity >= Token PROVE WaitSuffices
    BY DEF WaitSuffices
  <2>1. /\ rate \in Nat \ {0} /\ Capacity \in Nat /\ Refilled \in Nat /\ Token \in Nat
        /\ Token - Refilled \in Nat
    BY RefilledIs, RateAssumption DEF RlInv
  <2> DEFINE w == Wait(Refilled)
  <2>2. w \in Nat /\ w * rate >= Token - Refilled /\ (w - 1) * rate < Token - Refilled
    BY <2>1, CeilIs DEF Wait
  <2> HIDE DEF w
  <2>3. w * rate \in Int /\ (w - 1) * rate \in Int
    BY <2>1, <2>2
  <2>4. Least(Capacity, Refilled + w * rate) >= Token /\ Refilled + (w - 1) * rate < Token
    BY <2>1, <2>2, <2>3 DEF Least
  <2>. QED  BY <2>4 DEF WaitSuffices, w
<1>2. RlInv => TooSlowIsNever
  <2> SUFFICES ASSUME RlInv, admitted # <<>> PROVE ~(Capacity < Token)
    BY DEF TooSlowIsNever
  <2>1. 1 \in 1 .. Len(admitted) /\ admitted[1] \in Nat
    BY DEF RlInv, RlTypeOK
  <2>2. rate \in Nat /\ Capacity \in Nat /\ Token \in Nat
    BY RefilledIs, RateAssumption DEF RlInv
  <2>3. (1 - 1 + 1) * Token <= Capacity + (admitted[1] - admitted[1]) * rate
    BY <2>1 DEF RlInv, RateIsKept
  <2>4. (1 - 1 + 1) * Token = Token /\ (admitted[1] - admitted[1]) * rate = 0
    BY <2>1, <2>2
  <2>. QED  BY <2>2, <2>3, <2>4
<1>3. RlInv => RateIsFair
  BY <1>1, <1>2 DEF RlInv, RateIsFair
<1>. QED  BY <1>3, RateInvariant, PTL

-----------------------------------------------------------------------------
(* Start-up and shutdown.                                                  *)

(* What build has gone past at a step, and what Close has freed.           *)
BuiltBefore(k) == {BuildOrder[i] : i \in {m \in 1 .. 7 : m < k}}
ClosedBefore(k) == {CloseOrder[i] : i \in {m \in 1 .. 9 : m < k}}

Wanted == {r \in Resource : BuildOf(r) # "absent"}

LcTypeOK ==
    /\ config \in Configs
    /\ phase \in {"building", "starting", "serving", "stopping", "closing", "exited"}
    /\ held \subseteq Resource
    /\ running \subseteq {"workers", "loop", "isolation", "handlers"}
    /\ outcome \in {"well", "unbuilt", "failed"}

PlaceFits ==
    /\ phase = "building" => step \in 1 .. 7
    /\ phase = "stopping" => step \in 1 .. 2
    /\ phase = "closing" => step \in 1 .. 9

(* What is held: what was built so far, all that was wanted while somebody *)
(* may be served, and what Close has not come to.                          *)
HeldFits ==
    /\ phase = "building" => held \subseteq BuiltBefore(step) /\ Wanted \cap BuiltBefore(step) \subseteq held
    /\ phase \in {"starting", "serving", "stopping"} => Wanted \subseteq held
    /\ phase = "closing" => Wanted \ ClosedBefore(step) \subseteq held
    /\ outcome = "unbuilt" => phase = "exited" /\ held = {}

(* Who still runs: nobody before the start, and in a stop that waited to   *)
(* the end nobody that was waited for.                                     *)
RunningFits ==
    /\ phase = "building" => running = {}
    /\ phase \in {"building", "starting", "serving", "stopping"} => outcome = "well"
    /\ (phase = "stopping" /\ step > 1 /\ ~overtime) => "handlers" \notin running
    /\ (phase \in {"closing", "exited"} /\ outcome = "well" /\ ~overtime) =>
          running \cap {"handlers", "workers"} = {}
    /\ (phase = "closing" /\ step > 1 /\ ~overtime) => "loop" \notin running
    /\ (phase = "closing" /\ step > 3) => "isolation" \notin running
    /\ (phase = "exited" /\ ~overtime) => running \cap {"loop", "isolation"} = {}

LcInv == LcTypeOK /\ PlaceFits /\ HeldFits /\ RunningFits

Flags == done \in BOOLEAN /\ overtime \in BOOLEAN

(* The orders, a place at a time.                                          *)
LEMMA BuildPlaces ==
    /\ BuildOrder[1] = "pool" /\ BuildOrder[2] = "vad" /\ BuildOrder[3] = "diarizer"
    /\ BuildOrder[4] = "streaming" /\ BuildOrder[5] = "post" /\ BuildOrder[6] = "store"
    /\ BuildOrder[7] = "isolationModels" /\ Len(BuildOrder) = 7
BY DEF BuildOrder

(* What was built before r is what is closed when r cannot be built.       *)
LEMMA BuildOrders ==
    /\ BuiltBefore(1) = {} /\ Resource \subseteq BuiltBefore(8)
    /\ \A k \in 1 .. 7 : /\ BuildOrder[k] \in Resource
                         /\ BuiltBefore(k + 1) = BuiltBefore(k) \cup {BuildOrder[k]}
                         /\ BuiltBefore(k) \subseteq Unwound(BuildOrder[k])
<1>1. BuiltBefore(1) = {}
  BY DEF BuiltBefore
<1>2. Resource \subseteq BuiltBefore(8)
  <2>1. \A i \in 1 .. 7 : BuildOrder[i] \in BuiltBefore(8)
    BY DEF BuiltBefore
  <2>2. \A i \in {1, 2, 3, 4, 5, 6, 7} : BuildOrder[i] \in BuiltBefore(8)
    BY <2>1
  <2> HIDE DEF BuiltBefore
  <2>. QED  BY <2>2, BuildPlaces DEF Resource
<1>3. ASSUME NEW k \in 1 .. 7
      PROVE  /\ BuildOrder[k] \in Resource
             /\ BuiltBefore(k + 1) = BuiltBefore(k) \cup {BuildOrder[k]}
             /\ BuiltBefore(k) \subseteq Unwound(BuildOrder[k])
  <2>1. BuildOrder[k] \in Resource
    <3>1. k \in {1, 2, 3, 4, 5, 6, 7}
      OBVIOUS
    <3>. QED  BY <3>1, BuildPlaces DEF Resource
  <2>2. \A i : i \in {m \in 1 .. 7 : m < k + 1} <=> i \in {m \in 1 .. 7 : m < k} \/ i = k
    OBVIOUS
  <2>3. BuiltBefore(k + 1) = BuiltBefore(k) \cup {BuildOrder[k]}
    BY <2>2 DEF BuiltBefore
  <2>4. ASSUME NEW i \in 1 .. 7, i < k PROVE BuildOrder[i] \in Unwound(BuildOrder[k])
    <3>1. CASE k = 1
      BY <2>4, <3>1
    <3>2. CASE k = 2
      BY <2>4, <3>2, i = 1, BuildPlaces DEF Unwound
    <3>3. CASE k = 3
      BY <2>4, <3>3, i \in {1, 2}, BuildPlaces DEF Unwound
    <3>4. CASE k = 4
      BY <2>4, <3>4, i \in {1, 2, 3}, BuildPlaces DEF Unwound
    <3>5. CASE k = 5
      BY <2>4, <3>5, i \in {1, 2, 3, 4}, BuildPlaces DEF Unwound
    <3>6. CASE k = 6
      BY <2>4, <3>6, i \in {1, 2, 3, 4, 5}, BuildPlaces DEF Unwound
    <3>7. CASE k = 7
      BY <2>4, <3>7, i \in {1, 2, 3, 4, 5, 6}, BuildPlaces DEF Unwound
    <3>. QED  BY <3>1, <3>2, <3>3, <3>4, <3>5, <3>6, <3>7
  <2>5. BuiltBefore(k) \subseteq Unwound(BuildOrder[k])
    BY <2>4 DEF BuiltBefore
  <2>. QED  BY <2>1, <2>3, <2>5
<1>. QED  BY <1>1, <1>2, <1>3

(* What is closed before each place of the order of closing.               *)
LEMMA CloseOrders ==
    /\ ClosedBefore(1) = {}
    /\ \A k \in 1 .. 9 : ClosedBefore(k + 1) = ClosedBefore(k) \cup {CloseOrder[k]}
<1>1. ClosedBefore(1) = {}
  BY DEF ClosedBefore
<1>2. ASSUME NEW k \in 1 .. 9 PROVE ClosedBefore(k + 1) = ClosedBefore(k) \cup {CloseOrder[k]}
  <2>1. \A i : i \in {m \in 1 .. 9 : m < k + 1} <=> i \in {m \in 1 .. 9 : m < k} \/ i = k
    OBVIOUS
  <2>. QED  BY <2>1 DEF ClosedBefore
<1>. QED  BY <1>1, <1>2

(* The process begins with nothing built and nobody running.               *)
LEMMA LcInvInit == LcInit => LcInv
<1> SUFFICES ASSUME LcInit PROVE LcInv
  OBVIOUS
<1>1. /\ config \in Configs /\ phase = "building" /\ step = 1 /\ held = {} /\ running = {}
      /\ outcome = "well"
  BY LifecycleAssumption DEF LcInit
<1>2. LcTypeOK
  BY <1>1 DEF LcTypeOK
<1>3. PlaceFits
  BY <1>1 DEF PlaceFits
<1>4. HeldFits
  BY <1>1, BuildOrders DEF HeldFits
<1>5. RunningFits
  BY <1>1 DEF RunningFits
<1>. QED  BY <1>2, <1>3, <1>4, <1>5 DEF LcInv

(* Nothing else becomes of a part.                                         *)
LEMMA BuildOfIs ==
    ASSUME config \in Configs, NEW r \in Resource
    PROVE  BuildOf(r) \in {"ready", "absent", "refused"}
<1>1. BuildVAD(config) \in {"ready", "absent", "refused"}
  BY DEF BuildVAD
<1>2. BuildDiarizer(config) \in {"ready", "absent", "refused"}
  BY DEF BuildDiarizer
<1>3. BuildRealtime(config) \in {"ready", "absent", "refused"}
  BY DEF BuildRealtime
<1>4. BuildPostProc(config) \in {"ready", "absent", "refused"}
  BY DEF BuildPostProc
<1>5. BuildIsolation(config) \in {"ready", "absent", "refused"}
  BY DEF BuildIsolation
<1>. QED  BY <1>1, <1>2, <1>3, <1>4, <1>5 DEF BuildOf, Resource

(* A builder leaves what it built, or takes everything back.               *)
LEMMA BuildStepKeepsInv == ASSUME LcInv, BuildStep PROVE LcInv'
<1> USE DEF LcInv
<1>1. /\ phase = "building" /\ step \in 1 .. 7 /\ running = {} /\ outcome = "well"
      /\ config' = config /\ running' = running /\ config \in Configs /\ held \subseteq Resource
      /\ Wanted' = Wanted /\ Wanted \subseteq Resource
  BY DEF BuildStep, LcTypeOK, PlaceFits, RunningFits, Wanted, BuildOf
<1>2. PICK r \in Resource : r = BuildOrder[step]
  BY <1>1, BuildOrders
<1>3. /\ held \subseteq BuiltBefore(step) /\ Wanted \cap BuiltBefore(step) \subseteq held
      /\ BuiltBefore(step + 1) = BuiltBefore(step) \cup {r} /\ BuiltBefore(step) \subseteq Unwound(r)
  BY <1>1, <1>2, BuildOrders DEF HeldFits
<1>4. CASE /\ BuildOf(r) # "refused" /\ UNCHANGED outcome
           /\ held' = IF BuildOf(r) = "ready" THEN held \cup {r} ELSE held
           /\ IF step < Len(BuildOrder) THEN step' = step + 1 /\ UNCHANGED phase
                                        ELSE step' = 1 /\ phase' = "starting"
  <2>1. /\ held' \subseteq BuiltBefore(step + 1) /\ Wanted \cap BuiltBefore(step + 1) \subseteq held'
        /\ held' \subseteq Resource
    <3>1. r \in Wanted => BuildOf(r) = "ready"
      BY <1>1, <1>4, BuildOfIs DEF Wanted
    <3>. QED  BY <1>1, <1>3, <1>4, <3>1
  <2>2. CASE step < 7
    <3>1. step' = step + 1 /\ phase' = phase /\ outcome' = outcome
      BY <1>4, <2>2, BuildPlaces
    <3>2. LcTypeOK'
      BY <1>1, <2>1, <2>2, <3>1 DEF LcTypeOK
    <3>3. PlaceFits'
      BY <1>1, <2>1, <2>2, <3>1 DEF PlaceFits
    <3>4. HeldFits'
      BY <1>1, <2>1, <3>1 DEF HeldFits
    <3>5. RunningFits'
      BY <1>1, <3>1 DEF RunningFits
    <3>. QED  BY <3>2, <3>3, <3>4, <3>5
  <2>3. CASE step = 7
    <3>1. ~(step < Len(BuildOrder))
      <4>1. Len(BuildOrder) = 7
        BY BuildPlaces
      <4>. QED  BY <1>1, <2>3, <4>1
    <3>2. step' = 1 /\ phase' = "starting" /\ outcome' = outcome
      BY <1>4, <3>1
    <3>3. Wanted \subseteq held'
      BY <1>1, <2>1, <2>3, BuildOrders
    <3>4. LcTypeOK'
      BY <1>1, <2>1, <3>2 DEF LcTypeOK
    <3>5. PlaceFits'
      BY <1>1, <2>1, <3>2 DEF PlaceFits
    <3>6. HeldFits'
      BY <1>1, <3>2, <3>3 DEF HeldFits
    <3>7. RunningFits'
      BY <1>1, <3>2 DEF RunningFits
    <3>. QED  BY <3>4, <3>5, <3>6, <3>7
  <2>. QED  BY <1>1, <2>2, <2>3
<1>5. CASE held' = held \ Unwound(r) /\ phase' = "exited" /\ outcome' = "unbuilt" /\ UNCHANGED step
  <2>1. held' = {}
    BY <1>3, <1>5
  <2>2. LcTypeOK'
    BY <1>1, <1>5, <2>1 DEF LcTypeOK
  <2>3. PlaceFits'
    BY <1>1, <1>5, <2>1 DEF PlaceFits
  <2>4. HeldFits'
    BY <1>5, <2>1 DEF HeldFits
  <2>5. RunningFits'
    BY <1>1, <1>5 DEF RunningFits
  <2>. QED  BY <2>2, <2>3, <2>4, <2>5
<1>. QED  BY <1>2, <1>4, <1>5 DEF BuildStep

(* Close begins at its first place, and after an error nobody was waited   *)
(* for.                                                                    *)
LEMMA ClosingFits ==
    ASSUME phase' = "closing", step' = 1, outcome' = "failed"
    PROVE  PlaceFits' /\ RunningFits'
BY DEF PlaceFits, RunningFits

(* A start that fails, and a server that fails, close what there is.       *)
LEMMA ClosesKeepsInv ==
    ASSUME LcInv, phase \in {"starting", "serving"}, Closes("failed"),
           UNCHANGED <<config, held>>, running' \subseteq {"workers", "loop", "isolation", "handlers"}
    PROVE  LcInv'
<1>1. PlaceFits' /\ RunningFits' /\ phase' = "closing" /\ step' = 1 /\ outcome' = "failed"
  BY ClosingFits DEF Closes
<1>2. /\ config' = config /\ held' = held
      /\ config \in Configs /\ held \subseteq Resource /\ Wanted \subseteq held
  BY DEF LcInv, LcTypeOK, HeldFits
<1>3. Wanted' = Wanted
  BY <1>2 DEF Wanted, BuildOf
<1>4. LcTypeOK'
  BY <1>1, <1>2 DEF LcTypeOK
<1>5. HeldFits'
  <2>1. Wanted' \ ClosedBefore(step') \subseteq held'
    BY <1>1, <1>2, <1>3
  <2>. QED  BY <1>1, <2>1 DEF HeldFits
<1>. QED  BY <1>1, <1>4, <1>5 DEF LcInv

(* Those who are started find everything there.                            *)
LEMMA ServingKeepsInv ==
    ASSUME LcInv, phase \in {"starting", "serving"}, phase' \in {"starting", "serving", "stopping"},
           phase' = "stopping" => step' = 1,
           UNCHANGED <<config, held, overtime, outcome>>,
           running' \subseteq {"workers", "loop", "isolation", "handlers"}
    PROVE  LcInv'
<1>1. /\ config' = config /\ held' = held /\ outcome' = outcome /\ outcome = "well"
      /\ config \in Configs /\ held \subseteq Resource /\ Wanted \subseteq held
  BY DEF LcInv, LcTypeOK, HeldFits, RunningFits
<1>2. Wanted' = Wanted
  BY <1>1 DEF Wanted, BuildOf
<1>3. LcTypeOK'
  BY <1>1 DEF LcTypeOK
<1>4. PlaceFits'
  BY <1>1 DEF PlaceFits
<1>5. HeldFits'
  BY <1>1, <1>2 DEF HeldFits
<1>6. RunningFits'
  BY <1>1 DEF RunningFits
<1>. QED  BY <1>3, <1>4, <1>5, <1>6 DEF LcInv

(* The stop waits for the handlers, then for the workers.                  *)
LEMMA StopStepKeepsInv == ASSUME LcInv, StopStep PROVE LcInv'
<1>1. /\ phase = "stopping" /\ step \in 1 .. 2 /\ outcome = "well" /\ Wanted \subseteq held
      /\ config' = config /\ held' = held /\ running' = running
      /\ config \in Configs /\ held \subseteq Resource
      /\ running \subseteq {"workers", "loop", "isolation", "handlers"}
  BY DEF StopStep, LcInv, LcTypeOK, PlaceFits, HeldFits, RunningFits
<1>2. Wanted' = Wanted
  BY <1>1 DEF Wanted, BuildOf
<1>3. StopOrder[1] = "handlers" /\ StopOrder[2] = "workers" /\ Len(StopOrder) = 2
  BY DEF StopOrder
<1>4. ~overtime' => ~overtime /\ StopOrder[step] \notin running
  BY DEF StopStep
<1>5. step = 2 /\ ~overtime => "handlers" \notin running
  BY <1>1 DEF LcInv, RunningFits
<1>6. CASE step = 1
  <2>1. step' = 2 /\ phase' = "stopping" /\ outcome' = "well"
    BY <1>1, <1>3, <1>6 DEF StopStep
  <2>2. LcTypeOK'
    BY <1>1, <2>1 DEF LcTypeOK
  <2>3. PlaceFits'
    BY <1>1, <2>1 DEF PlaceFits
  <2>4. HeldFits'
    BY <1>1, <1>2, <2>1 DEF HeldFits
  <2>5. RunningFits'
    BY <1>1, <1>3, <1>4, <1>6, <2>1 DEF RunningFits
  <2>. QED  BY <2>2, <2>3, <2>4, <2>5 DEF LcInv
<1>7. CASE step = 2
  <2>1. step' = 1 /\ phase' = "closing" /\ outcome' = "well"
    BY <1>1, <1>3, <1>7 DEF StopStep, Closes
  <2>2. LcTypeOK'
    BY <1>1, <2>1 DEF LcTypeOK
  <2>3. PlaceFits'
    BY <1>1, <2>1 DEF PlaceFits
  <2>4. HeldFits'
    BY <1>1, <1>2, <2>1, CloseOrders DEF HeldFits
  <2>5. RunningFits'
    BY <1>1, <1>3, <1>4, <1>5, <1>7, <2>1 DEF RunningFits
  <2>. QED  BY <2>2, <2>3, <2>4, <2>5 DEF LcInv
<1>. QED  BY <1>1, <1>6, <1>7

(* Close frees one part, when its turn has come.                           *)
LEMMA CloseStepKeepsInv == ASSUME LcInv, CloseStep PROVE LcInv'
<1>1. phase = "closing" /\ step \in 1 .. 9
  BY DEF CloseStep, LcInv, PlaceFits
<1>2. /\ Wanted \ ClosedBefore(step) \subseteq held /\ held' = held \ {CloseOrder[step]}
      /\ config' = config /\ config \in Configs /\ held \subseteq Resource
  BY <1>1 DEF CloseStep, LcInv, LcTypeOK, HeldFits
<1>3. /\ running' = running /\ outcome' = outcome /\ outcome \in {"well", "failed"}
      /\ running \subseteq {"workers", "loop", "isolation", "handlers"}
  BY <1>1 DEF CloseStep, LcInv, LcTypeOK, HeldFits
<1>4. Wanted' = Wanted
  BY <1>2 DEF Wanted, BuildOf
<1>5. CloseOrder[1] = "loop" /\ CloseOrder[3] = "isolation" /\ Len(CloseOrder) = 9
  BY DEF CloseOrder
<1>6. Wanted \ ClosedBefore(step + 1) \subseteq held'
  BY <1>1, <1>2, CloseOrders
<1>7. step = 3 => "isolation" \notin running
  BY <1>5 DEF CloseStep
<1>8. ~overtime' => ~overtime /\ (step = 1 => "loop" \notin running)
  BY <1>5 DEF CloseStep
<1>9. ~overtime' => "loop" \notin running
  BY <1>1, <1>8 DEF LcInv, RunningFits
<1>10. step >= 3 => "isolation" \notin running
  BY <1>1, <1>7 DEF LcInv, RunningFits
<1>11. outcome = "well" /\ ~overtime' => running \cap {"handlers", "workers"} = {}
  BY <1>1, <1>8 DEF LcInv, RunningFits
<1>12. CASE step < 9
  <2>1. step' = step + 1 /\ phase' = "closing"
    BY <1>1, <1>5, <1>12 DEF CloseStep
  <2>2. LcTypeOK'
    BY <1>2, <1>3, <2>1 DEF LcTypeOK
  <2>3. PlaceFits'
    BY <1>1, <1>12, <2>1 DEF PlaceFits
  <2>4. HeldFits'
    BY <1>3, <1>4, <1>6, <2>1 DEF HeldFits
  <2>5. step' > 3 => step >= 3
    BY <1>1, <2>1
  <2>6. RunningFits'
    BY <1>3, <1>9, <1>10, <1>11, <2>1, <2>5 DEF RunningFits
  <2>. QED  BY <2>2, <2>3, <2>4, <2>6 DEF LcInv
<1>13. CASE ~(step < 9)
  <2>1. step >= 3
    BY <1>1, <1>13
  <2>2. phase' = "exited"
    BY <1>5, <1>13 DEF CloseStep
  <2>3. LcTypeOK'
    BY <1>2, <1>3, <2>2 DEF LcTypeOK
  <2>4. PlaceFits'
    BY <2>2 DEF PlaceFits
  <2>5. HeldFits'
    BY <1>3, <2>2 DEF HeldFits
  <2>6. RunningFits'
    BY <1>3, <1>9, <1>10, <1>11, <2>1, <2>2 DEF RunningFits
  <2>. QED  BY <2>3, <2>4, <2>5, <2>6 DEF LcInv
<1>. QED  BY <1>12, <1>13

(* Who ends is gone.                                                       *)
LEMMA UserEndsKeepsInv == ASSUME LcInv, NEW u \in running, UserEnds(u) PROVE LcInv'
<1>1. /\ config' = config /\ held' = held /\ overtime' = overtime /\ phase' = phase
      /\ step' = step /\ outcome' = outcome /\ running' \subseteq running /\ Wanted' = Wanted
  BY DEF UserEnds, Wanted, BuildOf
<1>. QED  BY <1>1 DEF LcInv, LcTypeOK, PlaceFits, HeldFits, RunningFits

(* In every life of the process, what is held and who runs go together.    *)
THEOREM LifecycleInvariant == LcSpec => [](LcInv /\ Flags)
<1>1. LcInit => Flags
  BY Zenon DEF LcInit, Flags
<1>2. Flags /\ [LcNext]_lcvars => Flags'
  BY Zenon DEF Flags, LcNext, lcvars, BuildStep, Resume, StartServing, Interrupt, StopsServing, StopStep,
               CloseStep, UserEnds
<1>3. ASSUME LcInv, UNCHANGED lcvars PROVE LcInv'
  <2>1. LcTypeOK'
    BY <1>3 DEF lcvars, LcInv, LcTypeOK
  <2>2. PlaceFits'
    BY <1>3 DEF lcvars, LcInv, PlaceFits
  <2>3. HeldFits'
    BY <1>3 DEF lcvars, LcInv, HeldFits, Wanted, BuildOf
  <2>4. RunningFits'
    BY <1>3 DEF lcvars, LcInv, RunningFits
  <2>. QED  BY <2>1, <2>2, <2>3, <2>4 DEF LcInv
<1>4. ASSUME LcInv, Resume PROVE LcInv'
  <2>1. phase = "starting" /\ UNCHANGED <<config, held, overtime>> /\ running' \subseteq running \cup {"workers"}
    BY <1>4 DEF Resume
  <2>2. running' \subseteq {"workers", "loop", "isolation", "handlers"}
    BY <1>4, <2>1 DEF LcInv, LcTypeOK
  <2>3. Closes("failed") \/ UNCHANGED <<phase, outcome>>
    BY <1>4 DEF Resume
  <2>. QED  BY <1>4, <2>1, <2>2, <2>3, ClosesKeepsInv, ServingKeepsInv DEF Closes
<1>5. ASSUME LcInv, StartServing PROVE LcInv'
  <2>1. /\ phase = "starting" /\ UNCHANGED <<config, held, overtime>>
        /\ running' \subseteq running \cup {"loop", "isolation", "handlers"}
    BY <1>5 DEF StartServing
  <2>2. running' \subseteq {"workers", "loop", "isolation", "handlers"}
    BY <1>5, <2>1 DEF LcInv, LcTypeOK
  <2>3. Closes("failed") \/ (phase' = "serving" /\ UNCHANGED outcome)
    BY <1>5 DEF StartServing
  <2>. QED  BY <1>5, <2>1, <2>2, <2>3, ClosesKeepsInv, ServingKeepsInv DEF Closes
<1>6. ASSUME LcInv, Interrupt PROVE LcInv'
  BY <1>6, ServingKeepsInv DEF Interrupt, LcInv, LcTypeOK
<1>7. ASSUME LcInv, StopsServing PROVE LcInv'
  <2>1. /\ phase = "serving" /\ UNCHANGED <<config, held, overtime>>
        /\ running' \subseteq {"workers", "loop", "isolation", "handlers"}
    BY <1>7 DEF StopsServing, LcInv, LcTypeOK
  <2>2. Closes("failed") \/ (phase' = "stopping" /\ step' = 1 /\ UNCHANGED outcome)
    BY <1>7 DEF StopsServing
  <2>. QED  BY <1>7, <2>1, <2>2, ClosesKeepsInv, ServingKeepsInv DEF Closes
<1>8. LcInv /\ [LcNext]_lcvars => LcInv'
  BY <1>3, <1>4, <1>5, <1>6, <1>7, BuildStepKeepsInv, StopStepKeepsInv, CloseStepKeepsInv,
     UserEndsKeepsInv DEF LcNext
<1>. QED  BY <1>1, <1>2, <1>8, LcInvInit, PTL DEF LcSpec

(* wire.go 590, 602 and 650: a build that fails closes what it built, a    *)
(* stop that waits to the end frees nothing under its user, and what only  *)
(* a request loads does not hold up the start.                             *)
THEOREM ServerGoesUpAndDownInOrder == LcSpec => []UpAndDownInOrder
<1>1. LcInv => FailedBuildLeavesNothing
  BY DEF LcInv, HeldFits, FailedBuildLeavesNothing
<1>2. LcInv => NothingFreedInUse
  <2> SUFFICES ASSUME LcInv, ~overtime, outcome = "well", phase \in {"closing", "exited"},
                      NEW u \in running, NEW r \in Needs(u), r \in Resource, r \notin held
               PROVE  BuildOf(r) = "absent"
    BY DEF NothingFreedInUse
  <2>1. u \in {"loop", "isolation"} /\ phase = "closing"
    BY DEF LcInv, LcTypeOK, RunningFits
  <2>2. step \in 1 .. 9 /\ Wanted \ ClosedBefore(step) \subseteq held
    BY <2>1 DEF LcInv, LcTypeOK, PlaceFits, HeldFits
  <2>3. CloseOrder[1] = "loop" /\ CloseOrder[2] = "streaming" /\ CloseOrder[3] = "isolation"
    BY DEF CloseOrder
  <2>4. r \notin ClosedBefore(step)
    <3>1. CASE u = "loop"
      <4>1. step = 1
        BY <2>1, <2>2, <3>1 DEF LcInv, RunningFits
      <4>. QED  BY <4>1, CloseOrders
    <3>2. CASE u = "isolation"
      <4>1. r \in {"isolationModels", "diarizer", "store"}
        BY <3>2 DEF Needs
      <4>2. step \in {1, 2, 3}
        BY <2>1, <2>2, <3>2 DEF LcInv, RunningFits
      <4>3. \A i \in 1 .. 9 : i < step => CloseOrder[i] \in {"loop", "streaming"}
        <5>1. \A i \in 1 .. 9 : i < 3 => i = 1 \/ i = 2
          OBVIOUS
        <5>. QED  BY <2>3, <4>2, <5>1
      <4>. QED  BY <4>1, <4>3 DEF ClosedBefore
    <3>. QED  BY <2>1, <3>1, <3>2
  <2>. QED  BY <2>2, <2>4 DEF Wanted
<1>3. StartsRegardless
  BY DEF StartsRegardless, BuildOf, BuildVAD, BuildDiarizer, BuildRealtime, BuildPostProc,
         BuildIsolation, SherpaRefused
<1>4. LcInv => UpAndDownInOrder
  BY <1>1, <1>2, <1>3 DEF UpAndDownInOrder
<1>. QED  BY <1>4, LifecycleInvariant, PTL

-----------------------------------------------------------------------------
(* The event hub.                                                          *)

Status == {"none", "queued", "running", "completed"}
Event == [gen : Nat, seq : Nat, status : Status]
Topic == [live : BOOLEAN, gen : Nat, seq : Nat, ring : Seq(Event), last : Status]
Client == [pc : {"away", "read", "watching", "ended"}, row : Status, sub : BOOLEAN, seen : Nat, returns : Nat,
           got : Seq(Event)]
Channel == [open : BOOLEAN, slow : BOOLEAN, q : Seq(Event)]

EhTypeOK ==
    /\ topic \in Topic /\ row \in Status
    /\ watcher \in [Watcher -> Client] /\ chan \in [Watcher -> Channel]

(* Events of one topic, one after the other.                               *)
Run(s) == \A i, j \in 1 .. Len(s) : s[j].gen = s[i].gen /\ s[j].seq - s[i].seq = j - i

InOrder(s) == \A i, j \in 1 .. Len(s) : (i < j /\ s[i].gen = s[j].gen /\ s[i].gen # 0) => s[i].seq < s[j].seq

BeforeAll(s, t) ==
    \A i \in 1 .. Len(s), j \in 1 .. Len(t) :
        s[i].gen < t[j].gen \/ (s[i].gen = t[j].gen /\ s[i].seq < t[j].seq)

(* The ring is a run of the topic there is, up to its latest event.        *)
RingOf(t) ==
    /\ Run(t.ring)
    /\ t.ring # <<>> => t.ring[Len(t.ring)].gen = t.gen /\ t.ring[Len(t.ring)].seq = t.seq
    /\ ~t.live => t.ring = <<>>
    /\ t.live => t.gen > 0

(* What a client was sent and what waits for it: in order, of topics there *)
(* have been, and of the present one nothing that is yet to come; one that *)
(* comes back has seen all it was sent of it.                              *)
StreamOf(x, c, t) ==
    /\ Run(c.q) /\ InOrder(x.got) /\ BeforeAll(x.got, c.q)
    /\ \A i \in 1 .. Len(c.q) : c.q[i].gen > 0 /\ c.q[i].gen <= t.gen
    /\ \A i \in 1 .. Len(x.got) : x.got[i].gen <= t.gen
    /\ t.live => /\ \A i \in 1 .. Len(x.got) : x.got[i].gen = t.gen => x.got[i].seq <= x.seen
                 /\ \A i \in 1 .. Len(x.got) : x.got[i].gen = t.gen => x.got[i].seq <= t.seq
                 /\ \A i \in 1 .. Len(c.q) : c.q[i].gen = t.gen => c.q[i].seq <= t.seq

(* Who is subscribed has the latest event last; whose channel was closed,  *)
(* and not for being slow, the final one.                                  *)
SubscribedOf(x, c, t) ==
    /\ x.sub => t.live /\ x.pc = "watching" /\ c.open /\ ~c.slow
    /\ (x.pc = "watching" /\ c.open) => x.sub
    /\ (x.sub /\ c.q # <<>>) => c.q[Len(c.q)].gen = t.gen /\ c.q[Len(c.q)].seq = t.seq
    /\ (x.pc = "watching" /\ ~c.open /\ ~c.slow /\ c.q # <<>>) => c.q[Len(c.q)].status = "completed"
    /\ (x.pc = "watching" /\ ~c.open /\ ~c.slow /\ c.q = <<>>) =>
          x.got # <<>> /\ x.got[Len(x.got)].status = "completed"

EhInv ==
    /\ EhTypeOK /\ RingOf(topic)
    /\ \A w \in Watcher : StreamOf(watcher[w], chan[w], topic) /\ SubscribedOf(watcher[w], chan[w], topic)

(* One more on both sides.                                                 *)
LEMMA OneMore ==
    ASSUME NEW a \in Nat, NEW b \in Nat, NEW c \in Nat, NEW n \in Nat, NEW i \in Nat, b - a = n - i, c = b + 1
    PROVE  c - a = n + 1 - i
  OBVIOUS

(* A run goes on with the next event, and its end is a run.                *)
LEMMA RunGoesOn ==
    ASSUME NEW s \in Seq(Event), NEW ev \in Event, Run(s),
           s # <<>> => ev.gen = s[Len(s)].gen /\ ev.seq = s[Len(s)].seq + 1
    PROVE  Run(Append(s, ev))
<1> DEFINE n == Len(s)
<1>1. /\ n \in Nat /\ Len(Append(s, ev)) = n + 1 /\ Append(s, ev)[n + 1] = ev
      /\ \A i \in 1 .. n : Append(s, ev)[i] = s[i] /\ s[i] \in Event
      /\ n > 0 => ev.gen = s[n].gen /\ ev.seq = s[n].seq + 1
      /\ \A i, j \in 1 .. n : s[j].gen = s[i].gen /\ s[j].seq - s[i].seq = j - i
  BY DEF Run
<1> HIDE DEF n
<1>2. \A i \in 1 .. n : s[i].gen = ev.gen /\ ev.seq - s[i].seq = n + 1 - i
  <2> SUFFICES ASSUME NEW i \in 1 .. n PROVE s[i].gen = ev.gen /\ ev.seq - s[i].seq = n + 1 - i
    OBVIOUS
  <2>1. n \in 1 .. n /\ s[i].seq \in Nat /\ s[n].seq \in Nat /\ ev.seq \in Nat
    BY <1>1, SMTT(30) DEF Event
  <2>2. s[n].gen = s[i].gen /\ s[n].seq - s[i].seq = n - i
    BY <1>1, <2>1
  <2>3. s[i].gen = ev.gen /\ ev.seq = s[n].seq + 1
    BY <1>1, <2>1, <2>2
  <2>4. s[i].seq \in Nat /\ s[n].seq \in Nat /\ ev.seq \in Nat /\ n \in Nat /\ i \in Nat
    BY <1>1, <2>1
  <2>5. s[n].seq - s[i].seq = n - i /\ ev.seq = s[n].seq + 1
    BY <2>2, <2>3
  <2>6. ev.seq - s[i].seq = n + 1 - i
    <3> HIDE DEF n
    <3>. QED  BY ONLY <2>4, <2>5, OneMore, SMTT(30)
  <2>. QED  BY <2>3, <2>6
<1>3. ASSUME NEW i \in 1 .. n + 1, NEW j \in 1 .. n + 1
      PROVE  Append(s, ev)[j].gen = Append(s, ev)[i].gen /\ Append(s, ev)[j].seq - Append(s, ev)[i].seq = j - i
  <2>1. ev.seq \in Nat /\ \A k \in 1 .. n : s[k].seq \in Nat
    BY <1>1 DEF Event
  <2>2. CASE i \in 1 .. n /\ j \in 1 .. n
    BY <1>1, <2>2
  <2>3. CASE i = n + 1 /\ j = n + 1
    BY <1>1, <2>1, <2>3
  <2>4. CASE i \in 1 .. n /\ j = n + 1
    BY <1>1, <1>2, <2>1, <2>4, SMTT(30)
  <2>5. CASE i = n + 1 /\ j \in 1 .. n
    <3>1. s[j].gen = ev.gen /\ ev.seq - s[j].seq = n + 1 - j /\ s[j].seq \in Nat
      BY <1>2, <2>1, <2>5
    <3> PICK a, b \in Nat : a = s[j].seq /\ b = ev.seq
      BY <2>1, <3>1
    <3>2. n \in Nat /\ j \in Nat /\ b - a = n + 1 - j
      BY <1>1, <2>5, <3>1
    <3>4. a - b = j - (n + 1)
      BY <3>2
    <3>3. Append(s, ev)[j] = s[j] /\ Append(s, ev)[i] = ev
      BY <1>1, <2>5
    <3>. QED  BY <2>5, <3>1, <3>4, <3>3
  <2>6. (i \in 1 .. n \/ i = n + 1) /\ (j \in 1 .. n \/ j = n + 1)
    BY <1>1
  <2>. QED  BY <2>2, <2>3, <2>4, <2>5, <2>6
<1>. QED  BY <1>1, <1>3 DEF Run

(* The end of a run is a run, and ends the same way.                       *)
LEMMA EndOfRun ==
    ASSUME NEW s \in Seq(Event), NEW k \in 0 .. Len(s)
    PROVE  LET e == SubSeq(s, k + 1, Len(s)) IN
           /\ e \in Seq(Event) /\ Len(e) = Len(s) - k
           /\ \A i \in 1 .. Len(s) - k : e[i] = s[k + i]
           /\ Run(s) => Run(e)
           /\ e # <<>> => s # <<>> /\ e[Len(e)] = s[Len(s)]
<1> DEFINE e == SubSeq(s, k + 1, Len(s))
<1>1. /\ e \in Seq(Event) /\ Len(e) = Len(s) - k
      /\ \A i \in 1 .. Len(s) - k : e[i] = s[k + i]
  OBVIOUS
<1> HIDE DEF e
<1>2. e # <<>> => s # <<>> /\ e[Len(e)] = s[Len(s)]
  <2> SUFFICES ASSUME e # <<>> PROVE s # <<>> /\ e[Len(e)] = s[Len(s)]
    OBVIOUS
  <2>1. Len(e) \in Nat /\ Len(e) # 0 /\ Len(s) \in Nat
    BY <1>1
  <2>2. Len(e) \in 1 .. Len(s) - k /\ k + Len(e) = Len(s)
    BY <1>1, <2>1
  <2>. QED  BY <1>1, <2>1, <2>2
<1>3. ASSUME Run(s) PROVE Run(e)
  <2> SUFFICES ASSUME NEW i \in 1 .. Len(e), NEW j \in 1 .. Len(e)
               PROVE  e[j].gen = e[i].gen /\ e[j].seq - e[i].seq = j - i
    BY DEF Run
  <2>1. k + i \in 1 .. Len(s) /\ k + j \in 1 .. Len(s) /\ e[i] = s[k + i] /\ e[j] = s[k + j]
    BY <1>1
  <2>2. s[k + j].gen = s[k + i].gen /\ s[k + j].seq - s[k + i].seq = (k + j) - (k + i)
    BY <1>3, <2>1 DEF Run
  <2>. QED  BY <2>1, <2>2
<1>. QED  BY <1>1, <1>2, <1>3 DEF e

(* What has been seen of a run is its beginning.                           *)
LEMMA SeenIsABeginning ==
    ASSUME NEW s \in Seq(Event), Run(s), NEW seen \in Nat
    PROVE  \E k \in 0 .. Len(s) :
               /\ Cardinality({i \in DOMAIN s : s[i].seq <= seen}) = k
               /\ \A i \in 1 .. Len(s) : s[i].seq <= seen <=> i <= k
<1>0. \A i \in 1 .. Len(s) : s[i] \in Event
  OBVIOUS
<1>1. /\ Len(s) \in Nat /\ DOMAIN s = 1 .. Len(s) /\ \A i \in 1 .. Len(s) : s[i].seq \in Nat
      /\ \A i, j \in 1 .. Len(s) : s[j].seq - s[i].seq = j - i
  <2>1. \A i \in 1 .. Len(s) : s[i].seq \in Nat
    BY <1>0 DEF Event
  <2>2. \A i, j \in 1 .. Len(s) : s[j].seq - s[i].seq = j - i
    BY DEF Run
  <2>3. Len(s) \in Nat /\ DOMAIN s = 1 .. Len(s)
    OBVIOUS
  <2>. QED  BY ONLY <2>1, <2>2, <2>3
<1>2. PICK k \in 0 .. Len(s) : \A i \in 1 .. Len(s) : s[i].seq <= seen <=> i <= k
  <2>1. CASE Len(s) = 0
    BY <2>1
  <2>2. CASE Len(s) > 0
    <3>1. 1 \in 1 .. Len(s) /\ s[1].seq \in Nat
      BY <1>1, <2>2
    <3>2. \A i \in 1 .. Len(s) : s[i].seq = s[1].seq + (i - 1)
      BY <1>1, <3>1
    <3> DEFINE b == seen - s[1].seq + 1
    <3>3. b \in Int /\ \A i \in 1 .. Len(s) : s[i].seq <= seen <=> i <= b
      BY <3>1, <3>2
    <3> HIDE DEF b
    <3>4. CASE b < 0
      BY <1>1, <3>3, <3>4
    <3>5. CASE b \in 0 .. Len(s)
      BY <3>3, <3>5
    <3>6. CASE b > Len(s)
      <4>1. Len(s) \in 0 .. Len(s) /\ \A i \in 1 .. Len(s) : i <= b /\ i <= Len(s)
        BY <1>1, <3>3, <3>6
      <4>. QED  BY <3>3, <4>1
    <3>7. b < 0 \/ b \in 0 .. Len(s) \/ b > Len(s)
      BY <1>1, <3>3
    <3>. QED  BY <3>4, <3>5, <3>6, <3>7
  <2>. QED  BY <1>1, <2>1, <2>2
<1>3. {i \in DOMAIN s : s[i].seq <= seen} = 1 .. k
  BY <1>1, <1>2
<1>4. Cardinality(1 .. k) = k
  BY <1>1, FS_Interval
<1>. QED  BY <1>2, <1>3, <1>4

(* What one event does to a client and its channel: nothing, if it is not  *)
(* subscribed; it waits in the channel; or the client is dropped for being *)
(* slow.                                                                   *)
LEMMA Published ==
    ASSUME NEW t \in Topic, NEW t2 \in Topic, NEW ev \in Event, NEW x \in Client, NEW x2 \in Client,
           NEW c \in Channel, NEW c2 \in Channel,
           StreamOf(x, c, t), SubscribedOf(x, c, t), t.live => t.gen > 0,
           t.live => ev.gen = t.gen /\ ev.seq = t.seq + 1,
           ~t.live => ev.gen = t.gen + 1,
           \/ t2.live /\ t2.gen = ev.gen /\ t2.seq = ev.seq
           \/ ~t2.live /\ t2.gen = t.gen /\ t.live /\ ev.status = "completed",
           x2.pc = x.pc /\ x2.got = x.got /\ x2.seen = x.seen,
           \/ ~x.sub /\ ~x2.sub /\ c2.q = c.q /\ c2.slow = c.slow /\ (c2.open = c.open \/ ~c2.open)
           \/ x.sub /\ x2.sub = t2.live /\ c2.q = Append(c.q, ev) /\ c2.slow = c.slow /\ c2.open = t2.live
           \/ x.sub /\ ~x2.sub /\ c2.q = c.q /\ c2.slow /\ ~c2.open
    PROVE  StreamOf(x2, c2, t2) /\ SubscribedOf(x2, c2, t2)
<1> DEFINE n == Len(c.q)
<1>1. /\ t.gen \in Nat /\ t.seq \in Nat /\ t2.gen \in Nat /\ t2.seq \in Nat /\ ev.gen \in Nat /\ ev.seq \in Nat
      /\ t.live \in BOOLEAN /\ t2.live \in BOOLEAN /\ x.seen \in Nat
      /\ x.sub \in BOOLEAN /\ x2.sub \in BOOLEAN /\ c.open \in BOOLEAN /\ c2.open \in BOOLEAN
      /\ c.slow \in BOOLEAN /\ c2.slow \in BOOLEAN
  BY DEF Topic, Event, Client, Channel
<1>2. c.q \in Seq(Event) /\ x.got \in Seq(Event)
  BY DEF Client, Channel
<1>3. \A i \in 1 .. n : c.q[i].gen \in Nat /\ c.q[i].seq \in Nat
  <2>1. \A i \in 1 .. n : c.q[i] \in Event
    BY <1>2
  <2>. QED  BY <2>1 DEF Event
<1>4. \A i \in 1 .. Len(x.got) : x.got[i].gen \in Nat /\ x.got[i].seq \in Nat
  <2>1. \A i \in 1 .. Len(x.got) : x.got[i] \in Event
    BY <1>2
  <2>. QED  BY <2>1 DEF Event
<1>5. /\ \A i \in 1 .. Len(x.got) : x.got[i].gen <= t2.gen
      /\ t2.live => \A i \in 1 .. Len(x.got) : x.got[i].gen = t2.gen => x.got[i].seq <= x.seen /\ x.got[i].seq <= t2.seq
  <2> SUFFICES ASSUME NEW i \in 1 .. Len(x.got)
               PROVE  /\ x.got[i].gen <= t2.gen
                      /\ (t2.live /\ x.got[i].gen = t2.gen) => x.got[i].seq <= x.seen /\ x.got[i].seq <= t2.seq
    OBVIOUS
  <2> PICK g, q \in Nat : g = x.got[i].gen /\ q = x.got[i].seq
    BY <1>4
  <2>1. g <= t.gen /\ ((t.live /\ g = t.gen) => q <= x.seen /\ q <= t.seq)
    BY DEF StreamOf
  <2>. QED  BY <1>1, <2>1, SMTT(30)
<1>6. \A i \in 1 .. n : /\ c.q[i].gen > 0 /\ c.q[i].gen <= t2.gen
                        /\ (t2.live /\ c.q[i].gen = t2.gen) => c.q[i].seq <= t2.seq
  <2> SUFFICES ASSUME NEW i \in 1 .. n
               PROVE  /\ c.q[i].gen > 0 /\ c.q[i].gen <= t2.gen
                      /\ (t2.live /\ c.q[i].gen = t2.gen) => c.q[i].seq <= t2.seq
    OBVIOUS
  <2> PICK g, q \in Nat : g = c.q[i].gen /\ q = c.q[i].seq
    BY <1>3
  <2>1. g > 0 /\ g <= t.gen /\ ((t.live /\ g = t.gen) => q <= t.seq)
    BY DEF StreamOf
  <2>. QED  BY <1>1, <2>1, SMTT(30)
<1>7. Run(c.q) /\ InOrder(x.got) /\ BeforeAll(x.got, c.q)
  BY DEF StreamOf
<1>8. CASE ~x.sub /\ ~x2.sub /\ c2.q = c.q /\ c2.slow = c.slow /\ (c2.open = c.open \/ ~c2.open)
  <2>1. StreamOf(x2, c2, t2)
    BY <1>5, <1>6, <1>7, <1>8 DEF StreamOf
  <2>2. SubscribedOf(x2, c2, t2)
    BY <1>1, <1>8 DEF SubscribedOf
  <2>. QED  BY <2>1, <2>2
<1>9. CASE x.sub /\ ~x2.sub /\ c2.q = c.q /\ c2.slow /\ ~c2.open
  <2>1. StreamOf(x2, c2, t2)
    BY <1>5, <1>6, <1>7, <1>9 DEF StreamOf
  <2>2. SubscribedOf(x2, c2, t2)
    BY <1>1, <1>9 DEF SubscribedOf
  <2>. QED  BY <2>1, <2>2
<1>10. CASE x.sub /\ x2.sub = t2.live /\ c2.q = Append(c.q, ev) /\ c2.slow = c.slow /\ c2.open = t2.live
  <2>1. t.live /\ x.pc = "watching" /\ c.open /\ ~c.slow /\ (c.q # <<>> => c.q[n].gen = t.gen /\ c.q[n].seq = t.seq)
    BY <1>10 DEF SubscribedOf
  <2>2. ev.gen = t.gen /\ ev.seq = t.seq + 1 /\ t.gen > 0 /\ t2.gen = t.gen
    BY <2>1
  <2>3. Run(c2.q)
    BY <1>2, <1>7, <1>10, <2>1, <2>2, RunGoesOn
  <2>4. /\ n \in Nat /\ Len(c2.q) = n + 1 /\ c2.q[n + 1] = ev /\ c2.q # <<>>
        /\ \A i \in 1 .. n : c2.q[i] = c.q[i]
    BY <1>2, <1>10
  <2> HIDE DEF n
  <2>5. \A i \in 1 .. n + 1 : i \in 1 .. n \/ i = n + 1
    BY <2>4
  <2>6. \A i \in 1 .. Len(c2.q) : /\ c2.q[i].gen > 0 /\ c2.q[i].gen <= t2.gen
                                  /\ (t2.live /\ c2.q[i].gen = t2.gen) => c2.q[i].seq <= t2.seq
    <3> SUFFICES ASSUME NEW i \in 1 .. n + 1
                 PROVE  /\ c2.q[i].gen > 0 /\ c2.q[i].gen <= t2.gen
                        /\ (t2.live /\ c2.q[i].gen = t2.gen) => c2.q[i].seq <= t2.seq
      BY <2>4
    <3>1. CASE i \in 1 .. n
      BY <1>6, <2>4, <3>1
    <3>2. CASE i = n + 1
      BY <1>1, <2>2, <2>4, <3>2
    <3>. QED  BY <2>5, <3>1, <3>2
  <2>7. BeforeAll(x.got, c2.q)
    <3> SUFFICES ASSUME NEW i \in 1 .. Len(x.got), NEW j \in 1 .. n + 1
                 PROVE  x.got[i].gen < c2.q[j].gen \/ (x.got[i].gen = c2.q[j].gen /\ x.got[i].seq < c2.q[j].seq)
      BY <2>4 DEF BeforeAll
    <3>1. CASE j \in 1 .. n
      <4>1. x.got[i].gen < c.q[j].gen \/ (x.got[i].gen = c.q[j].gen /\ x.got[i].seq < c.q[j].seq)
        BY <1>7, <3>1 DEF BeforeAll, n
      <4>. QED  BY <2>4, <3>1, <4>1
    <3>2. CASE j = n + 1
      <4> PICK g, q \in Nat : g = x.got[i].gen /\ q = x.got[i].seq
        BY <1>4
      <4>1. g <= t.gen /\ (g = t.gen => q <= t.seq)
        BY <2>1 DEF StreamOf
      <4>2. g < ev.gen \/ (g = ev.gen /\ q < ev.seq)
        BY <1>1, <2>2, <4>1
      <4>. QED  BY <2>4, <3>2, <4>2
    <3>. QED  BY <2>5, <3>1, <3>2
  <2>8. StreamOf(x2, c2, t2)
    BY <1>5, <1>7, <2>3, <2>6, <2>7 DEF StreamOf
  <2>9. SubscribedOf(x2, c2, t2)
    BY <1>1, <1>10, <2>1, <2>2, <2>4 DEF SubscribedOf
  <2>. QED  BY <2>8, <2>9
<1>. QED  BY <1>8, <1>9, <1>10

(* The ring after one more event.                                          *)
LEMMA RingGoesOn ==
    ASSUME NEW s \in Seq(Event), NEW ev \in Event, Run(s),
           s # <<>> => ev.gen = s[Len(s)].gen /\ ev.seq = s[Len(s)].seq + 1
    PROVE  LET r == LastOf(Append(s, ev), Ring) IN
           r \in Seq(Event) /\ Run(r) /\ (r # <<>> => r[Len(r)] = ev)
<1> DEFINE a == Append(s, ev)
           k == IF Len(a) > Ring THEN Len(a) - Ring ELSE 0
<1>1. a \in Seq(Event) /\ Run(a) /\ a[Len(a)] = ev
  BY RunGoesOn
<1>2. k \in 0 .. Len(a) /\ LastOf(a, Ring) = SubSeq(a, k + 1, Len(a))
  <2> HIDE DEF a
  <2>1. Len(a) \in Nat /\ Ring \in Nat
    BY <1>1, HubAssumption
  <2>2. CASE Len(a) > Ring
    BY <2>1, <2>2 DEF LastOf
  <2>3. CASE ~(Len(a) > Ring)
    BY <2>1, <2>3 DEF LastOf
  <2>. QED  BY <2>2, <2>3
<1> HIDE DEF a, k
<1>3. LET r == SubSeq(a, k + 1, Len(a)) IN r \in Seq(Event) /\ Run(r) /\ (r # <<>> => r[Len(r)] = ev)
  BY <1>1, <1>2, EndOfRun
<1>. QED  BY <1>2, <1>3 DEF a

(* One event keeps the ring and every watcher's stream.                    *)
LEMMA PublishKeepsInv ==
    ASSUME EhInv, row' \in Status, NEW s \in {"queued", "running", "completed"}, HubPublish(s)
    PROVE  EhInv'
<1>1. CASE ~topic.live /\ s = "completed"
  BY <1>1 DEF EhInv, EhTypeOK, HubPublish
<1>2. CASE ~(~topic.live /\ s = "completed")
  <2> DEFINE made0 == IF topic.live THEN topic ELSE [NoTopic EXCEPT !.live = TRUE, !.gen = topic.gen + 1]
  <2> PICK made : made = made0
    OBVIOUS
  <2> PICK next : next = [made EXCEPT !.seq = @ + 1, !.last = s]
    OBVIOUS
  <2> PICK ev : ev = JobEvent(next, s)
    OBVIOUS
  <2> PICK to : to = [w \in Watcher |-> Delivered(w, ev)]
    OBVIOUS
  <2>1. topic \in Topic /\ watcher \in [Watcher -> Client] /\ chan \in [Watcher -> Channel] /\ RingOf(topic)
    BY DEF EhInv, EhTypeOK
  <2>2. /\ topic' = IF s = "completed" THEN [NoTopic EXCEPT !.gen = topic.gen]
                    ELSE [next EXCEPT !.ring = LastOf(Append(next.ring, ev), Ring)]
        /\ chan' = [w \in Watcher |-> IF s = "completed" THEN [to[w] EXCEPT !.open = FALSE] ELSE to[w]]
        /\ watcher' = [w \in Watcher |-> [watcher[w] EXCEPT !.sub = @ /\ to[w].open /\ s # "completed"]]
    BY <1>2 DEF HubPublish
  <2>3. /\ made \in Topic /\ made.live
        /\ made.gen = (IF topic.live THEN topic.gen ELSE topic.gen + 1)
        /\ made.seq = (IF topic.live THEN topic.seq ELSE 0)
        /\ made.ring = (IF topic.live THEN topic.ring ELSE <<>>)
    <3>1. CASE topic.live
      BY <2>1, <3>1
    <3>2. CASE ~topic.live
      <4>1. made = [live |-> TRUE, gen |-> topic.gen + 1, seq |-> 0, ring |-> <<>>, last |-> "none"]
        BY <3>2 DEF NoTopic
      <4>2. <<>> \in Seq(Event) /\ topic.gen + 1 \in Nat
        BY <2>1 DEF Topic
      <4>3. "none" \in Status
        BY DEF Status
      <4> PICK g : g = topic.gen + 1
        OBVIOUS
      <4>4. made = [live |-> TRUE, gen |-> g, seq |-> 0, ring |-> <<>>, last |-> "none"] /\ g \in Nat
        BY <4>1, <4>2
      <4>5. made \in Topic
        BY ONLY <4>2, <4>3, <4>4 DEF Topic
      <4>6. made.live /\ made.gen = g /\ made.seq = 0 /\ made.ring = <<>>
        BY ONLY <4>4
      <4>. QED  BY <3>2, <4>5, <4>6
    <3>. QED  BY <3>1, <3>2
  <2> HIDE DEF made0
  <2>4. /\ next \in Topic /\ next.live /\ next.gen = made.gen /\ next.seq = made.seq + 1 /\ next.ring = made.ring
        /\ ev \in Event /\ ev.gen = next.gen /\ ev.seq = next.seq /\ ev.status = s
    <3>1. next \in Topic /\ next.live /\ next.gen = made.gen /\ next.seq = made.seq + 1 /\ next.ring = made.ring
      <4>1. s \in Status /\ made.seq + 1 \in Nat
        BY <2>3 DEF Topic, Status
      <4>2. next \in Topic
        BY <2>3, <4>1 DEF Topic
      <4>. QED  BY <2>3, <4>2 DEF Topic
    <3>2. next.gen \in Nat /\ next.seq \in Nat /\ s \in Status
      BY <3>1 DEF Topic, Status
    <3>. QED  BY <3>1, <3>2 DEF Event, JobEvent
  <2>5. /\ topic.live => topic.gen > 0 /\ ev.gen = topic.gen /\ ev.seq = topic.seq + 1
        /\ ~topic.live => ev.gen = topic.gen + 1
    BY <2>1, <2>3, <2>4 DEF RingOf
  <2>6. made.ring \in Seq(Event) /\ Run(made.ring)
    <3>1. Run(<<>>) /\ <<>> \in Seq(Event)
      BY DEF Run
    <3>. QED  BY <2>1, <2>3, <3>1 DEF RingOf, Topic
  <2>7. made.ring # <<>> => ev.gen = made.ring[Len(made.ring)].gen /\ ev.seq = made.ring[Len(made.ring)].seq + 1
    BY <2>1, <2>3, <2>4 DEF RingOf
  <2> PICK ring : ring = LastOf(Append(next.ring, ev), Ring)
    OBVIOUS
  <2>8. ring \in Seq(Event) /\ Run(ring) /\ (ring # <<>> => ring[Len(ring)] = ev)
    BY <2>4, <2>6, <2>7, RingGoesOn
  <2>9. /\ topic' \in Topic
        /\ \/ topic'.live /\ topic'.gen = ev.gen /\ topic'.seq = ev.seq /\ topic'.ring = ring
           \/ ~topic'.live /\ topic'.gen = topic.gen /\ topic'.ring = <<>> /\ topic.live /\ ev.status = "completed"
        /\ topic'.live <=> s # "completed"
    <3>1. CASE s = "completed"
      <4>1. topic' = [NoTopic EXCEPT !.gen = topic.gen]
        BY <2>2, <3>1
      <4>2. topic' = [live |-> FALSE, gen |-> topic.gen, seq |-> 0, ring |-> <<>>, last |-> "none"]
        BY <4>1 DEF NoTopic
      <4>3. <<>> \in Seq(Event) /\ topic.gen \in Nat
        BY <2>1 DEF Topic
      <4>4. topic' \in Topic /\ ~topic'.live /\ topic'.gen = topic.gen /\ topic'.ring = <<>>
        BY <4>2, <4>3 DEF Topic, Status
      <4>. QED  BY <1>2, <2>4, <3>1, <4>4
    <3>2. CASE s # "completed"
      <4>1. topic' = [next EXCEPT !.ring = ring]
        BY <2>2, <3>2
      <4>. QED  BY <2>4, <2>8, <3>2, <4>1 DEF Topic
    <3>. QED  BY <3>1, <3>2
  <2>10. RingOf(topic')
    <3>1. Run(<<>>)
      BY DEF Run
    <3>2. topic.gen \in Nat /\ ev.gen > 0
      BY <2>1, <2>5 DEF Topic
    <3>. QED  BY <2>8, <2>9, <3>1, <3>2 DEF RingOf
  <2>11. ASSUME NEW w \in Watcher
         PROVE  /\ watcher'[w] \in Client /\ chan'[w] \in Channel
                /\ StreamOf(watcher'[w], chan'[w], topic') /\ SubscribedOf(watcher'[w], chan'[w], topic')
    <3> PICK x \in Client : x = watcher[w]
      BY <2>1
    <3> PICK c \in Channel : c = chan[w]
      BY <2>1
    <3> PICK d : d = Delivered(w, ev)
      OBVIOUS
    <3> PICK x2 : x2 = watcher'[w]
      OBVIOUS
    <3> PICK c2 : c2 = chan'[w]
      OBVIOUS
    <3>1. c2 = (IF s = "completed" THEN [d EXCEPT !.open = FALSE] ELSE d)
      BY <2>2
    <3>2. x2 = [x EXCEPT !.sub = @ /\ d.open /\ s # "completed"]
      BY <2>2
    <3>3. d = (IF ~x.sub THEN c ELSE IF Len(c.q) < Ring + Spare THEN [c EXCEPT !.q = Append(@, ev)]
               ELSE [c EXCEPT !.open = FALSE, !.slow = TRUE])
      BY DEF Delivered
    <3>4. StreamOf(x, c, topic) /\ SubscribedOf(x, c, topic)
      BY DEF EhInv
    <3>5. x.sub => c.open /\ topic.live
      BY <3>4 DEF SubscribedOf
    <3>6. /\ d \in Channel
          /\ \/ ~x.sub /\ d.q = c.q /\ d.slow = c.slow /\ d.open = c.open
             \/ x.sub /\ d.q = Append(c.q, ev) /\ d.slow = c.slow /\ d.open
             \/ x.sub /\ d.q = c.q /\ d.slow /\ ~d.open
      <4>1. CASE ~x.sub
        BY <3>3, <4>1
      <4>2. CASE x.sub /\ Len(c.q) < Ring + Spare
        <5>1. d = [c EXCEPT !.q = Append(@, ev)]
          BY <3>3, <4>2
        <5>. QED  BY <2>4, <3>5, <4>2, <5>1, SMTT(30) DEF Channel
      <4>3. CASE x.sub /\ ~(Len(c.q) < Ring + Spare)
        <5>1. d = [c EXCEPT !.open = FALSE, !.slow = TRUE]
          BY <3>3, <4>3
        <5>. QED  BY <4>3, <5>1 DEF Channel
      <4>. QED  BY <4>1, <4>2, <4>3
    <3>7. /\ c2 \in Channel /\ c2.q = d.q /\ c2.slow = d.slow /\ (c2.open <=> d.open /\ s # "completed")
      <4>1. CASE s = "completed"
        BY <3>1, <3>6, <4>1 DEF Channel
      <4>2. CASE s # "completed"
        BY <3>1, <3>6, <4>2 DEF Channel
      <4>. QED  BY <4>1, <4>2
    <3>8. /\ x2 \in Client /\ x2.pc = x.pc /\ x2.got = x.got /\ x2.seen = x.seen
          /\ x2.sub <=> x.sub /\ d.open /\ s # "completed"
      BY <3>2, <3>6 DEF Client, Channel
    <3>9. \/ ~x.sub /\ ~x2.sub /\ c2.q = c.q /\ c2.slow = c.slow /\ (c2.open = c.open \/ ~c2.open)
          \/ x.sub /\ x2.sub = topic'.live /\ c2.q = Append(c.q, ev) /\ c2.slow = c.slow /\ c2.open = topic'.live
          \/ x.sub /\ ~x2.sub /\ c2.q = c.q /\ c2.slow /\ ~c2.open
      <4>1. x.sub \in BOOLEAN /\ x2.sub \in BOOLEAN /\ c2.open \in BOOLEAN /\ d.open \in BOOLEAN /\ topic'.live \in BOOLEAN
            /\ c.open \in BOOLEAN
        BY <2>9, <3>6, <3>7, <3>8 DEF Client, Channel, Topic
      <4>. QED  BY <2>9, <3>6, <3>7, <3>8, <4>1
    <3>10. StreamOf(x2, c2, topic') /\ SubscribedOf(x2, c2, topic')
      <4> PICK t \in Topic : t = topic
        BY <2>1
      <4> PICK t2 \in Topic : t2 = topic'
        BY <2>9
      <4>1. StreamOf(x, c, t) /\ SubscribedOf(x, c, t)
        BY <3>4
      <4>2. \/ t2.live /\ t2.gen = ev.gen /\ t2.seq = ev.seq
            \/ ~t2.live /\ t2.gen = t.gen /\ t.live /\ ev.status = "completed"
        BY <2>9
      <4>3. ev \in Event /\ (t.live => t.gen > 0 /\ ev.gen = t.gen /\ ev.seq = t.seq + 1)
            /\ (~t.live => ev.gen = t.gen + 1)
        BY <2>4, <2>5
      <4>4. \/ ~x.sub /\ ~x2.sub /\ c2.q = c.q /\ c2.slow = c.slow /\ (c2.open = c.open \/ ~c2.open)
            \/ x.sub /\ x2.sub = t2.live /\ c2.q = Append(c.q, ev) /\ c2.slow = c.slow /\ c2.open = t2.live
            \/ x.sub /\ ~x2.sub /\ c2.q = c.q /\ c2.slow /\ ~c2.open
        BY <3>9
      <4>5. x2 \in Client /\ x2.pc = x.pc /\ x2.got = x.got /\ x2.seen = x.seen /\ c2 \in Channel
        BY <3>7, <3>8
      <4>6. StreamOf(x2, c2, t2) /\ SubscribedOf(x2, c2, t2)
        BY ONLY <4>1, <4>2, <4>3, <4>4, <4>5, x \in Client, c \in Channel, t \in Topic, t2 \in Topic, Published
      <4>. QED  BY <4>6
    <3>. QED  BY <3>7, <3>8, <3>10
  <2>12. watcher' \in [Watcher -> Client] /\ chan' \in [Watcher -> Channel]
    BY <2>2, <2>11
  <2>. QED  BY <2>9, <2>10, <2>11, <2>12 DEF EhInv, EhTypeOK
<1>. QED  BY <1>1, <1>2

(* A step of one watcher leaves the others alone.                          *)
LEMMA OneWatcher ==
    ASSUME EhInv, row' \in Status, topic' = topic, NEW w \in Watcher, NEW x2 \in Client, NEW c2 \in Channel,
           StreamOf(x2, c2, topic), SubscribedOf(x2, c2, topic),
           watcher' = [watcher EXCEPT ![w] = x2], chan' = [chan EXCEPT ![w] = c2]
    PROVE  EhInv'
<1>1. EhTypeOK' /\ RingOf(topic')
  BY DEF EhInv, EhTypeOK
<1>2. ASSUME NEW v \in Watcher
      PROVE  StreamOf(watcher'[v], chan'[v], topic') /\ SubscribedOf(watcher'[v], chan'[v], topic')
  <2>1. watcher \in [Watcher -> Client] /\ chan \in [Watcher -> Channel]
    BY DEF EhInv, EhTypeOK
  <2>2. CASE v = w
    <3>1. watcher'[v] = x2 /\ chan'[v] = c2
      BY <2>1, <2>2
    <3>. QED  BY <3>1
  <2>3. CASE v # w
    <3>1. watcher'[v] = watcher[v] /\ chan'[v] = chan[v]
      BY <2>1, <2>3
    <3>. QED  BY <3>1 DEF EhInv
  <2>. QED  BY <2>2, <2>3
<1>. QED  BY <1>1, <1>2 DEF EhInv

(* What waits, without its first.                                          *)
LEMMA TailOfRun ==
    ASSUME NEW q \in Seq(Event), Run(q), q # <<>>
    PROVE  /\ Tail(q) \in Seq(Event) /\ Run(Tail(q)) /\ Len(Tail(q)) = Len(q) - 1 /\ Len(q) \in Nat \ {0}
           /\ Head(q) = q[1] /\ q[1] \in Event
           /\ \A i \in 1 .. Len(Tail(q)) : /\ Tail(q)[i] = q[i + 1] /\ i + 1 \in 1 .. Len(q)
                                           /\ q[i + 1].gen = q[1].gen /\ q[1].seq < q[i + 1].seq
           /\ Tail(q) # <<>> => Tail(q)[Len(Tail(q))] = q[Len(q)]
           /\ Tail(q) = <<>> => q[Len(q)] = q[1]
<1> PICK r : r = Tail(q)
  OBVIOUS
<1>1. /\ r \in Seq(Event) /\ Len(r) = Len(q) - 1 /\ Len(q) \in Nat \ {0} /\ Head(q) = q[1] /\ q[1] \in Event
      /\ \A i \in 1 .. Len(r) : r[i] = q[i + 1]
  OBVIOUS
<1>2. \A i \in 1 .. Len(r) : i + 1 \in 1 .. Len(q) /\ 1 \in 1 .. Len(q)
  BY <1>1
<1>3. Run(r)
  <2> SUFFICES ASSUME NEW i \in 1 .. Len(r), NEW j \in 1 .. Len(r)
               PROVE  r[j].gen = r[i].gen /\ r[j].seq - r[i].seq = j - i
    BY DEF Run
  <2>1. q[j + 1].gen = q[i + 1].gen /\ q[j + 1].seq - q[i + 1].seq = (j + 1) - (i + 1)
    BY <1>2 DEF Run
  <2>. QED  BY <1>1, <2>1
<1>4. ASSUME NEW i \in 1 .. Len(r) PROVE q[i + 1].gen = q[1].gen /\ q[1].seq < q[i + 1].seq
  <2>1. q[i + 1].gen = q[1].gen /\ q[i + 1].seq - q[1].seq = (i + 1) - 1
    BY <1>2 DEF Run
  <2>2. q[1] \in Event /\ q[i + 1] \in Event
    BY <1>2
  <2>3. q[1].seq \in Nat /\ q[i + 1].seq \in Nat
    BY <2>2 DEF Event
  <2>. QED  BY <2>1, <2>3
<1>5. r # <<>> => r[Len(r)] = q[Len(q)]
  <2> SUFFICES ASSUME r # <<>> PROVE r[Len(r)] = q[Len(q)]
    OBVIOUS
  <2>1. Len(r) \in 1 .. Len(r) /\ Len(r) + 1 = Len(q)
    BY <1>1
  <2>. QED  BY <1>1, <2>1
<1>6. r = <<>> => q[Len(q)] = q[1]
  <2> SUFFICES ASSUME r = <<>> PROVE q[Len(q)] = q[1]
    OBVIOUS
  <2>1. Len(q) = 1
    BY <1>1
  <2>. QED  BY <2>1
<1>. QED  BY <1>1, <1>2, <1>3, <1>4, <1>5, <1>6

(* What a client is sent by the replay: the end of the ring it has not seen.*)
LEMMA Replayed ==
    ASSUME NEW t \in Topic, NEW x \in Client, NEW c \in Channel, NEW x2 \in Client, NEW c2 \in Channel,
           RingOf(t), StreamOf(x, c, t), t.live,
           c2.q = SubSeq(t.ring, Cardinality({i \in DOMAIN t.ring : t.ring[i].seq <= x.seen}) + 1, Len(t.ring)),
           c2.open, ~c2.slow, x2.sub, x2.pc = "watching", x2.got = x.got, x2.seen = x.seen
    PROVE  StreamOf(x2, c2, t) /\ SubscribedOf(x2, c2, t)
<1> DEFINE s == t.ring
           n == Len(s)
<1>1. /\ s \in Seq(Event) /\ Run(s) /\ n \in Nat /\ t.gen \in Nat /\ t.gen > 0 /\ t.seq \in Nat /\ x.seen \in Nat
      /\ s # <<>> => s[n].gen = t.gen /\ s[n].seq = t.seq
  BY DEF RingOf, Topic, Client
<1> PICK r : r = c2.q
  OBVIOUS
<1>2. PICK k \in 0 .. n :
        /\ Cardinality({i \in DOMAIN s : s[i].seq <= x.seen}) = k
        /\ \A i \in 1 .. n : s[i].seq <= x.seen <=> i <= k
  BY <1>1, SeenIsABeginning
<1>3. r = SubSeq(s, k + 1, n)
  BY <1>2
<1>4. \A i \in 1 .. n : s[i].gen \in Nat /\ s[i].seq \in Nat
  <2>1. \A i \in 1 .. n : s[i] \in Event
    BY <1>1
  <2>. QED  BY <2>1 DEF Event
<1> HIDE DEF s, n
<1>5. /\ r \in Seq(Event) /\ Len(r) = n - k /\ Run(r)
      /\ \A i \in 1 .. n - k : r[i] = s[k + i]
      /\ r # <<>> => s # <<>> /\ r[Len(r)] = s[n]
  <2>1. k \in 0 .. Len(s) /\ r = SubSeq(s, k + 1, Len(s)) /\ n = Len(s) /\ s \in Seq(Event) /\ Run(s)
    BY <1>1, <1>3 DEF n
  <2>. QED  BY ONLY <2>1, EndOfRun
<1>6. ASSUME NEW i \in 1 .. n PROVE s[i].gen = t.gen /\ s[i].seq <= t.seq
  <2>1. n \in 1 .. n /\ s # <<>>
    BY <1>1 DEF n
  <2>2. s[n].gen = s[i].gen /\ s[n].seq - s[i].seq = n - i
    BY <1>1, <2>1 DEF Run, n
  <2>3. s[i].seq \in Nat /\ s[n].gen = t.gen /\ s[n].seq = t.seq /\ n \in Nat /\ i \in Nat /\ i <= n
    BY <1>1, <1>4, <2>1
  <2>. QED  BY <1>1, <2>2, <2>3
<1>7. ASSUME NEW i \in 1 .. Len(r)
      PROVE  r[i].gen = t.gen /\ r[i].seq <= t.seq /\ x.seen < r[i].seq /\ r[i].seq \in Nat
  <2>1. k + i \in 1 .. n /\ r[i] = s[k + i] /\ ~(k + i <= k)
    <3>1. n \in Nat /\ k \in Nat /\ k <= n /\ i \in 1 .. n - k
      BY <1>1, <1>5
    <3>2. k + i \in 1 .. n /\ ~(k + i <= k)
      BY ONLY <3>1
    <3>. QED  BY <1>5, <3>1, <3>2
  <2> PICK m \in 1 .. n : m = k + i
    BY <2>1
  <2>2. s[m].seq \in Nat /\ ~(s[m].seq <= x.seen)
    BY <1>2, <1>4, <2>1 DEF n
  <2>3. s[m].gen = t.gen /\ s[m].seq <= t.seq
    BY <1>6
  <2>4. r[i] = s[m] /\ x.seen \in Nat
    BY <1>1, <2>1
  <2>5. r[i].gen = t.gen /\ r[i].seq <= t.seq /\ r[i].seq \in Nat /\ ~(r[i].seq <= x.seen)
    BY ONLY <2>2, <2>3, <2>4
  <2>. QED  BY ONLY <2>4, <2>5
<1>8. BeforeAll(x.got, r)
  <2> SUFFICES ASSUME NEW i \in 1 .. Len(x.got), NEW j \in 1 .. Len(r)
               PROVE  x.got[i].gen < r[j].gen \/ (x.got[i].gen = r[j].gen /\ x.got[i].seq < r[j].seq)
    BY DEF BeforeAll
  <2>1. x.got[i] \in Event
    BY DEF Client
  <2> PICK g, q \in Nat : g = x.got[i].gen /\ q = x.got[i].seq
    BY <2>1 DEF Event
  <2>2. g <= t.gen /\ (g = t.gen => q <= x.seen)
    BY DEF StreamOf
  <2>3. r[j].gen = t.gen /\ x.seen < r[j].seq /\ r[j].seq \in Nat /\ x.seen \in Nat /\ t.gen \in Nat
    BY <1>1, <1>7
  <2> PICK e \in Nat : e = r[j].seq
    BY <2>3
  <2>4. g < t.gen \/ (g = t.gen /\ q < e)
    BY ONLY <2>2, <2>3, e = r[j].seq, g \in Nat, q \in Nat, e \in Nat
  <2>. QED  BY <2>3, <2>4
<1>9. StreamOf(x2, c2, t)
  <2>1. /\ InOrder(x.got) /\ \A i \in 1 .. Len(x.got) : x.got[i].gen <= t.gen
        /\ \A i \in 1 .. Len(x.got) : x.got[i].gen = t.gen => x.got[i].seq <= x.seen
        /\ \A i \in 1 .. Len(x.got) : x.got[i].gen = t.gen => x.got[i].seq <= t.seq
    BY DEF StreamOf
  <2>2. \A i \in 1 .. Len(r) : r[i].gen > 0 /\ r[i].gen <= t.gen /\ r[i].seq <= t.seq
    <3> SUFFICES ASSUME NEW i \in 1 .. Len(r) PROVE r[i].gen > 0 /\ r[i].gen <= t.gen /\ r[i].seq <= t.seq
      OBVIOUS
    <3>1. r[i].gen = t.gen /\ r[i].seq <= t.seq /\ t.gen \in Nat /\ t.gen > 0
      BY <1>1, <1>7
    <3>. QED  BY ONLY <3>1
  <2>. QED  BY <1>5, <1>8, <2>1, <2>2 DEF StreamOf
<1>10. SubscribedOf(x2, c2, t)
  BY <1>1, <1>5 DEF SubscribedOf
<1>. QED  BY <1>9, <1>10

(* What a client is sent next.                                             *)
LEMMA Forwarded ==
    ASSUME NEW t \in Topic, NEW x \in Client, NEW c \in Channel, NEW x2 \in Client, NEW c2 \in Channel,
           StreamOf(x, c, t), SubscribedOf(x, c, t), x.pc = "watching", c.q # <<>>,
           x2.got = Append(x.got, Head(c.q)), x2.seen = Head(c.q).seq, x2.pc = x.pc, x2.sub = x.sub,
           c2.q = Tail(c.q), c2.open = c.open, c2.slow = c.slow
    PROVE  StreamOf(x2, c2, t) /\ SubscribedOf(x2, c2, t)
<1> PICK q : q = c.q
  OBVIOUS
<1> PICK r : r = c2.q
  OBVIOUS
<1> PICK h : h = q[1]
  OBVIOUS
<1> PICK got \in Seq(Event) : got = x.got
  BY DEF Client
<1> PICK got2 \in Seq(Event) : got2 = x2.got
  BY DEF Client
<1>1. /\ r \in Seq(Event) /\ Run(r) /\ Len(r) = Len(q) - 1 /\ Len(q) \in Nat \ {0} /\ h \in Event
      /\ \A i \in 1 .. Len(r) : r[i] = q[i + 1] /\ i + 1 \in 1 .. Len(q) /\ r[i].gen = h.gen /\ h.seq < r[i].seq
      /\ r # <<>> => r[Len(r)] = q[Len(q)]
      /\ r = <<>> => q[Len(q)] = h
      /\ Head(q) = h /\ q \in Seq(Event)
  <2>1. q \in Seq(Event) /\ Run(q) /\ q # <<>> /\ r = Tail(q)
    BY DEF Channel, StreamOf
  <2>2. /\ r \in Seq(Event) /\ Run(r) /\ Len(r) = Len(q) - 1 /\ Len(q) \in Nat \ {0} /\ q[1] \in Event
        /\ \A i \in 1 .. Len(r) : r[i] = q[i + 1] /\ i + 1 \in 1 .. Len(q) /\ q[i + 1].gen = q[1].gen
                                  /\ q[1].seq < q[i + 1].seq
        /\ (r # <<>> => r[Len(r)] = q[Len(q)]) /\ (r = <<>> => q[Len(q)] = q[1]) /\ Head(q) = q[1]
    BY ONLY <2>1, TailOfRun
  <2>. QED  BY <2>1, <2>2
<1> DEFINE n == Len(got)
<1>2. /\ n \in Nat /\ Len(got2) = n + 1 /\ got2[n + 1] = h /\ got2 # <<>> /\ \A i \in 1 .. n : got2[i] = got[i]
  <2>1. got2 = Append(got, h)
    BY <1>1
  <2>. QED  BY <1>1, <2>1, SMTT(30)
<1>3. /\ h.gen \in Nat /\ h.seq \in Nat /\ t.gen \in Nat /\ t.seq \in Nat
      /\ \A i \in 1 .. n : got[i].gen \in Nat /\ got[i].seq \in Nat
      /\ \A i \in 1 .. Len(r) : r[i].gen \in Nat /\ r[i].seq \in Nat
  <2>1. \A i \in 1 .. n : got[i] \in Event
    OBVIOUS
  <2>2. \A i \in 1 .. Len(r) : r[i] \in Event
    BY <1>1
  <2>. QED  BY <1>1, <2>1, <2>2 DEF Event, Topic
<1>4. /\ h.gen > 0 /\ h.gen <= t.gen /\ ((t.live /\ h.gen = t.gen) => h.seq <= t.seq)
  BY <1>1 DEF StreamOf
<1>5. \A i \in 1 .. n : /\ got[i].gen < h.gen \/ (got[i].gen = h.gen /\ got[i].seq < h.seq)
                        /\ got[i].gen <= t.gen /\ ((t.live /\ got[i].gen = t.gen) => got[i].seq <= t.seq)
  BY <1>1 DEF StreamOf, BeforeAll
<1>6. \A i, j \in 1 .. n : (i < j /\ got[i].gen = got[j].gen /\ got[i].gen # 0) => got[i].seq < got[j].seq
  BY DEF StreamOf, InOrder
<1>7. \A i \in 1 .. Len(r) : /\ r[i].gen > 0 /\ r[i].gen <= t.gen
                             /\ (t.live /\ r[i].gen = t.gen) => r[i].seq <= t.seq
  BY <1>1 DEF StreamOf
<1> HIDE DEF n
<1>8. \A i \in 1 .. n + 1 : i \in 1 .. n \/ i = n + 1
  BY <1>2
<1>9. InOrder(got2)
  <2> SUFFICES ASSUME NEW i \in 1 .. n + 1, NEW j \in 1 .. n + 1, i < j, got2[i].gen = got2[j].gen, got2[i].gen # 0
               PROVE  got2[i].seq < got2[j].seq
    BY <1>2 DEF InOrder
  <2>1. i \in 1 .. n
    BY <1>2, <1>8
  <2>2. CASE j \in 1 .. n
    BY <1>2, <1>6, <2>1, <2>2
  <2>3. CASE j = n + 1
    <3>1. got[i].gen = h.gen /\ got2[i] = got[i] /\ got2[j] = h
      BY <1>2, <2>1, <2>3
    <3>2. got[i].gen < h.gen \/ (got[i].gen = h.gen /\ got[i].seq < h.seq)
      BY <1>5, <2>1
    <3>3. got[i].seq < h.seq
      BY <1>3, <3>1, <3>2
    <3>. QED  BY <3>1, <3>3
  <2>4. j \in 1 .. n \/ j = n + 1
    BY <1>8
  <2>. QED  BY <2>2, <2>3, <2>4
<1>10. BeforeAll(got2, r)
  <2> SUFFICES ASSUME NEW i \in 1 .. n + 1, NEW j \in 1 .. Len(r)
               PROVE  got2[i].gen < r[j].gen \/ (got2[i].gen = r[j].gen /\ got2[i].seq < r[j].seq)
    BY <1>2 DEF BeforeAll
  <2>1. r[j].gen = h.gen /\ h.seq < r[j].seq /\ r[j].seq \in Nat
    BY <1>1, <1>3
  <2>2. CASE i \in 1 .. n
    <3>1. got2[i] = got[i] /\ (got[i].gen < h.gen \/ (got[i].gen = h.gen /\ got[i].seq < h.seq)) /\ got[i].seq \in Nat
      BY <1>2, <1>3, <1>5, <2>2
    <3>2. h.seq \in Nat
      BY <1>3
    <3>. QED  BY ONLY <2>1, <3>1, <3>2
  <2>3. CASE i = n + 1
    BY <1>2, <2>1, <2>3
  <2>. QED  BY <1>8, <2>2, <2>3
<1>11. ASSUME NEW i \in 1 .. n + 1
       PROVE  got2[i].gen <= t.gen /\ ((t.live /\ got2[i].gen = t.gen) => got2[i].seq <= h.seq /\ got2[i].seq <= t.seq)
  <2>1. CASE i \in 1 .. n
    <3> PICK g, e, a, b \in Nat : g = got[i].gen /\ e = got[i].seq /\ a = h.gen /\ b = h.seq
      BY <1>3, <2>1
    <3>1. (g < a \/ (g = a /\ e < b)) /\ g <= t.gen /\ ((t.live /\ g = t.gen) => e <= t.seq) /\ a <= t.gen
      BY <1>4, <1>5, <2>1
    <3>2. t.gen \in Nat /\ t.seq \in Nat
      BY <1>3
    <3>3. g <= t.gen /\ ((t.live /\ g = t.gen) => e <= b /\ e <= t.seq)
      BY ONLY <3>1, <3>2, g \in Nat, e \in Nat, a \in Nat, b \in Nat
    <3>. QED  BY <1>2, <2>1, <3>3
  <2>2. CASE i = n + 1
    BY <1>2, <1>3, <1>4, <2>2
  <2>. QED  BY <1>8, <2>1, <2>2
<1>12. StreamOf(x2, c2, t)
  BY <1>1, <1>2, <1>7, <1>9, <1>10, <1>11 DEF StreamOf
<1>13. SubscribedOf(x2, c2, t)
  BY <1>1, <1>2 DEF SubscribedOf
<1>. QED  BY <1>12, <1>13

(* Nobody watches at first.                                                *)
LEMMA EhInvInit == EhInit => EhInv
<1> SUFFICES ASSUME EhInit PROVE EhInv
  OBVIOUS
<1>1. <<>> \in Seq(Event) /\ Len(<<>>) = 0 /\ {"none", "queued"} \subseteq Status /\ Run(<<>>)
  BY DEF Status, Run
<1>2. topic \in Topic /\ RingOf(topic)
  <2>1. topic = [live |-> FALSE, gen |-> 0, seq |-> 0, ring |-> <<>>, last |-> "none"]
    BY DEF EhInit, NoTopic
  <2>. QED  BY <1>1, <2>1 DEF Topic, RingOf
<1>3. ASSUME NEW w \in Watcher
      PROVE  /\ watcher[w] \in Client /\ chan[w] \in Channel
             /\ StreamOf(watcher[w], chan[w], topic) /\ SubscribedOf(watcher[w], chan[w], topic)
  <2>1. watcher[w] = [pc |-> "away", row |-> "none", sub |-> FALSE, seen |-> 0, returns |-> 0, got |-> <<>>]
    BY DEF EhInit
  <2>2. chan[w] = [open |-> FALSE, slow |-> FALSE, q |-> <<>>]
    BY DEF EhInit, NoChannel
  <2>3. watcher[w] \in Client /\ chan[w] \in Channel
    BY <1>1, <2>1, <2>2 DEF Client, Channel
  <2>4. StreamOf(watcher[w], chan[w], topic)
    BY <1>1, <2>1, <2>2 DEF StreamOf, InOrder, BeforeAll
  <2>5. SubscribedOf(watcher[w], chan[w], topic)
    BY <2>1, <2>2 DEF SubscribedOf
  <2>. QED  BY <2>3, <2>4, <2>5
<1>4. row \in Status /\ watcher \in [Watcher -> Client] /\ chan \in [Watcher -> Channel]
  BY <1>1, <1>3 DEF EhInit
<1>. QED  BY <1>2, <1>3, <1>4 DEF EhInv, EhTypeOK

(* Steps of the submission and of the worker that publish nothing.         *)
LEMMA HubAtRest == ASSUME EhInv, row' \in Status, UNCHANGED <<topic, watcher, chan>> PROVE EhInv'
  BY DEF EhInv, EhTypeOK

(* The submission and the worker keep the invariant.                       *)
LEMMA PublishingKeepsInv == ASSUME EhInv, Publishing \/ StageReads PROVE EhInv'
<1>1. row \in Status /\ {"queued", "running", "completed"} \subseteq Status
  BY DEF EhInv, EhTypeOK, Status
<1>2. CASE PublishQueued
  BY <1>1, <1>2, PublishKeepsInv DEF PublishQueued
<1>3. CASE PublishRunning \/ StagePublishes
  BY <1>1, <1>3, PublishKeepsInv DEF PublishRunning, StagePublishes
<1>4. CASE PublishCompleted
  BY <1>1, <1>4, PublishKeepsInv DEF PublishCompleted
<1>5. CASE WriteRunning \/ WriteCompleted \/ StageReads
  BY <1>1, <1>5, HubAtRest DEF WriteRunning, WriteCompleted, StageReads
<1>. QED  BY <1>2, <1>3, <1>4, <1>5 DEF Publishing

(* A watcher reads the row.                                                *)
LEMMA WatchReadsKeepsInv == ASSUME EhInv, NEW w \in Watcher, WatchReads(w) PROVE EhInv'
<1> PICK x \in Client : x = watcher[w]
  BY DEF EhInv, EhTypeOK
<1> PICK c \in Channel : c = chan[w]
  BY DEF EhInv, EhTypeOK
<1> PICK x2 : x2 = [x EXCEPT !.pc = "read", !.row = row, !.returns = @ + 1]
  OBVIOUS
<1>1. x.pc = "away" /\ row \in Status /\ StreamOf(x, c, topic) /\ SubscribedOf(x, c, topic)
  BY DEF WatchReads, EhInv, EhTypeOK
<1>2. /\ x2 \in Client /\ x2.pc = "read" /\ x2.sub = x.sub /\ x2.got = x.got /\ x2.seen = x.seen
  <2>1. x.returns + 1 \in Nat
    BY DEF Client
  <2>. QED  BY <1>1, <2>1 DEF Client
<1>3. StreamOf(x2, c, topic)
  BY <1>1, <1>2 DEF StreamOf
<1>4. SubscribedOf(x2, c, topic)
  BY <1>1, <1>2 DEF SubscribedOf
<1>5. watcher' = [watcher EXCEPT ![w] = x2] /\ chan' = [chan EXCEPT ![w] = c]
  <2>1. watcher \in [Watcher -> Client] /\ chan \in [Watcher -> Channel]
    BY DEF EhInv, EhTypeOK
  <2>2. watcher'[w] = x2 /\ \A v \in Watcher : v # w => watcher'[v] = watcher[v]
    BY <2>1 DEF WatchReads
  <2>3. watcher' \in [Watcher -> {watcher'[v] : v \in Watcher}]
    BY <2>1 DEF WatchReads
  <2>. QED  BY <2>1, <2>2, <2>3 DEF WatchReads
<1>. QED  BY <1>1, <1>2, <1>3, <1>4, <1>5, OneWatcher DEF WatchReads

(* A watcher subscribes, or is told the row it read.                       *)
LEMMA WatchSubscribesKeepsInv == ASSUME EhInv, NEW w \in Watcher, WatchSubscribes(w) PROVE EhInv'
<1> PICK x \in Client : x = watcher[w]
  BY DEF EhInv, EhTypeOK
<1> PICK c \in Channel : c = chan[w]
  BY DEF EhInv, EhTypeOK
<1>1. /\ x.pc = "read" /\ row \in Status /\ StreamOf(x, c, topic) /\ SubscribedOf(x, c, topic)
      /\ topic \in Topic /\ RingOf(topic)
      /\ watcher \in [Watcher -> Client] /\ chan \in [Watcher -> Channel]
      /\ row' = row /\ topic' = topic
  BY DEF WatchSubscribes, EhInv, EhTypeOK
<1>2. CASE topic.live
  <2> PICK x2 : x2 = [x EXCEPT !.pc = "watching", !.sub = TRUE]
    OBVIOUS
  <2> PICK s : s = Replay(w)
    OBVIOUS
  <2> PICK c2 : c2 = [open |-> TRUE, slow |-> FALSE, q |-> s]
    OBVIOUS
  <2>1. /\ x2 \in Client /\ x2.pc = "watching" /\ x2.sub /\ x2.got = x.got /\ x2.seen = x.seen
    BY DEF Client
  <2> PICK ring : ring = topic.ring
    OBVIOUS
  <2>2. ring \in Seq(Event) /\ Run(ring) /\ x.seen \in Nat
    BY <1>1 DEF RingOf, Topic, Client
  <2>3. s = SubSeq(topic.ring, Cardinality({i \in DOMAIN topic.ring : topic.ring[i].seq <= x.seen}) + 1,
                   Len(topic.ring))
    BY DEF Replay
  <2>4. s \in Seq(Event)
    <3>1. PICK k \in 0 .. Len(ring) :
            /\ Cardinality({i \in DOMAIN ring : ring[i].seq <= x.seen}) = k
            /\ \A i \in 1 .. Len(ring) : ring[i].seq <= x.seen <=> i <= k
      BY ONLY <2>2, SeenIsABeginning
    <3>2. s = SubSeq(ring, k + 1, Len(ring))
      BY <2>3, <3>1
    <3>. QED  BY ONLY <2>2, <3>2, k \in 0 .. Len(ring), EndOfRun
  <2>5. c2 \in Channel /\ c2.open /\ ~c2.slow /\ c2.q = s
    BY <2>4 DEF Channel
  <2>6. StreamOf(x2, c2, topic) /\ SubscribedOf(x2, c2, topic)
    <3> PICK t \in Topic : t = topic
      BY <1>1
    <3>1. RingOf(t) /\ StreamOf(x, c, t) /\ t.live
      BY <1>1, <1>2
    <3>2. c2.q = SubSeq(t.ring, Cardinality({i \in DOMAIN t.ring : t.ring[i].seq <= x.seen}) + 1, Len(t.ring))
      BY <2>3, <2>5
    <3>3. StreamOf(x2, c2, t) /\ SubscribedOf(x2, c2, t)
      BY ONLY <2>1, <2>5, <3>1, <3>2, x \in Client, c \in Channel, t \in Topic, Replayed
    <3>. QED  BY <3>3
  <2>7. watcher' = [watcher EXCEPT ![w] = x2] /\ chan' = [chan EXCEPT ![w] = c2]
    <3>1. watcher' = [watcher EXCEPT ![w] = [@ EXCEPT !.pc = "watching", !.sub = TRUE]]
      BY <1>2 DEF WatchSubscribes
    <3>2. chan' = [chan EXCEPT ![w] = [open |-> TRUE, slow |-> FALSE, q |-> Replay(w)]]
      BY <1>2 DEF WatchSubscribes
    <3>. QED  BY <1>1, <3>1, <3>2
  <2>. QED  BY <1>1, <2>1, <2>5, <2>6, <2>7, OneWatcher
<1>3. CASE ~topic.live
  <2> PICK e : e = [gen |-> 0, seq |-> 0, status |-> x.row]
    OBVIOUS
  <2> PICK got \in Seq(Event) : got = x.got
    BY DEF Client
  <2> PICK got2 : got2 = Append(got, e)
    OBVIOUS
  <2> PICK x2 : x2 = [x EXCEPT !.pc = "ended", !.got = got2]
    OBVIOUS
  <2>1. e \in Event /\ e.gen = 0
    BY DEF Client, Event
  <2>2. /\ Len(got) \in Nat /\ got2 \in Seq(Event) /\ Len(got2) = Len(got) + 1 /\ got2[Len(got) + 1] = e
        /\ \A i \in 1 .. Len(got) : got2[i] = got[i]
    BY <2>1
  <2>3. x2 \in Client /\ x2.pc = "ended" /\ x2.sub = x.sub /\ x2.got = got2
    BY <2>2 DEF Client
  <2>4. \A i \in 1 .. Len(got) + 1 : i \in 1 .. Len(got) \/ i = Len(got) + 1
    BY <2>2
  <2>5. InOrder(got2)
    <3> SUFFICES \A i, j \in 1 .. Len(got2) : (i < j /\ got2[i].gen = got2[j].gen /\ got2[i].gen # 0)
                                               => got2[i].seq < got2[j].seq
      BY ZenonT(30) DEF InOrder
    <3> TAKE i, j \in 1 .. Len(got2)
    <3> HAVE i < j /\ got2[i].gen = got2[j].gen /\ got2[i].gen # 0
    <3>1. i # Len(got) + 1 /\ j # Len(got) + 1
      BY <2>1, <2>2
    <3>2. i \in 1 .. Len(got) /\ j \in 1 .. Len(got)
      BY <2>4, <3>1
    <3>3. \A k, l \in 1 .. Len(got) : (k < l /\ got[k].gen = got[l].gen /\ got[k].gen # 0) => got[k].seq < got[l].seq
      BY <1>1 DEF StreamOf, InOrder
    <3>. QED  BY <2>2, <3>2, <3>3
  <2>6. /\ \A i \in 1 .. Len(c.q) : c.q[i].gen > 0 /\ c.q[i].gen <= topic.gen
        /\ \A i \in 1 .. Len(got) : got[i].gen <= topic.gen
        /\ Run(c.q)
        /\ \A i \in 1 .. Len(got), j \in 1 .. Len(c.q) :
              got[i].gen < c.q[j].gen \/ (got[i].gen = c.q[j].gen /\ got[i].seq < c.q[j].seq)
    BY <1>1 DEF StreamOf, BeforeAll
  <2>7. BeforeAll(got2, c.q)
    <3> SUFFICES ASSUME NEW i \in 1 .. Len(got) + 1, NEW j \in 1 .. Len(c.q)
                 PROVE  got2[i].gen < c.q[j].gen \/ (got2[i].gen = c.q[j].gen /\ got2[i].seq < c.q[j].seq)
      BY <2>2 DEF BeforeAll
    <3>1. CASE i \in 1 .. Len(got)
      BY <2>2, <2>6, <3>1
    <3>2. CASE i = Len(got) + 1
      BY <2>1, <2>2, <2>6, <3>2
    <3>. QED  BY <2>4, <3>1, <3>2
  <2>8. ASSUME NEW i \in 1 .. Len(got) + 1 PROVE got2[i].gen <= topic.gen
    <3>1. topic.gen \in Nat
      BY <1>1 DEF Topic
    <3>2. CASE i \in 1 .. Len(got)
      BY <2>2, <2>6, <3>2
    <3>3. CASE i = Len(got) + 1
      BY <2>1, <2>2, <3>1, <3>3
    <3>. QED  BY <2>4, <3>2, <3>3
  <2>9. StreamOf(x2, c, topic)
    BY <1>3, <2>2, <2>3, <2>5, <2>6, <2>7, <2>8, SMTT(60) DEF StreamOf
  <2>10. SubscribedOf(x2, c, topic)
    BY <1>1, <2>3 DEF SubscribedOf
  <2>11. watcher' = [watcher EXCEPT ![w] = x2] /\ chan' = [chan EXCEPT ![w] = c]
    <3>1. watcher'[w] = x2 /\ \A v \in Watcher : v # w => watcher'[v] = watcher[v]
      BY <1>1, <1>3 DEF WatchSubscribes
    <3>2. watcher' \in [Watcher -> {watcher'[v] : v \in Watcher}] /\ chan' = chan
      BY <1>1, <1>3 DEF WatchSubscribes
    <3>. QED  BY <1>1, <3>1, <3>2
  <2>. QED  BY <1>1, <2>3, <2>9, <2>10, <2>11, OneWatcher
<1>. QED  BY <1>2, <1>3

(* A watcher forwards the next event.                                      *)
LEMMA WatchForwardsKeepsInv == ASSUME EhInv, NEW w \in Watcher, WatchForwards(w) PROVE EhInv'
<1> PICK x \in Client : x = watcher[w]
  BY DEF EhInv, EhTypeOK
<1> PICK c \in Channel : c = chan[w]
  BY DEF EhInv, EhTypeOK
<1> PICK t \in Topic : t = topic
  BY DEF EhInv, EhTypeOK
<1> PICK x2 : x2 = [x EXCEPT !.got = Append(x.got, Head(c.q)), !.seen = Head(c.q).seq]
  OBVIOUS
<1> PICK c2 : c2 = [c EXCEPT !.q = Tail(@)]
  OBVIOUS
<1>1. /\ x.pc = "watching" /\ c.q # <<>> /\ StreamOf(x, c, t) /\ SubscribedOf(x, c, t)
      /\ watcher \in [Watcher -> Client] /\ chan \in [Watcher -> Channel]
      /\ row' \in Status /\ topic' = topic
  BY DEF WatchForwards, EhInv, EhTypeOK
<1>2. c.q \in Seq(Event) /\ Head(c.q) \in Event /\ Tail(c.q) \in Seq(Event) /\ x.got \in Seq(Event)
  BY <1>1 DEF Channel, Client
<1>3. Append(x.got, Head(c.q)) \in Seq(Event) /\ Head(c.q).seq \in Nat
  BY <1>2 DEF Event
<1>4. x2 \in Client /\ x2.got = Append(x.got, Head(c.q)) /\ x2.seen = Head(c.q).seq /\ x2.pc = x.pc /\ x2.sub = x.sub
  BY <1>3 DEF Client
<1>5. c2 \in Channel /\ c2.q = Tail(c.q) /\ c2.open = c.open /\ c2.slow = c.slow
  BY <1>2 DEF Channel
<1>6. StreamOf(x2, c2, t) /\ SubscribedOf(x2, c2, t)
  BY ONLY <1>1, <1>4, <1>5, x \in Client, c \in Channel, t \in Topic, Forwarded
<1>7. watcher' = [watcher EXCEPT ![w] = x2] /\ chan' = [chan EXCEPT ![w] = c2]
  <2>1. watcher'[w] = x2 /\ \A v \in Watcher : v # w => watcher'[v] = watcher[v]
    BY <1>1 DEF WatchForwards
  <2>2. chan'[w] = c2 /\ \A v \in Watcher : v # w => chan'[v] = chan[v]
    BY <1>1 DEF WatchForwards
  <2>3. watcher' \in [Watcher -> {watcher'[v] : v \in Watcher}] /\ chan' \in [Watcher -> {chan'[v] : v \in Watcher}]
    BY <1>1 DEF WatchForwards
  <2>. QED  BY <1>1, <2>1, <2>2, <2>3
<1>. QED  BY <1>1, <1>4, <1>5, <1>6, <1>7, OneWatcher

(* A stream ends, or the client goes away.                                 *)
LEMMA WatchEndsKeepsInv == ASSUME EhInv, NEW w \in Watcher, WatchEnds(w) \/ WatchLeaves(w) PROVE EhInv'
<1> PICK x \in Client : x = watcher[w]
  BY DEF EhInv, EhTypeOK
<1> PICK c \in Channel : c = chan[w]
  BY DEF EhInv, EhTypeOK
<1>1. /\ x.pc = "watching" /\ StreamOf(x, c, topic) /\ SubscribedOf(x, c, topic)
      /\ watcher \in [Watcher -> Client] /\ chan \in [Watcher -> Channel]
      /\ row' \in Status /\ topic' = topic
  BY DEF WatchEnds, WatchLeaves, EhInv, EhTypeOK
<1>2. CASE WatchEnds(w)
  <2> PICK p : p = IF watcher[w].got # <<>> /\ Last(watcher[w].got).status = "completed" THEN "ended" ELSE "away"
    OBVIOUS
  <2> PICK x2 : x2 = [x EXCEPT !.pc = p]
    OBVIOUS
  <2>1. ~c.open /\ p \in {"ended", "away"}
    BY <1>2 DEF WatchEnds
  <2>2. x2 \in Client /\ x2.pc \in {"ended", "away"} /\ x2.sub = x.sub /\ x2.got = x.got /\ x2.seen = x.seen
    BY <2>1 DEF Client
  <2>3. StreamOf(x2, c, topic)
    BY <1>1, <2>2 DEF StreamOf
  <2>4. SubscribedOf(x2, c, topic)
    BY <1>1, <2>1, <2>2 DEF SubscribedOf
  <2>5. watcher' = [watcher EXCEPT ![w] = x2] /\ chan' = [chan EXCEPT ![w] = c]
    <3>1. watcher' = [watcher EXCEPT ![w] = [@ EXCEPT !.pc = p]] /\ chan' = chan
      BY <1>2 DEF WatchEnds
    <3>. QED  BY <1>1, <3>1
  <2>. QED  BY <1>1, <2>2, <2>3, <2>4, <2>5, OneWatcher
<1>3. CASE WatchLeaves(w)
  <2> PICK x2 : x2 = [x EXCEPT !.pc = "away", !.sub = FALSE]
    OBVIOUS
  <2> PICK c2 : c2 = NoChannel
    OBVIOUS
  <2>1. x2 \in Client /\ x2.pc = "away" /\ x2.sub = FALSE /\ x2.got = x.got /\ x2.seen = x.seen
    BY DEF Client
  <2>2. c2 \in Channel /\ c2.q = <<>> /\ Len(c2.q) = 0 /\ ~c2.open
    <3>1. <<>> \in Seq(Event) /\ Len(<<>>) = 0
      OBVIOUS
    <3>2. c2 = [open |-> FALSE, slow |-> FALSE, q |-> <<>>]
      BY DEF NoChannel
    <3>. QED  BY <3>1, <3>2 DEF Channel
  <2>3. StreamOf(x2, c2, topic)
    BY <1>1, <2>1, <2>2 DEF StreamOf, Run, BeforeAll
  <2>4. SubscribedOf(x2, c2, topic)
    BY <2>1, <2>2 DEF SubscribedOf
  <2>5. watcher' = [watcher EXCEPT ![w] = x2] /\ chan' = [chan EXCEPT ![w] = c2]
    <3>1. watcher' = [watcher EXCEPT ![w] = [@ EXCEPT !.pc = "away", !.sub = FALSE]] /\ chan' = [chan EXCEPT ![w] = NoChannel]
      BY <1>3 DEF WatchLeaves
    <3>. QED  BY <1>1, <3>1
  <2>. QED  BY <1>1, <2>1, <2>2, <2>3, <2>4, <2>5, OneWatcher
<1>. QED  BY <1>2, <1>3

(* In every behaviour, the ring and every client's stream are in order.    *)
THEOREM HubInvariant == EhSpec => []EhInv
<1>1. EhInv /\ UNCHANGED ehvars => EhInv'
  BY DEF EhInv, EhTypeOK, ehvars
<1>2. EhInv /\ [EhNext]_ehvars => EhInv'
  BY <1>1, PublishingKeepsInv, WatchReadsKeepsInv, WatchSubscribesKeepsInv, WatchForwardsKeepsInv,
     WatchEndsKeepsInv DEF EhNext, Watching
<1>. QED  BY <1>2, EhInvInit, PTL DEF EhSpec

(* The last of two sequences, one after the other.                         *)
LEMMA LastOfJoin ==
    ASSUME NEW s \in Seq(Event), NEW t \in Seq(Event)
    PROVE  /\ t # <<>> => s \o t # <<>> /\ Last(s \o t) = t[Len(t)]
           /\ (t = <<>> /\ s # <<>>) => s \o t # <<>> /\ Last(s \o t) = s[Len(s)]
<1>1. s \o t \in Seq(Event) /\ Len(s \o t) = Len(s) + Len(t)
  OBVIOUS
<1>2. \A i \in 1 .. Len(s) : (s \o t)[i] = s[i]
  OBVIOUS
<1>3. \A i \in 1 .. Len(t) : (s \o t)[Len(s) + i] = t[i]
  OBVIOUS
<1>4. Len(s) \in Nat /\ Len(t) \in Nat /\ (t # <<>> => Len(t) > 0) /\ (t = <<>> => Len(t) = 0) /\ (s # <<>> => Len(s) > 0)
  OBVIOUS
<1>5. Last(s \o t) = (s \o t)[Len(s) + Len(t)] /\ (Len(s) + Len(t) > 0 => s \o t # <<>>)
  BY <1>1, <1>4 DEF Last
<1>6. CASE t # <<>>
  BY <1>3, <1>4, <1>5, <1>6
<1>7. CASE t = <<>>
  BY <1>2, <1>4, <1>5, <1>7
<1>. QED  BY <1>6, <1>7

(* hub.go 12, 20 and 79: however a client joins, lags, leaves and comes    *)
(* back, it is sent the events of its job in order, each once, without a   *)
(* gap in what waits for it, and with the last one.                        *)
THEOREM WatchersSeeAll == EhSpec => []EventsArrive
<1>1. ASSUME EhInv PROVE EventsArrive
  <2>1. ASSUME NEW w \in Watcher
        PROVE  /\ InOrder(watcher[w].got)
               /\ \A i \in 1 .. (Len(chan[w].q) - 1) : chan[w].q[i + 1].seq = chan[w].q[i].seq + 1
               /\ (watcher[w].sub /\ chan[w].q # <<>>) => Last(chan[w].q).seq = topic.seq
               /\ (watcher[w].pc = "watching" /\ ~chan[w].open /\ ~chan[w].slow)
                    => watcher[w].got \o chan[w].q # <<>> /\ Last(watcher[w].got \o chan[w].q).status = "completed"
    <3> PICK x \in Client : x = watcher[w]
      BY <1>1 DEF EhInv, EhTypeOK
    <3> PICK c \in Channel : c = chan[w]
      BY <1>1 DEF EhInv, EhTypeOK
    <3>1. StreamOf(x, c, topic) /\ SubscribedOf(x, c, topic)
      BY <1>1 DEF EhInv
    <3> PICK q \in Seq(Event) : q = c.q
      BY DEF Channel
    <3> PICK got \in Seq(Event) : got = x.got
      BY DEF Client
    <3>2. ASSUME NEW i \in 1 .. (Len(q) - 1) PROVE q[i + 1].seq = q[i].seq + 1
      <4>1. i \in 1 .. Len(q) /\ i + 1 \in 1 .. Len(q)
        OBVIOUS
      <4>2. q[i + 1].seq - q[i].seq = (i + 1) - i /\ q[i] \in Event /\ q[i + 1] \in Event
        BY <3>1, <4>1, SMTT(30) DEF StreamOf, Run
      <4>3. q[i].seq \in Nat /\ q[i + 1].seq \in Nat
        BY <4>2 DEF Event
      <4>. QED  BY <4>2, <4>3
    <3>3. (x.sub /\ q # <<>>) => Last(q).seq = topic.seq
      BY <3>1 DEF SubscribedOf, Last
    <3>4. ASSUME x.pc = "watching", ~c.open, ~c.slow
          PROVE  got \o q # <<>> /\ Last(got \o q).status = "completed"
      <4>1. CASE q # <<>>
        BY <3>1, <3>4, <4>1, LastOfJoin DEF SubscribedOf
      <4>2. CASE q = <<>>
        <5>1. got # <<>> /\ got[Len(got)].status = "completed"
          BY <3>1, <3>4, <4>2 DEF SubscribedOf
        <5>. QED  BY <4>2, <5>1, LastOfJoin
      <4>. QED  BY <4>1, <4>2
    <3>. QED  BY <3>1, <3>2, <3>3, <3>4 DEF StreamOf
  <2>. QED  BY <2>1 DEF EventsArrive, SeenOnceInOrder, NoGaps, FinalGoesOut, InOrder
<1>. QED  BY <1>1, HubInvariant, PTL

-----------------------------------------------------------------------------
(* The runs of the pipeline.                                               *)

(* A set of numbers that has a bound has a greatest.                       *)
LEMMA GreatestOfSome ==
    ASSUME NEW T, NEW b \in Nat, T \subseteq 0 .. b, T # {}
    PROVE  Max(T) \in T
<1> DEFINE R == {p \in Nat \X Nat : p[1] < p[2]}
           U == {b - n : n \in T}
<1>1. IsWellFoundedOn(R, Nat)
  BY NatLessThanWellFounded DEF OpToRel
<1>2. U \subseteq Nat /\ U # {}
  <2>1. ASSUME NEW n \in T PROVE b - n \in Nat
    <3>1. n \in 0 .. b
      OBVIOUS
    <3>. QED  BY <3>1
  <2>. QED  BY <2>1
<1>3. PICK x \in U : \A y \in U : <<y, x>> \notin R
  <2> HIDE DEF R, U
  <2>. QED  BY <1>1, <1>2, WFMin
<1>4. PICK n \in T : x = b - n
  OBVIOUS
<1>5. ASSUME NEW m \in T PROVE n >= m
  <2>1. b - m \in U /\ b - m \in Nat /\ x \in Nat
    BY <1>2
  <2>2. ~(b - m < x)
    BY <1>3, <2>1
  <2>. QED  BY <1>4, <2>1, <2>2
<1>. QED  BY <1>5 DEF Max

Computing == {"decoding", "diarizing", "posting"}
Unleased == {"starting", "decoded", "over"}
RunStage == Computing \cup Unleased \cup {"asr", "separated"}

PipelineRuns ==
    [stage : RunStage, split : BOOLEAN, diarize : BOOLEAN, punctuate : BOOLEAN, channels : Seq(Seq(Nat)),
     from : Nat, answers : Seq(Nat), found : Nat, batch : Seq(Nat)]

PlTypeOK ==
    /\ prun \in [Transcription -> PipelineRuns]
    /\ taken \in [Transcription -> {0, NumThreads}] /\ leased \subseteq Transcription

(* What was answered are the places before from, in order; what is being   *)
(* decoded are the next ones.                                              *)
InPlace(r) ==
    /\ r.answers = [i \in 1 .. r.from |-> i]
    /\ r.stage = "decoding" =>
          /\ Len(r.batch) \in 1 .. BatchMaxSize
          /\ \A k \in 1 .. Len(r.batch) : r.batch[k] = r.from + k
          /\ Len(r.batch) = 1 \/ BatchLength(Head(r.channels), r.batch) <= BatchMaxSamples

(* Slots are with who computes, a lease with who has got past acquire; and *)
(* together they are no more than there are.                               *)
PlInv ==
    /\ PlTypeOK
    /\ \A t \in Transcription :
          /\ InPlace(prun[t])
          /\ taken[t] # 0 => prun[t].stage \in Computing
          /\ t \in leased => prun[t].stage \notin Unleased
    /\ Weight(Transcription, taken) <= Slots

(* One run moves on, with the slots h.                                     *)
LEMMA RunMovesOn ==
    ASSUME PlInv, NEW t \in Transcription, NEW r \in PipelineRuns, NEW h \in {0, NumThreads},
           prun' = [prun EXCEPT ![t] = r], taken' = [taken EXCEPT ![t] = h],
           InPlace(r), h # 0 => r.stage \in Computing,
           h = 0 \/ h = taken[t] \/ (taken[t] = 0 /\ Free >= NumThreads),
           leased' \subseteq leased \cup {t}, t \in leased' => r.stage \notin Unleased
    PROVE  PlInv'
<1>1. /\ prun \in [Transcription -> PipelineRuns] /\ taken \in [Transcription -> {0, NumThreads}]
      /\ leased \subseteq Transcription /\ Weight(Transcription, taken) <= Slots
  BY DEF PlInv, PlTypeOK
<1>2. PlTypeOK'
  BY <1>1 DEF PlTypeOK
<1>3. ASSUME NEW u \in Transcription
      PROVE  /\ InPlace(prun'[u]) /\ (taken'[u] # 0 => prun'[u].stage \in Computing)
             /\ (u \in leased' => prun'[u].stage \notin Unleased)
  <2>1. CASE u = t
    <3>1. prun'[u] = r /\ taken'[u] = h
      BY <1>1, <2>1
    <3>. QED  BY <2>1, <3>1
  <2>2. CASE u # t
    <3>1. prun'[u] = prun[u] /\ taken'[u] = taken[u] /\ (u \in leased' => u \in leased)
      BY <1>1, <2>2
    <3>. QED  BY <3>1 DEF PlInv
  <2>. QED  BY <2>1, <2>2
<1>4. Weight(Transcription, taken') <= Slots
  <2> PICK a : a = taken
    OBVIOUS
  <2> PICK w : w = Weight(Transcription, a)
    OBVIOUS
  <2>1. NumThreads \in Nat /\ Slots \in Nat /\ IsFiniteSet(Transcription)
    BY PipelineAssumption
  <2>2. a \in [Transcription -> Nat] /\ h \in Nat /\ a[t] \in Nat
    BY <1>1, <2>1
  <2>3. Weight(Transcription, taken') = w - a[t] + h
    <3>1. Weight(Transcription, [a EXCEPT ![t] = h]) = Weight(Transcription, a) - a[t] + h
      BY ONLY <2>1, <2>2, t \in Transcription, WeightChange
    <3>2. taken' = [a EXCEPT ![t] = h]
      OBVIOUS
    <3>. QED  BY <3>1, <3>2
  <2>4. w \in Nat
    BY <2>1, <2>2, WeightNat
  <2>5. w <= Slots /\ (h = 0 \/ h = a[t] \/ (a[t] = 0 /\ Slots - w >= NumThreads))
    BY <1>1 DEF Free
  <2>. QED  BY <2>1, <2>2, <2>3, <2>4, <2>5
<1>5. Weight(Transcription, taken)' <= Slots
  BY <1>4
<1>. QED  BY <1>2, <1>3, <1>5 DEF PlInv

(* No run at first.                                                        *)
LEMMA StartIsARun ==
    /\ Start \in PipelineRuns /\ Start.from = 0 /\ Start.answers = <<>> /\ Start.stage = "starting"
    /\ <<>> = [i \in 1 .. 0 |-> i] /\ <<>> \in Seq(Nat) /\ <<>> \in Seq(Seq(Nat))
<1>1. <<>> = [i \in 1 .. 0 |-> i] /\ <<>> \in Seq(Nat) /\ <<>> \in Seq(Seq(Nat))
  OBVIOUS
<1>. QED  BY <1>1 DEF Start, PipelineRuns, RunStage, Computing, Unleased

(* Nobody has taken anything.                                              *)
LEMMA PlInvInit == PlInit => PlInv
<1> SUFFICES ASSUME PlInit PROVE PlInv
  OBVIOUS
<1>1. Weight(Transcription, taken) = 0
  BY WeightOfNothing DEF PlInit
<1>2. PlTypeOK
  BY StartIsARun DEF PlInit, PlTypeOK
<1>3. ASSUME NEW t \in Transcription PROVE InPlace(prun[t])
  BY StartIsARun DEF PlInit, InPlace
<1>. QED  BY <1>1, <1>2, <1>3, PipelineAssumption DEF PlInit, PlInv

(* The end of a batch is past its beginning, and what lies between fits.   *)
LEMMA BatchFits ==
    ASSUME NEW segs, NEW from \in Nat, Len(segs) \in Nat, from < Len(segs)
    PROVE  LET n == BatchEnd(segs, from) IN
           /\ n \in (from + 1) .. Len(segs) /\ n - from \in 1 .. BatchMaxSize
           /\ n = from + 1 \/ BatchLength(segs, Batch(from, n)) <= BatchMaxSamples
<1> DEFINE P(n) == n = from + 1 \/ BatchLength(segs, Batch(from, n)) <= BatchMaxSamples
           T == {n \in (from + 1) .. Len(segs) : n - from <= BatchMaxSize /\ P(n)}
<1>1. BatchMaxSize \in Nat \ {0}
  BY PipelineAssumption
<1>2. from + 1 \in T
  <2>1. from + 1 \in (from + 1) .. Len(segs) /\ (from + 1) - from <= BatchMaxSize
    BY <1>1
  <2>. QED  BY <2>1
<1>3. T \subseteq 0 .. Len(segs)
  <2> HIDE DEF P
  <2>. QED  OBVIOUS
<1>4. BatchEnd(segs, from) = Max(T)
  BY DEF BatchEnd
<1>5. Max(T) \in T
  <2> HIDE DEF T
  <2>. QED  BY <1>2, <1>3, GreatestOfSome
<1> PICK n : n = Max(T)
  OBVIOUS
<1>6. n \in (from + 1) .. Len(segs) /\ n - from <= BatchMaxSize /\ P(n)
  <2> HIDE DEF P
  <2>1. n \in T
    BY <1>5
  <2>. QED  BY <2>1
<1>7. n - from \in 1 .. BatchMaxSize
  BY <1>1, <1>6
<1>. QED  BY <1>4, <1>6, <1>7

(* Answers in their places, and the next ones, are answers in theirs.      *)
LEMMA PlacesGoOn ==
    ASSUME NEW from \in Nat, NEW a, a = [i \in 1 .. from |-> i], NEW b \in Seq(Nat),
           \A k \in 1 .. Len(b) : b[k] = from + k
    PROVE  a \o b = [i \in 1 .. from + Len(b) |-> i]
<1>1. a \in Seq(Nat) /\ Len(a) = from
  OBVIOUS
<1>2. Len(a \o b) = from + Len(b) /\ a \o b \in Seq(Nat) /\ Len(b) \in Nat
  BY <1>1
<1>3. DOMAIN (a \o b) = 1 .. from + Len(b)
  BY <1>2
<1>4. \A i \in 1 .. from : (a \o b)[i] = i
  BY <1>1
<1>5. \A k \in 1 .. Len(b) : (a \o b)[from + k] = from + k
  BY <1>1
<1>6. ASSUME NEW i \in 1 .. from + Len(b) PROVE (a \o b)[i] = i
  <2>1. i \in 1 .. from \/ i - from \in 1 .. Len(b)
    BY <1>2
  <2>2. CASE i - from \in 1 .. Len(b)
    <3> PICK k \in 1 .. Len(b) : k = i - from
      BY <2>2
    <3>1. from + k = i
      OBVIOUS
    <3>. QED  BY <1>5, <3>1
  <2>. QED  BY <1>4, <2>1, <2>2
<1>. QED  BY <1>2, <1>3, <1>6

(* A batch begins where the answers end.                                   *)
LEMMA BatchTakesKeepsInv == ASSUME PlInv, NEW t \in Transcription, BatchTakes(t) PROVE PlInv'
<1> PICK r \in PipelineRuns : r = prun[t]
  BY DEF PlInv, PlTypeOK
<1> PICK segs : segs = Head(r.channels)
  OBVIOUS
<1> PICK n : n = BatchEnd(segs, r.from)
  OBVIOUS
<1> PICK b : b = Batch(r.from, n)
  OBVIOUS
<1> PICK r2 : r2 = [r EXCEPT !.stage = "decoding", !.batch = b]
  OBVIOUS
<1>1. /\ r.stage = "asr" /\ r.channels # <<>> /\ r.from < Len(segs) /\ Free >= NumThreads
      /\ taken' = [taken EXCEPT ![t] = NumThreads] /\ leased' = leased
      /\ prun \in [Transcription -> PipelineRuns] /\ taken \in [Transcription -> {0, NumThreads}]
      /\ InPlace(r) /\ (taken[t] # 0 => r.stage \in Computing)
  BY DEF BatchTakes, Takes, Segments, PlInv, PlTypeOK
<1>2. r.from \in Nat /\ r.channels \in Seq(Seq(Nat)) /\ segs \in Seq(Nat)
  BY <1>1 DEF PipelineRuns
<1>3. /\ n \in (r.from + 1) .. Len(segs) /\ n - r.from \in 1 .. BatchMaxSize
      /\ n = r.from + 1 \/ BatchLength(segs, b) <= BatchMaxSamples
  BY <1>1, <1>2, BatchFits
<1>4. b \in Seq(Nat) /\ Len(b) = n - r.from /\ \A k \in 1 .. Len(b) : b[k] = r.from + k
  <2> PICK m \in Nat : m = n - r.from
    BY <1>2, <1>3
  <2>1. b = [k \in 1 .. m |-> r.from + k]
    BY DEF Batch
  <2>2. \A k \in 1 .. m : r.from + k \in Nat
    BY <1>2
  <2>3. b \in Seq(Nat) /\ Len(b) = m
    BY ONLY <2>1, <2>2, m \in Nat
  <2>. QED  BY ONLY <2>1, <2>3, m = n - r.from
<1>5. /\ r2 \in PipelineRuns /\ r2.stage = "decoding" /\ r2.batch = b /\ r2.from = r.from /\ r2.answers = r.answers
      /\ r2.channels = r.channels
  BY <1>4 DEF PipelineRuns, RunStage, Computing
<1>6. InPlace(r2)
  <2>0. n \in Nat
    BY <1>2, <1>3
  <2>1. Len(b) \in 1 .. BatchMaxSize /\ (Len(b) = 1 \/ BatchLength(segs, b) <= BatchMaxSamples)
    <3>1. CASE n = r.from + 1
      <4>1. Len(b) = 1
        <5> PICK f \in Nat : f = r.from
          BY <1>2
        <5>1. Len(b) = n - f /\ n = f + 1
          BY <1>4, <3>1
        <5>. QED  BY ONLY <5>1, f \in Nat
      <4>. QED  BY <1>3, <1>4, <4>1
    <3>. QED  BY <1>3, <1>4, <3>1
  <2>. QED  BY <1>1, <1>4, <1>5, <2>1 DEF InPlace
<1>7. prun' = [prun EXCEPT ![t] = r2]
  <2>1. b = Batch(prun[t].from, BatchEnd(Segments(t), prun[t].from))
    BY DEF Segments
  <2>2. prun' = [prun EXCEPT ![t].stage = "decoding", ![t].batch = b]
    BY <2>1 DEF BatchTakes
  <2>. QED  BY <1>1, <2>2
<1>8. taken[t] = 0 /\ r2.stage \in Computing /\ r2.stage \notin Unleased
  BY <1>1, <1>5 DEF Computing, Unleased
<1>. QED  BY <1>1, <1>5, <1>6, <1>7, <1>8, RunMovesOn

(* The slots of a batch come back with its answers.                        *)
LEMMA BatchDecodedKeepsInv == ASSUME PlInv, NEW t \in Transcription, BatchDecoded(t) PROVE PlInv'
<1> PICK r \in PipelineRuns : r = prun[t]
  BY DEF PlInv, PlTypeOK
<1> PICK r2 : r2 = [r EXCEPT !.stage = "asr", !.from = @ + Len(r.batch), !.answers = @ \o r.batch, !.batch = <<>>]
  OBVIOUS
<1>1. /\ r.stage = "decoding" /\ taken' = [taken EXCEPT ![t] = 0] /\ leased' = leased
      /\ prun \in [Transcription -> PipelineRuns] /\ InPlace(r)
  BY DEF BatchDecoded, Returned, PlInv, PlTypeOK
<1>2. r.from \in Nat /\ r.batch \in Seq(Nat) /\ r.answers \in Seq(Nat)
  BY DEF PipelineRuns
<1>3. r.answers \o r.batch = [i \in 1 .. r.from + Len(r.batch) |-> i]
  <2>1. r.answers = [i \in 1 .. r.from |-> i] /\ \A k \in 1 .. Len(r.batch) : r.batch[k] = r.from + k
    BY <1>1 DEF InPlace
  <2> PICK f \in Nat : f = r.from
    BY <1>2
  <2> PICK b \in Seq(Nat) : b = r.batch
    BY <1>2
  <2> PICK a : a = r.answers
    OBVIOUS
  <2>2. a = [i \in 1 .. f |-> i] /\ \A k \in 1 .. Len(b) : b[k] = f + k
    BY <2>1
  <2>3. a \o b = [i \in 1 .. f + Len(b) |-> i]
    BY ONLY <2>2, f \in Nat, b \in Seq(Nat), PlacesGoOn
  <2>. QED  BY <2>3
<1>4. r.answers \o r.batch \in Seq(Nat) /\ r.from + Len(r.batch) \in Nat /\ <<>> \in Seq(Nat)
  BY <1>2
<1>5. /\ r2 \in PipelineRuns /\ r2.stage = "asr" /\ r2.from = r.from + Len(r.batch) /\ r2.answers = r.answers \o r.batch
  BY <1>4 DEF PipelineRuns, RunStage
<1>6. InPlace(r2)
  BY <1>3, <1>5 DEF InPlace
<1>7. prun' = [prun EXCEPT ![t] = r2]
  <2>1. prun'[t] = r2 /\ \A u \in Transcription : u # t => prun'[u] = prun[u]
    BY <1>1 DEF BatchDecoded
  <2>2. prun' \in [Transcription -> {prun'[u] : u \in Transcription}]
    BY <1>1 DEF BatchDecoded
  <2>. QED  BY <1>1, <2>1, <2>2
<1>8. r2.stage \notin Unleased
  BY <1>5 DEF Unleased
<1>. QED  BY <1>1, <1>5, <1>6, <1>7, <1>8, RunMovesOn

(* A channel has been answered: the next one starts from its beginning.    *)
LEMMA ChannelDoneKeepsInv == ASSUME PlInv, NEW t \in Transcription, ChannelDone(t) PROVE PlInv'
<1> PICK r \in PipelineRuns : r = prun[t]
  BY DEF PlInv, PlTypeOK
<1> PICK r2 : r2 = [r EXCEPT !.channels = Tail(@), !.from = 0, !.answers = <<>>, !.found = @ + Len(r.answers)]
  OBVIOUS
<1>1. /\ r.stage = "asr" /\ r.channels # <<>> /\ taken' = taken /\ leased' = leased
      /\ prun \in [Transcription -> PipelineRuns] /\ taken \in [Transcription -> {0, NumThreads}]
      /\ (taken[t] # 0 => r.stage \in Computing)
  BY DEF ChannelDone, PlInv, PlTypeOK
<1>2. taken[t] = 0
  BY <1>1 DEF Computing
<1>3. Tail(r.channels) \in Seq(Seq(Nat)) /\ r.found + Len(r.answers) \in Nat
  BY <1>1 DEF PipelineRuns
<1>4. r2 \in PipelineRuns /\ r2.stage = "asr" /\ r2.from = 0 /\ r2.answers = <<>>
  BY <1>1, <1>3, StartIsARun DEF PipelineRuns
<1>5. InPlace(r2)
  BY <1>4, StartIsARun DEF InPlace
<1>6. prun' = [prun EXCEPT ![t] = r2]
  <2>1. prun'[t] = r2 /\ \A u \in Transcription : u # t => prun'[u] = prun[u]
    BY <1>1 DEF ChannelDone
  <2>2. prun' \in [Transcription -> {prun'[u] : u \in Transcription}]
    BY <1>1 DEF ChannelDone
  <2>. QED  BY <1>1, <2>1, <2>2
<1>7. taken' = [taken EXCEPT ![t] = 0]
  BY <1>1, <1>2
<1>8. r2.stage \notin Unleased
  BY <1>4 DEF Unleased
<1>. QED  BY <1>1, <1>4, <1>5, <1>6, <1>7, <1>8, RunMovesOn

(* Steps that only move a run on, and may take the slots or leave them.    *)
LEMMA StageMovesOn ==
    ASSUME PlInv, NEW t \in Transcription, NEW stage \in RunStage \ {"decoding"}, NEW h \in {0, NumThreads},
           Moves(t, stage), taken' = [taken EXCEPT ![t] = h], h # 0 => stage \in Computing,
           h = 0 \/ h = taken[t] \/ (taken[t] = 0 /\ Free >= NumThreads),
           leased' \subseteq leased \cup {t}, t \in leased' => stage \notin Unleased
    PROVE  PlInv'
<1> PICK r \in PipelineRuns : r = prun[t]
  BY DEF PlInv, PlTypeOK
<1> PICK r2 : r2 = [r EXCEPT !.stage = stage]
  OBVIOUS
<1>1. /\ r2 \in PipelineRuns /\ r2.stage = stage /\ r2.from = r.from /\ r2.answers = r.answers
  BY DEF PipelineRuns
<1>2. InPlace(r2)
  BY <1>1 DEF PlInv, InPlace
<1>3. prun' = [prun EXCEPT ![t] = r2]
  BY DEF Moves, PlInv, PlTypeOK
<1>. QED  BY <1>1, <1>2, <1>3, RunMovesOn, ZenonT(60)

(* A run is over, however it ends: nothing is kept.                        *)
LEMMA EndsKeepsInv == ASSUME PlInv, NEW t \in Transcription, Ends(t) PROVE PlInv'
<1> PICK r2 : r2 = [Start EXCEPT !.stage = "over"]
  OBVIOUS
<1>1. r2 \in PipelineRuns /\ r2.stage = "over" /\ r2.from = 0 /\ r2.answers = <<>>
  BY StartIsARun DEF PipelineRuns, RunStage, Unleased
<1>2. InPlace(r2)
  BY <1>1, StartIsARun DEF InPlace
<1>3. /\ prun' = [prun EXCEPT ![t] = r2] /\ taken' = [taken EXCEPT ![t] = 0] /\ leased' \subseteq leased \cup {t}
      /\ t \notin leased'
  BY DEF Ends, Returned
<1>. QED  BY <1>1, <1>2, <1>3, RunMovesOn

(* The channels are decoded.                                               *)
LEMMA DecodesKeepsInv ==
    ASSUME PlInv, NEW t \in Transcription, NEW channels \in Seq(Segmentations), NEW d \in BOOLEAN, NEW p \in BOOLEAN,
           DecodesAudio(t, channels, d, p)
    PROVE  PlInv'
<1>0. (Len(channels) > 1) \in BOOLEAN
  <2>1. Len(channels) \in Nat
    OBVIOUS
  <2>2. CASE Len(channels) > 1
    BY <2>2, Zenon
  <2>3. CASE ~(Len(channels) > 1)
    <3>1. (Len(channels) > 1) = FALSE
      BY <2>1, <2>3
    <3>. QED  BY <3>1, Zenon
  <2>. QED  BY <2>2, <2>3
<1> PICK s \in BOOLEAN : s = (Len(channels) > 1)
  BY <1>0, Zenon
<1> PICK r2 : r2 = [Start EXCEPT !.stage = "decoded", !.split = s, !.diarize = d, !.punctuate = p, !.channels = channels]
  OBVIOUS
<1>1. channels \in Seq(Seq(Nat))
  BY PipelineAssumption
<1>2. r2 \in PipelineRuns /\ r2.stage = "decoded" /\ r2.from = 0 /\ r2.answers = <<>>
  BY <1>1, StartIsARun DEF PipelineRuns, RunStage, Unleased
<1>3. InPlace(r2)
  BY <1>2, StartIsARun DEF InPlace
<1>4. /\ prun[t].stage = "starting" /\ taken' = taken /\ leased' = leased /\ prun' = [prun EXCEPT ![t] = r2]
  BY DEF DecodesAudio
<1>5. taken \in [Transcription -> {0, NumThreads}] /\ taken[t] = 0 /\ t \notin leased
  BY <1>4 DEF PlInv, PlTypeOK, Computing, Unleased
<1>6. taken' = [taken EXCEPT ![t] = 0]
  BY <1>4, <1>5
<1>. QED  BY <1>2, <1>3, <1>4, <1>5, <1>6, RunMovesOn

(* The other steps.                                                        *)
LEMMA OtherStepsKeepInv ==
    ASSUME PlInv, NEW t \in Transcription,
           Leases(t) \/ SpeakersTake(t) \/ SpeakersFound(t) \/ PostTakes(t) \/ PostDone(t) \/ Fails(t)
    PROVE  PlInv'
<1>1. /\ taken \in [Transcription -> {0, NumThreads}] /\ (taken[t] # 0 => prun[t].stage \in Computing)
      /\ (t \in leased => prun[t].stage \notin Unleased) /\ 0 \in {0, NumThreads} /\ NumThreads \in {0, NumThreads}
  BY DEF PlInv, PlTypeOK
<1>2. {"asr", "diarizing", "separated", "posting"} \subseteq RunStage \ ({"decoding"} \cup Unleased)
  BY DEF RunStage, Computing, Unleased
<1>3. CASE Leases(t)
  <2>1. /\ prun[t].stage = "decoded" /\ Moves(t, "asr") /\ taken' = taken /\ leased' = leased \cup {t}
    BY <1>3 DEF Leases
  <2>2. taken[t] = 0
    BY <1>1, <2>1 DEF Computing
  <2>3. taken' = [taken EXCEPT ![t] = 0]
    BY <1>1, <2>1, <2>2
  <2>. QED  BY <1>1, <1>2, <2>1, <2>2, <2>3, StageMovesOn
<1>4. CASE SpeakersTake(t)
  <2>1. prun[t].stage = "asr" /\ leased' = leased /\ taken[t] = 0
    BY <1>1, <1>4 DEF SpeakersTake, Computing
  <2>2. CASE RunsDiarizer(t)
    <3>1. Moves(t, "diarizing") /\ Free >= NumThreads /\ taken' = [taken EXCEPT ![t] = NumThreads]
      BY <1>4, <2>2 DEF SpeakersTake, Takes
    <3>2. "diarizing" \in Computing
      BY DEF Computing
    <3>. QED  BY <1>1, <1>2, <2>1, <3>1, <3>2, StageMovesOn
  <2>3. CASE ~RunsDiarizer(t)
    <3>1. Moves(t, "separated") /\ taken' = taken
      BY <1>4, <2>3 DEF SpeakersTake
    <3>2. taken' = [taken EXCEPT ![t] = 0]
      BY <1>1, <2>1, <3>1
    <3>. QED  BY <1>1, <1>2, <2>1, <3>1, <3>2, StageMovesOn
  <2>. QED  BY <2>2, <2>3
<1>5. CASE SpeakersFound(t)
  <2>1. Moves(t, "separated") /\ taken' = [taken EXCEPT ![t] = 0] /\ leased' = leased
    BY <1>5 DEF SpeakersFound, Returned
  <2>. QED  BY <1>1, <1>2, <2>1, StageMovesOn
<1>6. CASE PostTakes(t)
  <2>1. prun[t].stage = "separated" /\ leased' = leased /\ taken[t] = 0 /\ Moves(t, "posting")
    BY <1>1, <1>6 DEF PostTakes, Computing
  <2>2. "posting" \in Computing
    BY DEF Computing
  <2>3. CASE prun[t].punctuate
    <3>1. Free >= NumThreads /\ taken' = [taken EXCEPT ![t] = NumThreads]
      BY <1>6, <2>3 DEF PostTakes, Takes
    <3>. QED  BY <1>1, <1>2, <2>1, <2>2, <3>1, StageMovesOn
  <2>4. CASE ~prun[t].punctuate
    <3>1. taken' = taken
      BY <1>6, <2>4 DEF PostTakes
    <3>2. taken' = [taken EXCEPT ![t] = 0]
      BY <1>1, <2>1, <3>1
    <3>. QED  BY <1>1, <1>2, <2>1, <3>2, StageMovesOn
  <2>. QED  BY <2>3, <2>4
<1>7. CASE PostDone(t) \/ Fails(t)
  BY <1>7, EndsKeepsInv DEF PostDone, Fails
<1>. QED  BY <1>3, <1>4, <1>5, <1>6, <1>7

(* In every behaviour, slots, leases and answers are where they belong.    *)
THEOREM PipelineInvariant == PlSpec => []PlInv
<1>1. PlInv /\ UNCHANGED plvars => PlInv'
  BY DEF PlInv, PlTypeOK, plvars
<1>2. ASSUME PlInv, PlNext PROVE PlInv'
  <2>1. PICK t \in Transcription :
           \/ \E channels \in {<<s>> : s \in Segmentations} \cup {<<s, r>> : s, r \in Segmentations},
                 d, p \in BOOLEAN : DecodesAudio(t, channels, d, p)
           \/ Leases(t) \/ BatchTakes(t) \/ BatchDecoded(t) \/ ChannelDone(t)
           \/ SpeakersTake(t) \/ SpeakersFound(t) \/ PostTakes(t) \/ PostDone(t)
           \/ Fails(t)
    BY <1>2 DEF PlNext
  <2>2. {<<s>> : s \in Segmentations} \cup {<<s, r>> : s, r \in Segmentations} \subseteq Seq(Segmentations)
    <3>1. ASSUME NEW s \in Segmentations, NEW r \in Segmentations
          PROVE  <<s>> \in Seq(Segmentations) /\ <<s, r>> \in Seq(Segmentations)
      OBVIOUS
    <3>2. ASSUME NEW c \in {<<s>> : s \in Segmentations} PROVE c \in Seq(Segmentations)
      BY <3>1
    <3>3. ASSUME NEW c \in {<<s, r>> : s, r \in Segmentations} PROVE c \in Seq(Segmentations)
      <4>1. PICK s \in Segmentations, r \in Segmentations : c = <<s, r>>
        BY <3>3
      <4>. QED  BY <3>1, <4>1
    <3> DEFINE A == {<<s>> : s \in Segmentations}
               B == {<<s, r>> : s, r \in Segmentations}
    <3>4. (\A c \in A : c \in Seq(Segmentations)) /\ (\A c \in B : c \in Seq(Segmentations))
      BY <3>2, <3>3
    <3>5. A \cup B \subseteq Seq(Segmentations)
      <4> HIDE DEF A, B
      <4>. QED  BY <3>4
    <3>. QED  BY <3>5
  <2>3. CASE \E channels \in {<<s>> : s \in Segmentations} \cup {<<s, r>> : s, r \in Segmentations},
                 d, p \in BOOLEAN : DecodesAudio(t, channels, d, p)
    BY <1>2, <2>2, <2>3, DecodesKeepsInv
  <2>. QED  BY <1>2, <2>1, <2>3, BatchTakesKeepsInv, BatchDecodedKeepsInv, ChannelDoneKeepsInv, OtherStepsKeepInv
<1>. QED  BY <1>1, <1>2, PlInvInit, PTL DEF PlSpec

(* pipeline.go 331 and 341-345: however many runs share the slots, fail,   *)
(* panic and are cancelled, none waits or ends with slots in hand, all     *)
(* slots come back, and recognition i of a channel is segment i's, in      *)
(* batches that are never empty and within their limits.                   *)
THEOREM PipelineSharesTheMachine == PlSpec => []RunsShareTheMachine
<1>1. ASSUME PlInv PROVE RunsShareTheMachine
  <2>1. NobodyWaitsWithSlots
    BY <1>1 DEF PlInv, NobodyWaitsWithSlots, Computing, Unleased
  <2>2. RecognitionsLineUp
    BY <1>1 DEF PlInv, InPlace, RecognitionsLineUp, Segments
  <2>3. taken \in [Transcription -> Nat] /\ Slots \in Nat /\ IsFiniteSet(Transcription)
    BY <1>1, PipelineAssumption DEF PlInv, PlTypeOK
  <2>4. Free >= 0
    <3>1. Weight(Transcription, taken) \in Nat
      BY <2>3, WeightNat
    <3>. QED  BY <1>1, <2>3, <3>1 DEF PlInv, Free
  <2>5. ASSUME \A t \in Transcription : prun[t].stage \in {"starting", "over"} PROVE Free = Slots /\ leased = {}
    <3>1. \A t \in Transcription : taken[t] = 0 /\ t \notin leased
      BY <1>1, <2>5 DEF PlInv, Computing, Unleased
    <3>2. Weight(Transcription, taken) = 0
      BY <3>1, WeightOfNothing
    <3>. QED  BY <1>1, <2>3, <3>1, <3>2 DEF Free, PlInv, PlTypeOK
  <2>. QED  BY <2>1, <2>2, <2>4, <2>5 DEF RunsShareTheMachine, SlotsComeBack
<1>. QED  BY <1>1, PipelineInvariant, PTL

-----------------------------------------------------------------------------
(* A realtime connection: its audio, its settings and its items.           *)

Formats == {Wide, Narrow}
Languages == Locale \cup {NoLocale}

Messages == {<<>>, <<"completed">>, <<"created", "completed">>, <<"committed", "created", "completed">>}

WiTypeOK ==
    /\ conn \in [stage : {"asking", "open", "over"}, many : BOOLEAN, sent : Nat, format : Formats, carry : Seq(Nat),
                 auto : BOOLEAN, lang : Languages]
    /\ wsess \in [opened : BOOLEAN, auto : BOOLEAN, lang : Languages]
    /\ stated \in [format : Formats, auto : BOOLEAN, lang : Languages, partly : BOOLEAN]
    /\ sampled \in Seq(Seq(Nat)) /\ since \in Nat \ {0}
    /\ sending \in Messages /\ items \in Nat /\ lastItem \in Nat /\ chain \in Seq(Nat \X Nat)

(* The samples, each in its place, and after them the bytes that wait.     *)
InSamples(s, w, first) == \A i \in 1 .. Len(s) : s[i] = [k \in 1 .. w |-> first + (i - 1) * w + k - 1]
Consecutive(s, first) == \A k \in 1 .. Len(s) : s[k] = first + k - 1

Whole == Len(sampled) * Width(conn.format)

AudioFits ==
    /\ InSamples(sampled, Width(conn.format), since)
    /\ Consecutive(conn.carry, since + Whole)
    /\ Len(conn.carry) < Width(conn.format)
    /\ since + Whole + Len(conn.carry) = conn.sent + 1

(* Until an item has been created, the one before it is the last one.      *)
ItemsFit ==
    items = IF sending \in {<<>>, <<"completed">>} THEN lastItem ELSE lastItem + 1

WiInv == WiTypeOK /\ AudioFits /\ StatedIsSo /\ ItemsFit /\ ItemsAreChained

(* Samples have one byte or two.                                           *)
LEMMA WidthIs == \A f : Width(f) \in {1, 2}
BY DEF Width

LEMMA WiInvInit == WireInit => WiInv
<1> SUFFICES ASSUME WireInit PROVE WiInv
  OBVIOUS
<1>1. <<>> \in Seq(Nat) /\ <<>> \in Seq(Seq(Nat)) /\ <<>> \in Seq(Nat \X Nat) /\ Len(<<>>) = 0 /\ DOMAIN <<>> = {}
  OBVIOUS
<1>2. WiTypeOK
  BY <1>1 DEF WireInit, WiTypeOK, Formats, Languages, Messages
<1>3. Width(conn.format) = 2 /\ conn.sent = 0 /\ since = 1 /\ Len(sampled) = 0 /\ conn.carry = <<>>
  BY <1>1 DEF WireInit, Width
<1>4. AudioFits
  BY <1>1, <1>3 DEF AudioFits, Whole, InSamples, Consecutive
<1>5. StatedIsSo /\ ItemsFit /\ ItemsAreChained
  BY <1>1 DEF WireInit, StatedIsSo, ItemsFit, ItemsAreChained
<1>. QED  BY <1>2, <1>4, <1>5 DEF WiInv

(* What two sequences have when they are joined.                           *)
LEMMA WireJoined ==
    ASSUME NEW S, NEW s \in Seq(S), NEW t \in Seq(S)
    PROVE  /\ s \o t \in Seq(S) /\ Len(s \o t) = Len(s) + Len(t)
           /\ \A i \in 1 .. Len(s) : (s \o t)[i] = s[i]
           /\ \A j \in 1 .. Len(t) : (s \o t)[Len(s) + j] = t[j]
OBVIOUS

(* The elements of what is cut out.                                        *)
LEMMA CutOut ==
    ASSUME NEW raw \in Seq(Nat), NEW a \in Nat, NEW b \in Nat, a <= b, b <= Len(raw)
    PROVE  LET t == SubSeq(raw, a + 1, b) IN
           t \in Seq(Nat) /\ Len(t) = b - a /\ \A k \in 1 .. b - a : t[k] = raw[a + k]
<1> PICK t : t = SubSeq(raw, a + 1, b)
  OBVIOUS
<1>1. t \in Seq(Nat)
  OBVIOUS
<1>2. Len(t) = b - a
  OBVIOUS
<1>3. \A k \in 1 .. b - a : t[k] = raw[a + k]
  OBVIOUS
<1>. QED  BY <1>1, <1>2, <1>3

(* What is cut out of consecutive bytes is consecutive.                    *)
LEMMA CutGoesOn ==
    ASSUME NEW raw, NEW t, NEW p \in Nat, NEW a \in Nat, NEW n \in Nat, NEW L \in Nat, a + n <= L,
           \A k \in 1 .. L : raw[k] = p + k - 1, \A k \in 1 .. n : t[k] = raw[a + k]
    PROVE  \A k \in 1 .. n : t[k] = p + a + k - 1
<1> SUFFICES ASSUME NEW k \in 1 .. n PROVE t[k] = p + a + k - 1
  OBVIOUS
<1>1. a + k \in 1 .. L
  BY ONLY a + n <= L, a \in Nat, n \in Nat, L \in Nat, k \in 1 .. n
<1> PICK j \in 1 .. L : j = a + k
  BY <1>1
<1>2. raw[j] = p + j - 1
  OBVIOUS
<1>3. t[k] = raw[j]
  OBVIOUS
<1>4. p + j - 1 = p + a + k - 1
  BY ONLY j = a + k, a \in Nat, p \in Nat, k \in 1 .. n, n \in Nat
<1>. QED  BY ONLY <1>2, <1>3, <1>4

(* Consecutive bytes are cut into samples, and some wait.                  *)
LEMMA SamplesGoOn ==
    ASSUME NEW raw \in Seq(Nat), NEW f, NEW p \in Nat, Consecutive(raw, p)
    PROVE  /\ Samples(raw, f) \in Seq(Seq(Nat)) /\ InSamples(Samples(raw, f), Width(f), p)
           /\ Len(Samples(raw, f)) \in Nat
           /\ Rest(raw, f) \in Seq(Nat) /\ Len(Rest(raw, f)) < Width(f)
           /\ Consecutive(Rest(raw, f), p + Len(Samples(raw, f)) * Width(f))
           /\ Len(raw) = Len(Samples(raw, f)) * Width(f) + Len(Rest(raw, f))
<1> PICK w \in {1, 2} : w = Width(f)
  BY WidthIs
<1> PICK L \in Nat : L = Len(raw)
  OBVIOUS
<1>1. L \div w \in Nat /\ w * (L \div w) <= L /\ L < w * (L \div w) + w
  <2>1. CASE w = 1
    BY <2>1
  <2>2. CASE w = 2
    BY <2>2
  <2>. QED  BY <2>1, <2>2
<1> PICK m \in Nat : m = L \div w
  BY <1>1
<1> PICK e \in Nat : e = w * m
  OBVIOUS
<1>2. e <= L /\ L < e + w /\ m * w = e
  BY <1>1
<1>3. ASSUME NEW i \in 1 .. m
      PROVE  /\ SubSeq(raw, w * (i - 1) + 1, w * i) \in Seq(Nat)
             /\ SubSeq(raw, w * (i - 1) + 1, w * i) = [k \in 1 .. w |-> p + (i - 1) * w + k - 1]
  <2> PICK a \in Nat : a = w * (i - 1)
    OBVIOUS
  <2> PICK b \in Nat : b = w * i
    OBVIOUS
  <2>1. a <= b /\ b <= e /\ b - a = w /\ (i - 1) * w = a
    <3>1. CASE w = 1
      BY <3>1
    <3>2. CASE w = 2
      BY <3>2
    <3>. QED  BY <3>1, <3>2
  <2> PICK t : t = SubSeq(raw, a + 1, b)
    OBVIOUS
  <2>2. t \in Seq(Nat) /\ Len(t) = b - a /\ \A k \in 1 .. b - a : t[k] = raw[a + k]
    <3>1. a <= b /\ b <= Len(raw)
      BY <1>2, <2>1
    <3>. QED  BY ONLY <3>1, CutOut, raw \in Seq(Nat), a \in Nat, b \in Nat, t = SubSeq(raw, a + 1, b)
  <2>3. \A k \in 1 .. b - a : t[k] = p + a + k - 1
    <3> PICK n \in Nat : n = b - a
      BY <2>1
    <3>1. a + n <= L
      BY ONLY <1>2, <2>1, n = b - a, a \in Nat, b \in Nat, L \in Nat, e \in Nat
    <3>2. (\A k \in 1 .. L : raw[k] = p + k - 1) /\ \A k \in 1 .. n : t[k] = raw[a + k]
      BY <2>2 DEF Consecutive
    <3>3. \A k \in 1 .. n : t[k] = p + a + k - 1
      BY ONLY <3>1, <3>2, CutGoesOn, p \in Nat, a \in Nat, n \in Nat, L \in Nat
    <3>. QED  BY ONLY <3>3, n = b - a
  <2>4. t = [k \in 1 .. w |-> p + a + k - 1]
    BY ONLY <2>1, <2>2, <2>3, w \in {1, 2}, a \in Nat, p \in Nat
  <2> DEFINE Cut(x) == [k \in 1 .. w |-> p + x + k - 1]
  <2>5. t = Cut(a)
    BY <2>4
  <2> HIDE DEF Cut
  <2>6. t = Cut((i - 1) * w)
    BY <2>1, <2>5
  <2>7. t = [k \in 1 .. w |-> p + (i - 1) * w + k - 1]
    BY ONLY <2>6 DEF Cut
  <2>8. t = SubSeq(raw, w * (i - 1) + 1, w * i)
    OBVIOUS
  <2>. QED  BY ONLY <2>2, <2>7, <2>8
<1>4. Samples(raw, f) \in Seq(Seq(Nat)) /\ Len(Samples(raw, f)) = m /\ InSamples(Samples(raw, f), w, p)
  <2> DEFINE Cut(i) == SubSeq(raw, w * (i - 1) + 1, w * i)
             At(i) == [k \in 1 .. w |-> p + (i - 1) * w + k - 1]
  <2>1. \A i \in 1 .. m : Cut(i) \in Seq(Nat) /\ Cut(i) = At(i)
    BY <1>3
  <2>2. Samples(raw, f) = [i \in 1 .. m |-> Cut(i)]
    BY DEF Samples
  <2>3. /\ Samples(raw, f) \in Seq(Seq(Nat)) /\ Len(Samples(raw, f)) = m
        /\ \A i \in 1 .. m : Samples(raw, f)[i] = At(i)
    <3> HIDE DEF Cut, At
    <3>. QED  BY ONLY <2>1, <2>2, m \in Nat
  <2>. QED  BY <2>3 DEF InSamples
<1>5. Rest(raw, f) \in Seq(Nat) /\ Len(Rest(raw, f)) = L - e /\ \A k \in 1 .. L - e : Rest(raw, f)[k] = p + e + k - 1
  <2>1. Rest(raw, f) = SubSeq(raw, e + 1, L)
    BY <1>2 DEF Rest
  <2> PICK t : t = SubSeq(raw, e + 1, L)
    OBVIOUS
  <2>2. t \in Seq(Nat) /\ Len(t) = L - e /\ \A k \in 1 .. L - e : t[k] = raw[e + k]
    <3>1. e <= L /\ L <= Len(raw)
      BY <1>2
    <3>. QED  BY ONLY <3>1, CutOut, raw \in Seq(Nat), e \in Nat, L \in Nat, t = SubSeq(raw, e + 1, L)
  <2> PICK n \in Nat : n = L - e
    BY <1>2
  <2>3. e + n <= L
    BY ONLY n = L - e, n \in Nat, L \in Nat, e \in Nat
  <2>4. (\A k \in 1 .. L : raw[k] = p + k - 1) /\ \A k \in 1 .. n : t[k] = raw[e + k]
    BY <2>2 DEF Consecutive
  <2>5. \A k \in 1 .. n : t[k] = p + e + k - 1
    BY ONLY <2>3, <2>4, CutGoesOn, p \in Nat, e \in Nat, n \in Nat, L \in Nat
  <2>. QED  BY ONLY <2>1, <2>2, <2>5, n = L - e, t = SubSeq(raw, e + 1, L)
<1>6. Consecutive(Rest(raw, f), p + e)
  BY <1>5 DEF Consecutive
<1>7. L - e < w /\ L = e + (L - e)
  BY ONLY <1>2, e \in Nat, L \in Nat, w \in {1, 2}
<1>. QED  BY <1>2, <1>4, <1>5, <1>6, <1>7

(* A frame joins what was waiting.                                         *)
LEMMA FrameJoins ==
    ASSUME NEW c \in Seq(Nat), NEW p \in Nat, Consecutive(c, p), NEW n \in Nat, NEW sent \in Nat, p + Len(c) = sent + 1
    PROVE  LET raw == c \o [i \in 1 .. n |-> sent + i] IN
           raw \in Seq(Nat) /\ Len(raw) = Len(c) + n /\ Consecutive(raw, p)
<1> PICK fr : fr = [i \in 1 .. n |-> sent + i]
  OBVIOUS
<1>1. fr \in Seq(Nat) /\ Len(fr) = n /\ \A i \in 1 .. n : fr[i] = sent + i
  OBVIOUS
<1> PICK raw : raw = c \o fr
  OBVIOUS
<1> PICK L \in Nat : L = Len(c)
  OBVIOUS
<1>2. /\ raw \in Seq(Nat) /\ Len(raw) = L + n
      /\ (\A k \in 1 .. L : raw[k] = c[k]) /\ \A k \in 1 .. n : raw[L + k] = fr[k]
  <2>1. /\ c \o fr \in Seq(Nat) /\ Len(c \o fr) = Len(c) + Len(fr)
        /\ \A i \in 1 .. Len(c) : (c \o fr)[i] = c[i]
        /\ \A j \in 1 .. Len(fr) : (c \o fr)[Len(c) + j] = fr[j]
    <3>1. fr \in Seq(Nat)
      BY <1>1
    <3>. QED  BY ONLY <3>1, WireJoined, c \in Seq(Nat)
  <2>. QED  BY ONLY <1>1, <2>1, L = Len(c), raw = c \o fr
<1>3. ASSUME NEW k \in 1 .. L + n PROVE raw[k] = p + k - 1
  <2>1. CASE k \in 1 .. L
    <3>1. \A i \in 1 .. L : c[i] = p + i - 1
      BY DEF Consecutive
    <3>. QED  BY <1>2, <2>1, <3>1
  <2>2. CASE k \notin 1 .. L
    <3>1. k - L \in 1 .. n
      BY ONLY <2>2, k \in 1 .. L + n, L \in Nat, n \in Nat
    <3> PICK j \in 1 .. n : j = k - L
      BY <3>1
    <3>2. raw[L + j] = fr[j] /\ fr[j] = sent + j
      BY <1>1, <1>2
    <3>3. L + j = k /\ sent + j = p + k - 1
      BY ONLY p + L = sent + 1, j = k - L, k \in 1 .. L + n, L \in Nat, n \in Nat, p \in Nat, sent \in Nat
    <3>. QED  BY ONLY <3>2, <3>3
  <2>. QED  BY <2>1, <2>2
<1>4. Consecutive(raw, p)
  BY ONLY <1>2, <1>3 DEF Consecutive
<1>. QED  BY <1>2, <1>4

(* The samples of a frame come after those there are.                      *)
LEMMA SamplesJoin ==
    ASSUME NEW s \in Seq(Seq(Nat)), NEW t \in Seq(Seq(Nat)), NEW w \in {1, 2}, NEW p \in Nat,
           InSamples(s, w, p), InSamples(t, w, p + Len(s) * w)
    PROVE  s \o t \in Seq(Seq(Nat)) /\ InSamples(s \o t, w, p) /\ Len(s \o t) = Len(s) + Len(t)
<1> PICK u : u = s \o t
  OBVIOUS
<1> PICK L \in Nat : L = Len(s)
  OBVIOUS
<1> PICK m \in Nat : m = Len(t)
  OBVIOUS
<1>1. /\ u \in Seq(Seq(Nat)) /\ Len(u) = L + m
      /\ (\A i \in 1 .. L : u[i] = s[i]) /\ \A i \in 1 .. m : u[L + i] = t[i]
  <2> PICK S : S = Seq(Nat)
    OBVIOUS
  <2>1. s \in Seq(S) /\ t \in Seq(S)
    OBVIOUS
  <2>2. /\ s \o t \in Seq(S) /\ Len(s \o t) = Len(s) + Len(t)
        /\ \A i \in 1 .. Len(s) : (s \o t)[i] = s[i]
        /\ \A j \in 1 .. Len(t) : (s \o t)[Len(s) + j] = t[j]
    BY ONLY <2>1, WireJoined
  <2>. QED  BY ONLY <2>2, u = s \o t, L = Len(s), m = Len(t), S = Seq(Nat)
<1> DEFINE At(x) == [k \in 1 .. w |-> p + x + k - 1]
<1>2. \A i \in 1 .. L : s[i] = At((i - 1) * w)
  BY DEF InSamples
<1>3. \A i \in 1 .. m : t[i] = At(L * w + (i - 1) * w)
  <2>1. ASSUME NEW i \in 1 .. m PROVE t[i] = At(L * w + (i - 1) * w)
    <3> PICK a \in Nat : a = L * w
      OBVIOUS
    <3> PICK b \in Nat : b = (i - 1) * w
      OBVIOUS
    <3>1. t[i] = [k \in 1 .. w |-> (p + a) + b + k - 1]
      BY DEF InSamples
    <3>2. [k \in 1 .. w |-> (p + a) + b + k - 1] = [k \in 1 .. w |-> p + (a + b) + k - 1]
      <4>1. \A k \in 1 .. w : (p + a) + b + k - 1 = p + (a + b) + k - 1
        BY ONLY p \in Nat, a \in Nat, b \in Nat, w \in {1, 2}
      <4>. QED  BY <4>1
    <3>3. t[i] = At(a + b)
      BY ONLY <3>1, <3>2
    <3> HIDE DEF At
    <3>. QED  BY <3>3
  <2>. QED  BY <2>1
<1> HIDE DEF At
<1>4. ASSUME NEW i \in 1 .. L + m PROVE u[i] = At((i - 1) * w)
  <2>1. CASE i \in 1 .. L
    BY <1>1, <1>2, <2>1
  <2>2. CASE i \notin 1 .. L
    <3>1. i - L \in 1 .. m
      BY ONLY <2>2, i \in 1 .. L + m, L \in Nat, m \in Nat
    <3> PICK j \in 1 .. m : j = i - L
      BY <3>1
    <3>2. L + j = i /\ L * w + (j - 1) * w = (i - 1) * w
      <4>1. L + j = i
        BY ONLY j = i - L, L \in Nat, i \in 1 .. L + m, m \in Nat
      <4>2. CASE w = 1
        BY ONLY <4>1, <4>2, j \in 1 .. m, L \in Nat, m \in Nat, i \in 1 .. L + m
      <4>3. CASE w = 2
        BY ONLY <4>1, <4>3, j \in 1 .. m, L \in Nat, m \in Nat, i \in 1 .. L + m
      <4>. QED  BY <4>1, <4>2, <4>3
    <3>3. u[L + j] = t[j] /\ t[j] = At(L * w + (j - 1) * w)
      BY <1>1, <1>3
    <3>. QED  BY ONLY <3>2, <3>3
  <2>. QED  BY <2>1, <2>2
<1>5. InSamples(u, w, p)
  BY ONLY <1>1, <1>4 DEF InSamples, At
<1>. QED  BY <1>1, <1>5

(* A frame.                                                                *)
LEMMA AppendWireKeepsInv == ASSUME WiInv, NEW n \in 1 .. MaxFrame, AppendWire(n) PROVE WiInv'
<1> PICK raw : raw = conn.carry \o [i \in 1 .. n |-> conn.sent + i]
  OBVIOUS
<1> PICK f \in Formats : f = conn.format
  BY DEF WiInv, WiTypeOK
<1> PICK w \in {1, 2} : w = Width(f)
  BY WidthIs
<1>1. /\ EnsureSession /\ sampled' = sampled \o Samples(raw, f)
      /\ conn' = [conn EXCEPT !.sent = @ + n, !.carry = Rest(raw, f)]
      /\ UNCHANGED <<since, stated, updates, sending, lastItem, items, chain>>
  BY DEF AppendWire
<1>2. n \in Nat
  BY WireAssumption
<1>3. /\ conn.carry \in Seq(Nat) /\ conn.sent \in Nat /\ since \in Nat /\ sampled \in Seq(Seq(Nat))
      /\ InSamples(sampled, w, since) /\ Consecutive(conn.carry, since + Len(sampled) * w)
      /\ since + Len(sampled) * w + Len(conn.carry) = conn.sent + 1
  BY DEF WiInv, WiTypeOK, AudioFits, Whole
<1> PICK N \in Nat : N = Len(sampled)
  BY <1>3
<1> PICK p \in Nat : p = since + N * w
  BY <1>3, SMTT(30)
<1> PICK sent \in Nat : sent = conn.sent
  BY <1>3
<1> PICK c \in Seq(Nat) : c = conn.carry
  BY <1>3
<1> PICK t : t = Samples(raw, f)
  OBVIOUS
<1> PICK r : r = Rest(raw, f)
  OBVIOUS
<1>4. raw \in Seq(Nat) /\ Len(raw) = Len(c) + n /\ Consecutive(raw, p)
  <2>1. Consecutive(c, p) /\ p + Len(c) = sent + 1
    BY <1>3
  <2>2. LET x == c \o [i \in 1 .. n |-> sent + i] IN x \in Seq(Nat) /\ Len(x) = Len(c) + n /\ Consecutive(x, p)
    BY ONLY <1>2, <2>1, FrameJoins, p \in Nat, sent \in Nat, c \in Seq(Nat)
  <2>. QED  BY <2>2
<1>5. /\ t \in Seq(Seq(Nat)) /\ InSamples(t, w, p) /\ Len(t) \in Nat
      /\ r \in Seq(Nat) /\ Len(r) < w /\ Consecutive(r, p + Len(t) * w)
      /\ Len(raw) = Len(t) * w + Len(r)
  BY ONLY <1>4, SamplesGoOn, p \in Nat, w = Width(f), t = Samples(raw, f), r = Rest(raw, f)
<1>6. sampled' \in Seq(Seq(Nat)) /\ InSamples(sampled', w, since) /\ Len(sampled') = N + Len(t)
  <2> PICK s \in Seq(Seq(Nat)) : s = sampled
    BY <1>3
  <2> PICK first \in Nat : first = since
    BY <1>3
  <2>1. InSamples(s, w, first) /\ InSamples(t, w, first + Len(s) * w)
    BY <1>3, <1>5
  <2>2. s \o t \in Seq(Seq(Nat)) /\ InSamples(s \o t, w, first) /\ Len(s \o t) = Len(s) + Len(t)
    BY ONLY <1>5, <2>1, SamplesJoin, w \in {1, 2}, first \in Nat, s \in Seq(Seq(Nat))
  <2>. QED  BY <1>1, <2>2
<1>7. /\ conn'.sent = sent + n /\ conn'.carry = r /\ conn'.format = f
      /\ conn'.auto = conn.auto /\ conn'.lang = conn.lang
      /\ conn' \in [stage : {"asking", "open", "over"}, many : BOOLEAN, sent : Nat, format : Formats, carry : Seq(Nat),
                     auto : BOOLEAN, lang : Languages]
  <2>1. sent + n \in Nat
    BY <1>2
  <2>. QED  BY <1>1, <1>5, <2>1 DEF WiInv, WiTypeOK
<1>8. AudioFits'
  <2>1. (N + Len(t)) * w = N * w + Len(t) * w /\ N * w \in Nat /\ Len(t) * w \in Nat
    <3> PICK tl \in Nat : tl = Len(t)
      BY <1>5
    <3>1. (N + tl) * w = N * w + tl * w /\ N * w \in Nat /\ tl * w \in Nat
      <4>1. CASE w = 1
        BY ONLY <4>1, N \in Nat, tl \in Nat
      <4>2. CASE w = 2
        BY ONLY <4>2, N \in Nat, tl \in Nat
      <4>. QED  BY <4>1, <4>2
    <3>. QED  BY ONLY <3>1, tl = Len(t)
  <2>2. Len(r) \in Nat /\ Len(c) \in Nat
    <3>1. r \in Seq(Nat)
      BY <1>5
    <3>. QED  BY ONLY <3>1, c \in Seq(Nat)
  <2> PICK a \in Nat : a = N * w
    BY <2>1
  <2> PICK b \in Nat : b = Len(t) * w
    BY <2>1
  <2>3. since + (a + b) = p + b
    BY <1>3
  <2>4. since + (a + b) + Len(r) = (sent + n) + 1
    <3>1. p + Len(c) = sent + 1 /\ Len(c) + n = b + Len(r)
      BY <1>3, <1>4, <1>5
    <3>2. p + b + Len(r) = sent + n + 1
      BY ONLY <1>2, <2>2, <3>1, p \in Nat, b \in Nat, sent \in Nat
    <3>. QED  BY <2>3, <3>2
  <2>5. Whole' = a + b
    BY <1>6, <1>7, <2>1 DEF Whole
  <2>6. Consecutive(r, since + (a + b))
    BY <1>5, <2>3
  <2>. QED  BY <1>1, <1>5, <1>6, <1>7, <2>4, <2>5, <2>6 DEF AudioFits
<1>9. wsess' \in [opened : BOOLEAN, auto : BOOLEAN, lang : Languages] /\ StatedIsSo'
  BY <1>1, <1>7 DEF WiInv, WiTypeOK, EnsureSession, StatedIsSo
<1>10. WiTypeOK' /\ ItemsFit' /\ ItemsAreChained'
  BY <1>1, <1>6, <1>7, <1>9 DEF WiInv, WiTypeOK, ItemsFit, ItemsAreChained
<1>. QED  BY <1>8, <1>9, <1>10 DEF WiInv

(* The sample stream begins anew: nothing waits.                           *)
LEMMA AnewFits ==
    ASSUME conn.sent \in Nat, Anew, conn'.sent = conn.sent, conn'.carry = <<>>
    PROVE  AudioFits' /\ sampled' \in Seq(Seq(Nat)) /\ since' \in Nat \ {0}
<1>1. sampled' = <<>> /\ since' = conn.sent + 1
  BY DEF Anew
<1> PICK w \in {1, 2} : w = Width(conn'.format)
  BY WidthIs
<1>2. <<>> \in Seq(Seq(Nat)) /\ Len(<<>>) = 0 /\ 0 * w = 0
  OBVIOUS
<1>3. Whole' = 0
  BY <1>1, <1>2 DEF Whole
<1>4. InSamples(sampled', w, since') /\ Consecutive(conn'.carry, since' + 0)
  BY <1>1, <1>2 DEF InSamples, Consecutive
<1>. QED  BY <1>1, <1>2, <1>3, <1>4 DEF AudioFits

(* What an update and the other messages say.                              *)
LEMMA UpdatesKeepInv ==
    ASSUME WiInv,
           \/ \E f \in {"absent", Wide, Narrow} : UpdateStops(f)
           \/ \E f \in {"absent", Wide, Narrow}, lang \in Locale \cup {NoLocale}, auto \in {"absent", "on", "off"} :
                 UpdateSession(f, lang, auto)
    PROVE  WiInv'
<1> PICK f \in {"absent", Wide, Narrow} :
       \/ UpdateStops(f)
       \/ \E lang \in Locale \cup {NoLocale}, auto \in {"absent", "on", "off"} : UpdateSession(f, lang, auto)
  OBVIOUS
<1>1. /\ UpdateFormat(f) /\ UNCHANGED <<sending, lastItem, items, chain>>
      /\ conn'.sent = conn.sent
      /\ conn'.carry = (IF f = "absent" THEN conn.carry ELSE <<>>)
      /\ conn'.format = (IF f = "absent" THEN conn.format ELSE f)
      /\ wsess'.opened = wsess.opened
      /\ stated'.partly \/ stated'.format = conn'.format
      /\ stated'.auto = conn'.auto /\ stated'.lang = conn'.lang
      /\ conn'.many = conn.many
      /\ wsess.opened => wsess'.auto = conn'.auto /\ (conn.many => wsess'.lang = conn'.lang)
      /\ conn' \in [stage : {"asking", "open", "over"}, many : BOOLEAN, sent : Nat, format : Formats, carry : Seq(Nat),
                     auto : BOOLEAN, lang : Languages]
      /\ wsess' \in [opened : BOOLEAN, auto : BOOLEAN, lang : Languages]
      /\ stated' \in [format : Formats, auto : BOOLEAN, lang : Languages, partly : BOOLEAN]
  <2>1. CASE UpdateStops(f)
    <3>1. /\ UpdateFormat(f) /\ UNCHANGED <<sending, lastItem, items, chain, wsess>>
          /\ conn' = IF f = "absent" THEN conn ELSE [conn EXCEPT !.format = f, !.carry = <<>>]
          /\ stated' = [stated EXCEPT !.partly = TRUE]
      BY <2>1 DEF UpdateStops
    <3>2. <<>> \in Seq(Nat) /\ (f # "absent" => f \in Formats)
      BY DEF Formats
    <3>. QED  BY <3>1, <3>2 DEF WiInv, WiTypeOK, StatedIsSo
  <2>2. CASE \E lang \in Locale \cup {NoLocale}, auto \in {"absent", "on", "off"} : UpdateSession(f, lang, auto)
    <3> PICK lang \in Languages, auto \in {"absent", "on", "off"} : UpdateSession(f, lang, auto)
      BY <2>2 DEF Languages
    <3> PICK had \in BOOLEAN : had = IF auto = "absent" THEN conn.auto ELSE Turns(auto = "on")
      <4>1. Turns(auto = "on") \in BOOLEAN /\ conn.auto \in BOOLEAN
        BY DEF Turns, WiInv, WiTypeOK
      <4>. QED  BY <4>1
    <3>1. wsess.opened => had = conn.auto
      BY DEF Turns
    <3>2. /\ UpdateFormat(f) /\ UNCHANGED <<sending, lastItem, items, chain>>
          /\ wsess' = IF lang \in Locale /\ wsess.opened /\ conn.many THEN [wsess EXCEPT !.lang = lang] ELSE wsess
          /\ conn' = [conn EXCEPT !.format = IF f = "absent" THEN @ ELSE f,
                                  !.carry = IF f = "absent" THEN @ ELSE <<>>,
                                  !.lang = IF lang \in Locale THEN lang ELSE @,
                                  !.auto = had]
          /\ stated' = [format |-> conn'.format, auto |-> conn'.auto, lang |-> conn'.lang, partly |-> FALSE]
      BY DEF UpdateSession, Speak
    <3>3. <<>> \in Seq(Nat) /\ (f # "absent" => f \in Formats)
      BY DEF Formats
    <3>4. /\ conn'.sent = conn.sent /\ conn'.carry = (IF f = "absent" THEN conn.carry ELSE <<>>)
          /\ conn'.format = (IF f = "absent" THEN conn.format ELSE f)
          /\ conn'.lang = (IF lang \in Locale THEN lang ELSE conn.lang) /\ conn'.auto = had
          /\ conn'.many = conn.many
          /\ conn' \in [stage : {"asking", "open", "over"}, many : BOOLEAN, sent : Nat, format : Formats, carry : Seq(Nat),
                         auto : BOOLEAN, lang : Languages]
      BY <3>2, <3>3 DEF WiInv, WiTypeOK
    <3>. QED  BY <3>1, <3>2, <3>4, ZenonT(60) DEF WiInv, WiTypeOK, StatedIsSo
  <2>. QED  BY <2>1, <2>2
<1>2. AudioFits' /\ sampled' \in Seq(Seq(Nat)) /\ since' \in Nat \ {0}
  <2>1. CASE f = "absent"
    <3>1. UNCHANGED <<sampled, since>> /\ conn'.carry = conn.carry /\ conn'.format = conn.format /\ conn'.sent = conn.sent
      BY <1>1, <2>1 DEF UpdateFormat
    <3>2. Whole' = Whole
      BY <3>1 DEF Whole
    <3>. QED  BY <3>1, <3>2 DEF WiInv, WiTypeOK, AudioFits
  <2>2. CASE f # "absent"
    <3>1. Anew /\ conn'.carry = <<>> /\ conn'.sent = conn.sent /\ conn.sent \in Nat
      BY <1>1, <2>2 DEF UpdateFormat, WiInv, WiTypeOK
    <3>. QED  BY <3>1, AnewFits
  <2>. QED  BY <2>1, <2>2
<1>3. WiTypeOK'
  BY <1>1, <1>2 DEF WiInv, WiTypeOK
<1>4. StatedIsSo'
  BY <1>1 DEF StatedIsSo
<1>5. ItemsFit' /\ ItemsAreChained'
  BY <1>1 DEF WiInv, ItemsFit, ItemsAreChained
<1>. QED  BY <1>2, <1>3, <1>4, <1>5 DEF WiInv

(* The session's items, one message after the other.                       *)
LEMMA SendKeepsInv == ASSUME WiInv, Send PROVE WiInv'
<1>1. /\ sending # <<>> /\ sending' = Tail(sending)
      /\ chain' = (IF Head(sending) = "completed" THEN chain ELSE Append(chain, <<items, lastItem>>))
      /\ lastItem' = (IF Head(sending) = "created" THEN items ELSE lastItem)
      /\ UNCHANGED <<conn, wsess, sampled, since, stated, updates, items>>
  BY DEF Send
<1>2. sending \in Messages /\ items \in Nat /\ lastItem \in Nat /\ chain \in Seq(Nat \X Nat)
  BY DEF WiInv, WiTypeOK
<1>3. \/ sending = <<"completed">> /\ sending' = <<>> /\ Head(sending) = "completed"
      \/ sending = <<"created", "completed">> /\ sending' = <<"completed">> /\ Head(sending) = "created"
      \/ sending = <<"committed", "created", "completed">> /\ sending' = <<"created", "completed">>
         /\ Head(sending) = "committed"
  <2>1. /\ Tail(<<"completed">>) = <<>> /\ Head(<<"completed">>) = "completed"
        /\ Tail(<<"created", "completed">>) = <<"completed">> /\ Head(<<"created", "completed">>) = "created"
        /\ Tail(<<"committed", "created", "completed">>) = <<"created", "completed">>
        /\ Head(<<"committed", "created", "completed">>) = "committed"
    OBVIOUS
  <2>2. sending \in {<<"completed">>, <<"created", "completed">>, <<"committed", "created", "completed">>}
    BY <1>1, <1>2, Zenon DEF Messages
  <2>. QED  BY <1>1, <2>1, <2>2, Zenon
<1>4. sending' \in Messages
  BY <1>3 DEF Messages
<1>5. Head(sending) # "completed" => items = lastItem + 1
  BY <1>3 DEF WiInv, ItemsFit
<1>6. chain' \in Seq(Nat \X Nat) /\ ItemsAreChained'
  <2>1. CASE Head(sending) = "completed"
    BY <1>1, <1>2, <2>1 DEF WiInv, ItemsAreChained
  <2>2. CASE Head(sending) # "completed"
    <3> PICK e : e = <<items, lastItem>>
      OBVIOUS
    <3>1. e \in Nat \X Nat /\ e[1] = items /\ e[2] = lastItem /\ lastItem = items - 1
      BY <1>2, <1>5, <2>2
    <3>2. chain' = Append(chain, e)
      BY <1>1, <2>2
    <3>3. /\ chain' \in Seq(Nat \X Nat) /\ DOMAIN chain' = 1 .. Len(chain) + 1 /\ DOMAIN chain = 1 .. Len(chain)
          /\ chain'[Len(chain) + 1] = e /\ \A i \in 1 .. Len(chain) : chain'[i] = chain[i]
      BY <1>2, <3>1, <3>2
    <3>4. \A i \in 1 .. Len(chain) + 1 : i \in 1 .. Len(chain) \/ i = Len(chain) + 1
      BY <1>2
    <3>. QED  BY <3>1, <3>3, <3>4 DEF WiInv, ItemsAreChained
  <2>. QED  BY <2>1, <2>2
<1>7. lastItem' \in Nat /\ ItemsFit'
  <2>1. /\ <<"completed">> \notin {<<>>} /\ <<"created", "completed">> \notin {<<>>, <<"completed">>}
        /\ <<"committed", "created", "completed">> \notin {<<>>, <<"completed">>}
    OBVIOUS
  <2>2. items = IF sending \in {<<>>, <<"completed">>} THEN lastItem ELSE lastItem + 1
    BY DEF WiInv, ItemsFit
  <2>3. sending' \in {<<>>, <<"completed">>} <=> Head(sending) # "committed"
    BY <1>3, <2>1
  <2>4. CASE Head(sending) = "completed"
    BY <1>1, <1>2, <1>3, <2>2, <2>3, <2>4 DEF ItemsFit
  <2>5. CASE Head(sending) = "created"
    BY <1>1, <1>2, <2>3, <2>5 DEF ItemsFit
  <2>6. CASE Head(sending) = "committed"
    BY <1>1, <1>2, <1>5, <2>3, <2>6 DEF ItemsFit
  <2>. QED  BY <1>3, <2>4, <2>5, <2>6
<1>8. Whole' = Whole
  BY <1>1 DEF Whole
<1>9. AudioFits' /\ StatedIsSo'
  BY <1>1, <1>8 DEF WiInv, AudioFits, StatedIsSo
<1>10. WiTypeOK'
  BY <1>1, <1>4, <1>6, <1>7 DEF WiInv, WiTypeOK
<1>. QED  BY <1>6, <1>7, <1>9, <1>10 DEF WiInv

(* In every behaviour, audio, settings and items fit.                      *)
THEOREM WireInvariant == WireSpec => []WiInv
<1>1. WiInv /\ UNCHANGED wirevars => WiInv'
  BY DEF WiInv, WiTypeOK, AudioFits, Whole, StatedIsSo, ItemsFit, ItemsAreChained, wirevars
<1>2. ASSUME WiInv,
             \/ \E model \in {"", "loaded", "other"}, intent \in {"", "transcription", "conversation"} :
                   Connect(model, intent)
                    \/ SessionRefused \/ UpdateRefused \/ WireEnds
      PROVE  WiInv'
  <2>1. /\ UNCHANGED <<wsess, sampled, since, stated, sending, lastItem, items, chain>>
        /\ conn' = conn \/ \E at \in {"open", "over"} : conn' = [conn EXCEPT !.stage = at]
    BY <1>2 DEF Connect, SessionRefused, UpdateRefused, WireEnds
  <2>2. /\ conn' \in [stage : {"asking", "open", "over"}, many : BOOLEAN, sent : Nat, format : Formats, carry : Seq(Nat),
                       auto : BOOLEAN, lang : Languages]
        /\ conn'.sent = conn.sent /\ conn'.format = conn.format /\ conn'.carry = conn.carry
        /\ conn'.auto = conn.auto /\ conn'.lang = conn.lang
    <3>1. conn \in [stage : {"asking", "open", "over"}, many : BOOLEAN, sent : Nat, format : Formats, carry : Seq(Nat),
                    auto : BOOLEAN, lang : Languages]
      BY <1>2 DEF WiInv, WiTypeOK
    <3>2. CASE conn' = conn
      BY <3>1, <3>2
    <3>3. CASE \E at \in {"open", "over"} : conn' = [conn EXCEPT !.stage = at]
      BY <3>1, <3>3
    <3>. QED  BY <2>1, <3>2, <3>3
  <2>3. Whole' = Whole
    BY <2>1, <2>2 DEF Whole
  <2>. QED  BY <1>2, <2>1, <2>2, <2>3 DEF WiInv, WiTypeOK, AudioFits, StatedIsSo, ItemsFit, ItemsAreChained
<1>3. ASSUME WiInv, CommitWire PROVE WiInv'
  <2>1. /\ UNCHANGED <<conn, sampled, since, stated, updates, sending, lastItem, items, chain>> /\ EnsureSession
    BY <1>3 DEF CommitWire
  <2>2. wsess' \in [opened : BOOLEAN, auto : BOOLEAN, lang : Languages] /\ StatedIsSo'
    BY <1>3, <2>1 DEF WiInv, WiTypeOK, EnsureSession, StatedIsSo
  <2>3. Whole' = Whole
    BY <2>1 DEF Whole
  <2>. QED  BY <1>3, <2>1, <2>2, <2>3 DEF WiInv, WiTypeOK, AudioFits, ItemsFit, ItemsAreChained
<1>4. ASSUME WiInv, ClearWire PROVE WiInv'
  <2>1. /\ Anew /\ conn' = [conn EXCEPT !.carry = <<>>]
        /\ UNCHANGED <<wsess, stated, updates, sending, lastItem, items, chain>>
    BY <1>4 DEF ClearWire
  <2>2. <<>> \in Seq(Nat)
    OBVIOUS
  <2>3. /\ conn' \in [stage : {"asking", "open", "over"}, many : BOOLEAN, sent : Nat, format : Formats, carry : Seq(Nat),
                       auto : BOOLEAN, lang : Languages]
        /\ conn'.sent = conn.sent /\ conn.sent \in Nat /\ conn'.format = conn.format /\ conn'.carry = <<>>
        /\ conn'.auto = conn.auto /\ conn'.lang = conn.lang
    BY <1>4, <2>1, <2>2 DEF WiInv, WiTypeOK
  <2>4. AudioFits' /\ sampled' \in Seq(Seq(Nat)) /\ since' \in Nat \ {0}
    BY <2>1, <2>3, AnewFits
  <2>. QED  BY <1>4, <2>1, <2>3, <2>4 DEF WiInv, WiTypeOK, StatedIsSo, ItemsFit, ItemsAreChained
<1>5. ASSUME WiInv, FinalArrives PROVE WiInv'
  <2>1. /\ sending = <<>> /\ items' = items + 1 /\ sending' = <<"committed", "created", "completed">>
        /\ UNCHANGED <<conn, wsess, sampled, since, stated, updates, lastItem, chain>>
    BY <1>5 DEF FinalArrives
  <2>2. sending' \in Messages /\ sending' \notin {<<>>, <<"completed">>} /\ sending \in {<<>>, <<"completed">>}
    BY <2>1 DEF Messages
  <2>3. items' \in Nat /\ ItemsFit'
    BY <1>5, <2>1, <2>2 DEF WiInv, WiTypeOK, ItemsFit
  <2>4. Whole' = Whole
    BY <2>1 DEF Whole
  <2>. QED  BY <1>5, <2>1, <2>2, <2>3, <2>4 DEF WiInv, WiTypeOK, AudioFits, StatedIsSo, ItemsAreChained
<1>6. WiInv /\ [WireNext]_wirevars => WiInv'
  BY <1>1, <1>2, <1>3, <1>4, <1>5, AppendWireKeepsInv, UpdatesKeepInv, SendKeepsInv DEF WireNext
<1>. QED  BY <1>6, WiInvInit, PTL DEF WireSpec

-----------------------------------------------------------------------------
(* The watch over it.                                                      *)

KaTypeOK ==
    /\ handling \in BOOLEAN /\ opened \in BOOLEAN /\ pong \in BOOLEAN
    /\ idle \in 0 .. PingEvery /\ ticker \in 0 .. PingEvery /\ uptime \in Nat
    /\ ping \in 0 .. Never /\ quiet \in Nat
    /\ peer \in {"there", "gone"} /\ cut \in {"no", "unused", "unanswered"}

(* An answer to a ping that is out is on its way, or nobody is there.      *)
PongsFit == ping # Never /\ ~pong => peer = "gone"

(* The silence is counted once nothing is left to read, and no longer than *)
(* the read loop has been idle; a tick comes of it, then a ping.           *)
QuietFits ==
    /\ peer = "there" \/ pong \/ handling => quiet = 0
    /\ quiet <= idle \/ idle = PingEvery
    /\ cut = "no" => IF ping = Never THEN quiet <= ticker + PingEvery ELSE quiet <= 2 * PingEvery + ping

KaInv == KaTypeOK /\ PongsFit /\ QuietFits /\ OnlyTheDeadAreCut

(* In every behaviour, silence is measured as far as it goes.              *)
THEOREM KeepaliveInvariant == KaSpec => []KaInv
<1>0. /\ PingTimeout \in Nat \ {0} /\ PingEvery \in Nat /\ GracePeriod \in Nat /\ PingTimeout < PingEvery
      /\ Never \in Nat /\ Never = PingTimeout + 1 /\ QuietBound = 2 * PingEvery + PingTimeout
      /\ 0 \in 0 .. PingEvery /\ 0 \in 0 .. Never /\ Never \in 0 .. Never /\ Never # 0
  BY KeepaliveAssumption DEF Never, QuietBound
<1>1. KaInit => KaInv
  <2> SUFFICES ASSUME KaInit PROVE KaInv
    OBVIOUS
  <2>1. KaTypeOK
    BY <1>0 DEF KaInit, KaTypeOK
  <2>2. PongsFit /\ OnlyTheDeadAreCut
    BY DEF KaInit, PongsFit, OnlyTheDeadAreCut
  <2>3. QuietFits
    BY <1>0 DEF KaInit, QuietFits
  <2>. QED  BY <2>1, <2>2, <2>3 DEF KaInv
<1>2. KaInv /\ UNCHANGED kavars => KaInv'
  BY DEF KaInv, KaTypeOK, PongsFit, QuietFits, OnlyTheDeadAreCut, kavars
<1>3. ASSUME KaInv, ReadMessage PROVE KaInv'
  BY <1>0, <1>3 DEF ReadMessage, KaInv, KaTypeOK, PongsFit, QuietFits, OnlyTheDeadAreCut
<1>4. ASSUME KaInv, HandlingEnds PROVE KaInv'
  BY <1>4 DEF HandlingEnds, KaInv, KaTypeOK, PongsFit, QuietFits, OnlyTheDeadAreCut
<1>5. ASSUME KaInv, PongRead PROVE KaInv'
  <2>1. KaTypeOK' /\ PongsFit' /\ OnlyTheDeadAreCut'
    BY <1>0, <1>5 DEF PongRead, KaInv, KaTypeOK, PongsFit, OnlyTheDeadAreCut
  <2>2. quiet = 0 /\ ticker \in 0 .. PingEvery /\ idle \in 0 .. PingEvery
    BY <1>5 DEF PongRead, KaInv, KaTypeOK, QuietFits
  <2>3. QuietFits'
    BY <1>0, <1>5, <2>2 DEF PongRead, QuietFits
  <2>. QED  BY <2>1, <2>3 DEF KaInv
<1>6. ASSUME KaInv, PeerGoes PROVE KaInv'
  BY <1>6 DEF PeerGoes, KaInv, KaTypeOK, PongsFit, QuietFits, OnlyTheDeadAreCut
<1>7. ASSUME KaInv, Ticks PROVE KaInv'
  <2>1. /\ cut = "no" /\ ping = Never /\ ticker >= PingEvery /\ ticker' = 0
        /\ UNCHANGED <<handling, idle, opened, uptime, peer, quiet>>
        /\ \/ cut' = "unused" /\ UNCHANGED <<ping, pong>>
           \/ UNCHANGED cut /\ PeerBusy /\ UNCHANGED <<ping, pong>>
           \/ UNCHANGED cut /\ ~PeerBusy /\ ping' = 0 /\ pong' = (peer = "there")
    BY <1>7 DEF Ticks, TickDue
  <2>2. pong' \in BOOLEAN /\ KaTypeOK'
    BY <1>0, <1>7, <2>1 DEF KaInv, KaTypeOK
  <2>3. PongsFit' /\ OnlyTheDeadAreCut'
    BY <1>7, <2>1 DEF KaInv, KaTypeOK, PongsFit, OnlyTheDeadAreCut
  <2>4. quiet \in Nat /\ idle \in 0 .. PingEvery /\ ticker \in 0 .. PingEvery /\ quiet <= ticker + PingEvery
    BY <1>7, <2>1 DEF KaInv, KaTypeOK, QuietFits
  <2>5. (peer = "there" \/ pong' \/ handling => quiet = 0) /\ (quiet <= idle \/ idle = PingEvery)
    BY <1>7, <2>1 DEF KaInv, KaTypeOK, QuietFits
  <2>6. PeerBusy => quiet <= PingEvery
    BY <1>0, <2>4, <2>5 DEF PeerBusy
  <2>7. quiet <= 2 * PingEvery
    BY <1>0, <2>4
  <2>8. cut' = "no" => IF ping' = Never THEN quiet <= 0 + PingEvery ELSE quiet <= 2 * PingEvery + ping'
    BY <1>0, <2>1, <2>4, <2>6, <2>7
  <2>9. QuietFits'
    BY <2>1, <2>5, <2>8 DEF QuietFits
  <2>. QED  BY <2>2, <2>3, <2>9 DEF KaInv
<1>8. ASSUME KaInv, PingTimesOut PROVE KaInv'
  <2>1. /\ cut = "no" /\ ping = PingTimeout /\ ~(pong /\ ~handling) /\ ping' = Never /\ pong' = FALSE
        /\ cut' = (IF PeerBusy THEN cut ELSE "unanswered")
        /\ UNCHANGED <<handling, idle, opened, uptime, ticker, peer, quiet>>
    BY <1>8 DEF PingTimesOut, TimedOut
  <2>2. KaTypeOK' /\ PongsFit'
    BY <1>0, <1>8, <2>1 DEF KaInv, KaTypeOK, PongsFit
  <2>3. OnlyTheDeadAreCut'
    <3>1. ping # Never
      BY <1>0, <2>1
    <3>2. ~PeerBusy => ~handling
      BY DEF PeerBusy
    <3>. QED  BY <1>8, <2>1, <3>1, <3>2 DEF KaInv, PongsFit, OnlyTheDeadAreCut
  <2>4. quiet \in Nat /\ idle \in 0 .. PingEvery /\ ticker \in 0 .. PingEvery
    BY <1>8 DEF KaInv, KaTypeOK
  <2>5. (peer = "there" \/ handling => quiet = 0) /\ (quiet <= idle \/ idle = PingEvery)
    BY <1>8 DEF KaInv, QuietFits
  <2>6. PeerBusy => quiet <= ticker + PingEvery
    BY <1>0, <2>4, <2>5 DEF PeerBusy
  <2>7. QuietFits'
    BY <2>1, <2>5, <2>6 DEF QuietFits
  <2>. QED  BY <2>2, <2>3, <2>7 DEF KaInv
<1>9. ASSUME KaInv, TimePasses PROVE KaInv'
  BY <1>0, <1>9 DEF TimePasses, TickDue, TimedOut, KaInv, KaTypeOK, PongsFit, QuietFits, OnlyTheDeadAreCut
<1>10. KaInv /\ [KaNext]_kavars => KaInv'
  BY <1>2, <1>3, <1>4, <1>5, <1>6, <1>7, <1>8, <1>9 DEF KaNext
<1>. QED  BY <1>1, <1>10, PTL DEF KaSpec

(* realtime.go 380, 406, 545 and 645: whatever a client sends, cut into    *)
(* frames of any size, changes and leaves, its audio arrives whole, what   *)
(* it is told is in force, but for the language where the model has only   *)
(* one (733), its items are a chain; and however long reading is held up,  *)
(* it is cut exactly when it is gone.                                      *)
THEOREM RealtimeTalkIsWhole == WireSpec /\ KaSpec => []TalkIsWhole
<1>1. WiInv => AudioIsWhole /\ StatedIsSo /\ ItemsAreChained
  <2> SUFFICES ASSUME WiInv PROVE AudioIsWhole
    BY DEF WiInv
  <2> PICK w \in {1, 2} : w = Width(conn.format)
    BY WidthIs
  <2> PICK c \in Seq(Nat) : c = conn.carry
    BY DEF WiInv, WiTypeOK
  <2> PICK first \in Nat : first = since
    BY DEF WiInv, WiTypeOK
  <2> PICK s \in Seq(Seq(Nat)) : s = sampled
    BY DEF WiInv, WiTypeOK
  <2> PICK sent \in Nat : sent = conn.sent
    BY DEF WiInv, WiTypeOK
  <2> PICK whole \in Nat : whole = Len(s) * w
    OBVIOUS
  <2>1. Whole = whole /\ Len(c) < w /\ first + whole + Len(c) = sent + 1
    BY DEF WiInv, AudioFits, Whole
  <2>2. c = [k \in 1 .. sent + 1 - first - whole |-> first + whole + k - 1]
    <3>1. \A k \in 1 .. Len(c) : c[k] = first + whole + k - 1
      BY <2>1 DEF WiInv, AudioFits, Consecutive
    <3>2. sent + 1 - first - whole = Len(c) /\ Len(c) \in Nat
      BY ONLY <2>1, first \in Nat, whole \in Nat, sent \in Nat, c \in Seq(Nat)
    <3>3. c = [k \in 1 .. Len(c) |-> first + whole + k - 1]
      BY ONLY <3>1, <3>2, c \in Seq(Nat)
    <3>. QED  BY ONLY <3>2, <3>3
  <2>3. InSamples(s, w, first)
    BY DEF WiInv, AudioFits
  <2>4. DOMAIN s = 1 .. Len(s) /\ \A i \in 1 .. Len(s) : s[i] = [k \in 1 .. w |-> first + (i - 1) * w + k - 1]
    <3>1. DOMAIN s = 1 .. Len(s)
      BY ONLY s \in Seq(Seq(Nat))
    <3>2. \A i \in 1 .. Len(s) : s[i] = [k \in 1 .. w |-> first + (i - 1) * w + k - 1]
      BY ONLY <2>3, Zenon DEF InSamples
    <3>. QED  BY ONLY <3>1, <3>2
  <2>5. \A i \in DOMAIN sampled : sampled[i] = [k \in 1 .. w |-> since + (i - 1) * w + k - 1]
    BY ONLY <2>4, s = sampled, first = since
  <2>6. /\ conn.carry = [k \in 1 .. conn.sent + 1 - since - Len(sampled) * w |-> since + Len(sampled) * w + k - 1]
        /\ Len(conn.carry) < w
    BY ONLY <2>1, <2>2, s = sampled, first = since, c = conn.carry, sent = conn.sent, whole = Len(s) * w
  <2>. QED  BY ONLY <2>5, <2>6, w = Width(conn.format) DEF AudioIsWhole
<1>2. KaInv => OnlyTheDeadAreCut /\ TheDeadAreNoticed
  BY KeepaliveAssumption DEF KaInv, KaTypeOK, QuietFits, TheDeadAreNoticed, QuietBound, Never
<1>. QED  BY <1>1, <1>2, WireInvariant, KeepaliveInvariant, PTL DEF TalkIsWhole

-----------------------------------------------------------------------------
(* The Windows service.                                                    *)

SvcStages == {"none", "launched", "serving", "stopping", "draining"}
Verbs == {"none", "install", "uninstall", "start", "stop", "restart"}
CommandSteps == {"idle", "stop", "waiting", "register", "remove", "start", "starting", "ok", "failed"}

SvcTypeOK ==
    /\ registered \in {"absent", "old", "new"}
    /\ scm \in [state : {"stopped", "startpending", "running", "stoppending"}, checkpoint : Nat, age : Nat]
    /\ proc \in [stage : SvcStages, binary : {"absent", "old", "new"}, drains : Nat]
    /\ policy \in [again : BOOLEAN, taken : BOOLEAN, done : Nat]
    /\ command \in [Operator -> [verb : Verbs, step : CommandSteps, waited : Nat, given : Nat]]

(* What the manager was told last and the process agree.                   *)
StateIsTrue ==
    /\ scm.state = "stopped" <=> proc.stage = "none"
    /\ scm.state = "startpending" <=> proc.stage = "launched"
    /\ scm.state = "stoppending" <=> proc.stage = "draining"

(* An installation that is about to start the service registered the new   *)
(* binary, and nobody registers an old one: what it started, or the policy *)
(* since, is the new one.                                                  *)
NewIsRegistered ==
    \A o \in Operator : command[o].verb = "install" =>
        /\ command[o].step \in {"start", "starting"} => registered # "old"
        /\ command[o].step = "starting" => proc.stage = "none" \/ proc.binary = "new"

(* Who stops the service has something to do afterwards.                   *)
StopsAreMeant ==
    \A o \in Operator :
        command[o].step \in {"stop", "waiting"} => command[o].verb \in {"install", "uninstall", "stop", "restart"}

SvcInv ==
    /\ SvcTypeOK /\ StateIsTrue /\ TakenStopSticks
    /\ scm.age = 0 /\ proc.drains <= StopTimeout
    /\ NewIsRegistered /\ StopsAreMeant

LEMMA SvcInvInit == SvcInit => SvcInv
BY WindowsServiceAssumption
   DEF SvcInit, NoProcess, SvcInv, SvcTypeOK, SvcStages, Verbs, CommandSteps, StateIsTrue, TakenStopSticks,
       NewIsRegistered, StopsAreMeant

(* What the process and the manager do by themselves.                      *)
LEMMA ProcessKeepsInv ==
    ASSUME SvcInv, Execute \/ ServerReturns \/ StopTaken \/ Drained
    PROVE  SvcInv'
<1>1. CASE Execute
  BY <1>1 DEF Execute, Reports, SvcInv, SvcTypeOK, SvcStages, StateIsTrue, TakenStopSticks, NewIsRegistered, StopsAreMeant
<1>2. CASE StopTaken
  BY <1>2 DEF StopTaken, Reports, SvcInv, SvcTypeOK, SvcStages, StateIsTrue, TakenStopSticks, NewIsRegistered, StopsAreMeant
<1>3. ASSUME NEW meant \in BOOLEAN, NEW code \in {0, 1}, meant => code = 0, Exits(meant, code) PROVE SvcInv'
  <2>1. /\ policy' \in [again : BOOLEAN, taken : BOOLEAN, done : Nat]
        /\ policy'.again => ~policy'.taken
    <3>1. PICK again \in BOOLEAN : again = (code # 0 /\ policy.done < Restarts)
      OBVIOUS
    <3>2. policy' = [policy EXCEPT !.again = again, !.taken = meant]
      BY <1>3, <3>1 DEF Exits
    <3>3. again => ~meant
      BY <1>3, <3>1
    <3>. QED  BY <3>2, <3>3 DEF SvcInv, SvcTypeOK
  <2>2. /\ proc' = [stage |-> "none", binary |-> "absent", drains |-> 0]
        /\ scm' = [state |-> "stopped", checkpoint |-> 0, age |-> 0] /\ UNCHANGED <<registered, command>>
    BY <1>3 DEF Exits, NoProcess, Reports
  <2>. QED
    BY <2>1, <2>2, WindowsServiceAssumption
       DEF SvcInv, SvcTypeOK, SvcStages, StateIsTrue, TakenStopSticks, NewIsRegistered, StopsAreMeant
<1>. QED  BY <1>1, <1>2, <1>3 DEF ServerReturns, Drained

LEMMA SvcTickKeepsInv == ASSUME SvcInv, SvcTick PROVE SvcInv'
<1>1. /\ command' \in [Operator -> [verb : Verbs, step : CommandSteps, waited : Nat, given : Nat]]
      /\ \A o \in Operator : command'[o].verb = command[o].verb /\ command'[o].step = command[o].step
  BY DEF SvcTick, SvcInv, SvcTypeOK
<1>2. /\ proc' \in [stage : SvcStages, binary : {"absent", "old", "new"}, drains : Nat]
      /\ proc'.stage = proc.stage /\ proc'.binary = proc.binary /\ proc'.drains <= StopTimeout
  BY WindowsServiceAssumption DEF SvcTick, SvcInv, SvcTypeOK
<1>3. scm' \in [state : {"stopped", "startpending", "running", "stoppending"}, checkpoint : Nat, age : Nat]
      /\ scm'.state = scm.state /\ scm'.age = 0
  <2>1. scm.checkpoint \in Nat /\ scm.age = 0 /\ NextCheckpoint(scm.checkpoint) = scm.checkpoint + 1
    BY DEF SvcInv, SvcTypeOK, NextCheckpoint
  <2>2. CASE proc.stage = "draining"
    <3>1. scm' = [scm EXCEPT !.checkpoint = NextCheckpoint(@),
                             !.age = IF NextCheckpoint(scm.checkpoint) > scm.checkpoint THEN 0 ELSE @ + 1]
      BY <2>2 DEF SvcTick
    <3> PICK n \in Nat : n = scm.checkpoint
      BY <2>1
    <3>2. NextCheckpoint(n) > n /\ NextCheckpoint(n) \in Nat
      BY DEF NextCheckpoint
    <3> PICK m \in Nat : m = NextCheckpoint(n)
      BY <3>2
    <3>3. scm' = [scm EXCEPT !.checkpoint = m, !.age = 0]
      BY ONLY <3>1, <3>2, n = scm.checkpoint, m = NextCheckpoint(n)
    <3>4. scm \in [state : {"stopped", "startpending", "running", "stoppending"}, checkpoint : Nat, age : Nat]
      BY DEF SvcInv, SvcTypeOK
    <3>. QED  BY ONLY <3>3, <3>4, m \in Nat
  <2>3. CASE proc.stage # "draining"
    BY <2>1, <2>3 DEF SvcTick, SvcInv, SvcTypeOK
  <2>. QED  BY <2>2, <2>3
<1>4. UNCHANGED <<registered, policy>>
  BY DEF SvcTick
<1>. QED  BY <1>1, <1>2, <1>3, <1>4 DEF SvcInv, SvcTypeOK, StateIsTrue, TakenStopSticks, NewIsRegistered, StopsAreMeant

(* Whoever starts the service while an installation waits for it starts    *)
(* what is registered.                                                     *)
LEMMA LaunchIsNew ==
    ASSUME SvcInv, scm.state = "stopped", registered # "absent", Launch
    PROVE  /\ proc' \in [stage : SvcStages, binary : {"absent", "old", "new"}, drains : Nat]
           /\ scm' \in [state : {"stopped", "startpending", "running", "stoppending"}, checkpoint : Nat, age : Nat]
           /\ StateIsTrue' /\ scm'.age = 0 /\ proc'.drains = 0 /\ proc'.binary = registered
BY DEF Launch, Reports, SvcInv, SvcTypeOK, SvcStages, StateIsTrue

LEMMA PolicyKeepsInv == ASSUME SvcInv, PolicyRestarts PROVE SvcInv'
<1>1. /\ policy' \in [again : BOOLEAN, taken : BOOLEAN, done : Nat] /\ TakenStopSticks'
      /\ UNCHANGED <<registered, command>>
  <2>1. policy' = [policy EXCEPT !.again = FALSE, !.done = @ + 1] /\ UNCHANGED <<registered, command>>
    BY DEF PolicyRestarts
  <2>2. policy \in [again : BOOLEAN, taken : BOOLEAN, done : Nat]
    BY DEF SvcInv, SvcTypeOK
  <2>3. policy' = [again |-> FALSE, taken |-> policy.taken, done |-> policy.done + 1]
    BY <2>1, <2>2
  <2>4. policy' \in [again : BOOLEAN, taken : BOOLEAN, done : Nat]
    BY <2>2, <2>3
  <2>5. ~policy'.again
    BY <2>3
  <2>. QED  BY <2>1, <2>4, <2>5 DEF TakenStopSticks
<1>2. CASE scm.state = "stopped" /\ registered # "absent"
  <2>1. Launch
    BY <1>2 DEF PolicyRestarts
  <2>. QED  BY <1>1, <1>2, <2>1, LaunchIsNew, WindowsServiceAssumption DEF SvcInv, SvcTypeOK, NewIsRegistered, StopsAreMeant
<1>3. CASE ~(scm.state = "stopped" /\ registered # "absent")
  <2>1. UNCHANGED <<scm, proc>>
    BY <1>3 DEF PolicyRestarts
  <2>. QED  BY <1>1, <2>1 DEF SvcInv, SvcTypeOK, StateIsTrue, NewIsRegistered, StopsAreMeant
<1>. QED  BY <1>2, <1>3

(* What an operator does: its steps, and what else they change.            *)
LEMMA StepsAre ==
    ASSUME SvcInv, NEW o \in Operator, NEW next \in CommandSteps, Steps(o, next)
    PROVE  /\ command' \in [Operator -> [verb : Verbs, step : CommandSteps, waited : Nat, given : Nat]]
           /\ command'[o].verb = command[o].verb /\ command'[o].step = next
           /\ \A p \in Operator : p # o => command'[p] = command[p]
BY DEF Steps, SvcInv, SvcTypeOK

LEMMA GivenKeepsInv ==
    ASSUME SvcInv, NEW o \in Operator, NEW verb \in Verbs \ {"none"}, CommandGiven(o, verb)
    PROVE  SvcInv'
<1>1. /\ command' \in [Operator -> [verb : Verbs, step : CommandSteps, waited : Nat, given : Nat]]
      /\ command'[o].step \in {"start", "stop", "register", "ok", "failed"}
      /\ command'[o].verb = verb /\ (verb = "install" => command'[o].step \in {"stop", "register"})
      /\ command'[o].step = "stop" => verb # "start"
      /\ \A p \in Operator : p # o => command'[p] = command[p]
  <2> PICK next \in {"start", "stop", "register", "ok", "failed"} :
         /\ next = IF registered # "absent" THEN (IF verb = "start" THEN "start" ELSE "stop")
                   ELSE IF verb = "install" THEN "register"
                   ELSE IF verb = "uninstall" THEN "ok" ELSE "failed"
    OBVIOUS
  <2>1. command' = [command EXCEPT ![o] = [verb |-> verb, waited |-> 0, given |-> @.given + 1, step |-> next]]
    BY DEF CommandGiven
  <2>2. (verb = "install" => next \in {"stop", "register"}) /\ (next = "stop" => verb # "start")
    OBVIOUS
  <2>. QED  BY <2>1, <2>2 DEF SvcInv, SvcTypeOK, CommandSteps
<1>2. UNCHANGED <<registered, scm, proc, policy>>
  BY DEF CommandGiven
<1>3. StopsAreMeant'
  BY <1>1 DEF SvcInv, StopsAreMeant, Verbs
<1>. QED  BY <1>1, <1>2, <1>3 DEF SvcInv, SvcTypeOK, StateIsTrue, TakenStopSticks, NewIsRegistered

(* What follows a stop.                                                    *)
LEMMA AfterStopIs ==
    ASSUME SvcInv, NEW o \in Operator, command[o].step \in {"stop", "waiting"}
    PROVE  /\ AfterStop(o) \in {"register", "remove", "start", "ok"}
           /\ command[o].verb = "install" => AfterStop(o) = "register"
BY DEF AfterStop, SvcInv, StopsAreMeant

LEMMA StopControlKeepsInv == ASSUME SvcInv, NEW o \in Operator, StopControl(o) PROVE SvcInv'
<1>1. /\ AfterStop(o) \in {"register", "remove", "start", "ok"}
      /\ command[o].verb = "install" => AfterStop(o) = "register"
      /\ command[o].verb \in {"install", "uninstall", "stop", "restart"}
  BY AfterStopIs DEF StopControl, SvcInv, StopsAreMeant
<1>2. PICK next \in {"register", "remove", "start", "ok", "waiting", "failed"} :
         /\ Steps(o, next) /\ (command[o].verb = "install" => next \notin {"start", "ok"})
  BY <1>1 DEF StopControl
<1>3. /\ proc' \in [stage : SvcStages, binary : {"absent", "old", "new"}, drains : Nat]
      /\ proc'.binary = proc.binary /\ proc'.drains = proc.drains
      /\ proc'.stage = proc.stage \/ (proc.stage = "serving" /\ proc'.stage = "stopping")
      /\ UNCHANGED <<registered, scm, policy>>
  BY DEF StopControl, SvcInv, SvcTypeOK, SvcStages
<1>4. next \in CommandSteps
  BY DEF CommandSteps
<1>5. /\ command' \in [Operator -> [verb : Verbs, step : CommandSteps, waited : Nat, given : Nat]]
      /\ command'[o].verb = command[o].verb /\ command'[o].step = next
      /\ \A p \in Operator : p # o => command'[p] = command[p]
  BY <1>2, <1>4, StepsAre
<1>6. NewIsRegistered' /\ StopsAreMeant'
  BY <1>1, <1>2, <1>3, <1>5 DEF SvcInv, NewIsRegistered, StopsAreMeant
<1>7. StateIsTrue' /\ TakenStopSticks'
  BY <1>3 DEF SvcInv, StateIsTrue, TakenStopSticks
<1>. QED  BY <1>3, <1>5, <1>6, <1>7 DEF SvcInv, SvcTypeOK

LEMMA WaitEndsKeepsInv == ASSUME SvcInv, NEW o \in Operator, WaitEnds(o) PROVE SvcInv'
<1>1. command[o].step \in {"waiting", "starting"} /\ UNCHANGED <<registered, scm, proc, policy>>
  BY DEF WaitEnds
<1>2. PICK next \in {"register", "remove", "start", "ok", "failed"} :
         Steps(o, next) /\ (command[o].verb = "install" => next # "start")
  BY AfterStopIs DEF WaitEnds
<1>3. next \in CommandSteps
  BY DEF CommandSteps
<1>4. /\ command' \in [Operator -> [verb : Verbs, step : CommandSteps, waited : Nat, given : Nat]]
      /\ command'[o].verb = command[o].verb /\ command'[o].step = next
      /\ \A p \in Operator : p # o => command'[p] = command[p]
  BY <1>2, <1>3, StepsAre
<1>. QED
  BY <1>1, <1>2, <1>4 DEF SvcInv, SvcTypeOK, StateIsTrue, TakenStopSticks, NewIsRegistered, StopsAreMeant

LEMMA RegistersKeepsInv == ASSUME SvcInv, NEW o \in Operator, Registers(o) PROVE SvcInv'
<1>1. PICK next \in {"start", "ok"} : Steps(o, next) /\ (next = "start" => registered' = "new") /\ registered' # "old"
  BY DEF Registers
<1>2. UNCHANGED <<scm, proc, policy>> /\ registered' \in {"absent", "old", "new"}
  BY DEF Registers
<1>. QED
  BY <1>1, <1>2, StepsAre DEF SvcInv, SvcTypeOK, CommandSteps, StateIsTrue, TakenStopSticks, NewIsRegistered, StopsAreMeant

LEMMA StartControlKeepsInv == ASSUME SvcInv, NEW o \in Operator, StartControl(o) PROVE SvcInv'
<1>1. command[o].step = "start" /\ UNCHANGED <<registered, policy>>
  BY DEF StartControl
<1>2. CASE registered # "absent" /\ scm.state = "stopped"
  <2>1. Steps(o, "starting") /\ Launch
    BY <1>2 DEF StartControl
  <2>2. /\ command' \in [Operator -> [verb : Verbs, step : CommandSteps, waited : Nat, given : Nat]]
        /\ command'[o].verb = command[o].verb /\ command'[o].step = "starting"
        /\ \A p \in Operator : p # o => command'[p] = command[p]
    BY <2>1, StepsAre DEF CommandSteps
  <2>. QED
    BY <1>1, <1>2, <2>1, <2>2, LaunchIsNew, WindowsServiceAssumption
       DEF SvcInv, SvcTypeOK, TakenStopSticks, NewIsRegistered, StopsAreMeant
<1>3. CASE ~(registered # "absent" /\ scm.state = "stopped")
  <2>1. PICK next \in {"ok", "failed"} : Steps(o, next)
    BY <1>3 DEF StartControl
  <2>2. UNCHANGED <<scm, proc>>
    BY <1>3 DEF StartControl
  <2>3. /\ command' \in [Operator -> [verb : Verbs, step : CommandSteps, waited : Nat, given : Nat]]
        /\ command'[o].verb = command[o].verb /\ command'[o].step = next
        /\ \A p \in Operator : p # o => command'[p] = command[p]
    BY <2>1, StepsAre DEF CommandSteps
  <2>. QED
    BY <1>1, <2>2, <2>3 DEF SvcInv, SvcTypeOK, StateIsTrue, TakenStopSticks, NewIsRegistered, StopsAreMeant
<1>. QED  BY <1>2, <1>3

(* What starting, or waiting, changes of the commands.                     *)
LEMMA StepsOfOne ==
    ASSUME SvcInv, NEW p \in Operator, StartControl(p) \/ WaitEnds(p)
    PROVE  /\ \A o \in Operator : o # p => command'[o] = command[o]
           /\ StartControl(p) /\ command[p].verb = "install" => command'[p].step # "ok"
<1>1. PICK next \in CommandSteps : Steps(p, next) /\ (StartControl(p) /\ command[p].verb = "install" => next # "ok")
  <2>1. CASE StartControl(p)
    <3>1. PICK next \in {"starting", "failed", "ok"} :
             Steps(p, next) /\ (next = "ok" => AlreadyRunning(p))
      BY <2>1 DEF StartControl
    <3>. QED  BY <3>1 DEF AlreadyRunning, CommandSteps
  <2>2. CASE WaitEnds(p) /\ ~StartControl(p)
    <3>1. PICK next \in {"register", "remove", "start", "ok", "failed"} : Steps(p, next)
      BY <2>2, AfterStopIs DEF WaitEnds
    <3>. QED  BY <2>2, <3>1 DEF CommandSteps
  <2>. QED  BY <2>1, <2>2
<1>. QED  BY <1>1, StepsAre

(* service_windows.go: whatever operators ask for, however often the       *)
(* server fails and the manager starts it again, the state reported is the *)
(* state of the process, and what an installation starts is the new        *)
(* binary.                                                                 *)
THEOREM WindowsServiceInvariant == SvcSpec => []SvcInv
<1>1. ASSUME SvcInv, [SvcNext]_svcvars PROVE SvcInv'
  <2>1. CASE UNCHANGED svcvars
    BY <1>1, <2>1
       DEF svcvars, SvcInv, SvcTypeOK, StateIsTrue, TakenStopSticks, NewIsRegistered, StopsAreMeant
  <2>2. CASE SvcNext
    <3>1. {"install", "uninstall", "start", "stop", "restart"} = Verbs \ {"none"}
      BY DEF Verbs
    <3>. QED
      BY <1>1, <2>2, <3>1, ProcessKeepsInv, SvcTickKeepsInv, PolicyKeepsInv, GivenKeepsInv, StopControlKeepsInv,
         WaitEndsKeepsInv, RegistersKeepsInv, StartControlKeepsInv DEF SvcNext
  <2>. QED  BY <1>1, <2>1, <2>2
<1>. QED  BY <1>1, SvcInvInit, PTL DEF SvcSpec

(* service_windows.go 113, 123 and 246: the policy never starts a service  *)
(* again that took its stop, the manager sees progress within its hint for *)
(* as long as a shutdown takes, and when an installation says that the     *)
(* service runs, the new binary does.  A stop that was pending when the    *)
(* server ended by itself may not have been taken (82).                    *)
THEOREM WindowsServiceObeys == SvcSpec => ServiceObeys
<1>1. SvcInv => TakenStopSticks /\ ManagerKeepsWaiting
  BY WindowsServiceAssumption DEF SvcInv, SvcTypeOK, ManagerKeepsWaiting
<1>2. ASSUME SvcInv, [SvcNext]_svcvars
      PROVE  [\A o \in Operator :
                command[o].verb = "install" /\ command[o].step \in {"start", "starting"} /\ command'[o].step = "ok"
                   => proc.binary = "new"]_svcvars
  <2>1. SUFFICES ASSUME NEW o \in Operator, command[o].verb = "install", command[o].step \in {"start", "starting"},
                        command'[o].step = "ok", SvcNext
                 PROVE  proc.binary = "new"
    BY <1>2
  <2>2. PICK p \in Operator : StartControl(p) \/ WaitEnds(p)
    <3>1. command'[o].step # command[o].step
      BY <2>1
    <3>2. ASSUME NEW p \in Operator, StopControl(p) \/ Registers(p) \/ \E verb \in Verbs : CommandGiven(p, verb) PROVE FALSE
      <4>1. p # o
        BY <2>1, <3>2 DEF StopControl, Registers, CommandGiven
      <4>2. PICK entry : command' = [command EXCEPT ![p] = entry]
        BY <3>2, <4>1 DEF StopControl, Registers, CommandGiven, Steps
      <4>. QED  BY <1>2, <3>1, <4>1, <4>2 DEF SvcInv, SvcTypeOK
    <3>3. Execute \/ ServerReturns \/ StopTaken \/ Drained \/ PolicyRestarts => command' = command
      BY DEF Execute, ServerReturns, StopTaken, Drained, Exits, PolicyRestarts
    <3>4. SvcTick => command'[o].step = command[o].step
      BY <1>2 DEF SvcTick, SvcInv, SvcTypeOK
    <3>. QED  BY <2>1, <3>1, <3>2, <3>3, <3>4 DEF SvcNext, Verbs
  <2>3. p = o
    BY <1>2, <2>1, <2>2, StepsOfOne
  <2>4. CASE StartControl(o)
    BY <1>2, <2>1, <2>4, StepsOfOne
  <2>5. CASE WaitEnds(o)
    <3>1. command[o].step = "starting" /\ (scm.state = "running" \/ Steps(o, "failed"))
      BY <2>1, <2>5 DEF WaitEnds
    <3>2. ~Steps(o, "failed")
      BY <1>2, <2>1, StepsAre DEF CommandSteps
    <3>. QED  BY <1>2, <2>1, <3>1, <3>2 DEF SvcInv, NewIsRegistered, StateIsTrue
  <2>. QED  BY <2>2, <2>3, <2>4, <2>5
<1>. QED  BY <1>1, <1>2, WindowsServiceInvariant, PTL DEF ServiceObeys, UpgradeRunsTheNew, SvcSpec

=============================================================================
