---------------------------- MODULE PartsProofs ----------------------------
(***************************************************************************)
(* Theorems about the webhook's deliveries, for any finite set of them and *)
(* any number of attempts; about the isolation of a voice: the stream, for *)
(* every hop, window, length and cut into pieces; and about what the store *)
(* keeps and what becomes of the text, of the parts side by side.          *)
(***************************************************************************)
EXTENDS MCParts, SharedProofs

-----------------------------------------------------------------------------
(* Webhook deliveries.                                                     *)

(* The group counts what is under way, a stop is told to every pause, and  *)
(* who was announced early has begun.                                      *)
WhInv ==
    /\ sent \in [Delivery -> [pc : {"none", "checking", "posting", "pausing", "ending", "over"},
                              attempt : 0 .. MaxAttempts]]
    /\ \A d \in Delivery : sent[d].pc \in {"posting", "pausing"} => sent[d].attempt < MaxAttempts
    /\ IsFiniteSet(UnderWay) /\ group = Cardinality(UnderWay)
    /\ close # "none" => stopping
    /\ early \subseteq Delivery /\ \A d \in early : sent[d].pc # "none"
    /\ ClosedMeansDelivered

(* A delivery that goes on is counted as it was.                           *)
LEMMA DeliveryGoesOn ==
    ASSUME WhInv, NEW d \in Delivery, sent[d].pc \in {"checking", "posting", "pausing"},
           NEW r \in [pc : {"posting", "pausing", "ending"}, attempt : 0 .. MaxAttempts],
           r.pc # "ending" => r.attempt < MaxAttempts,
           SentIs(d, r), UNCHANGED <<group, close, stopping, early>>
    PROVE  WhInv'
<1>1. /\ sent' \in [Delivery -> [pc : {"none", "checking", "posting", "pausing", "ending", "over"},
                                 attempt : 0 .. MaxAttempts]]
      /\ sent'[d] = r /\ \A e \in Delivery \ {d} : sent'[e] = sent[e]
  BY DEF WhInv, SentIs
<1>2. UnderWay' = UnderWay
  BY <1>1 DEF UnderWay
<1>. QED  BY <1>1, <1>2 DEF WhInv, ClosedMeansDelivered

(* webhook.go 94-145, 192-206: however deliveries, pauses, the minute a    *)
(* detached delivery has, and Close interleave, the group counts the       *)
(* deliveries under way.                                                   *)
THEOREM WebhookInvariant == WhSpec => []WhInv
<1>1. WhInit => WhInv
  <2> SUFFICES ASSUME WhInit PROVE WhInv
    OBVIOUS
  <2>1. UnderWay = {}
    BY DEF UnderWay, WhInit
  <2>. QED  BY <2>1, FS_EmptySet, WebhookAssumption DEF WhInv, WhInit, ClosedMeansDelivered
<1>2. ASSUME WhInv, NEW d \in Delivery, Notify(d) PROVE WhInv'
  <2>1. /\ sent' \in [Delivery -> [pc : {"none", "checking", "posting", "pausing", "ending", "over"},
                                   attempt : 0 .. MaxAttempts]]
        /\ sent'[d].pc = "checking" /\ \A e \in Delivery \ {d} : sent'[e] = sent[e]
    BY <1>2, WebhookAssumption DEF WhInv, Notify, SentIs
  <2>2. UnderWay' = UnderWay \cup {d} /\ d \notin UnderWay
    BY <1>2, <2>1 DEF UnderWay, Notify
  <2>3. IsFiniteSet(UnderWay') /\ Cardinality(UnderWay') = Cardinality(UnderWay) + 1
    BY <1>2, <2>2, FS_AddElement DEF WhInv
  <2>4. d \notin early /\ (close = "done" => early' = early)
    BY <1>2 DEF WhInv, Notify
  <2>. QED  BY <1>2, <2>1, <2>3, <2>4 DEF WhInv, Notify, ClosedMeansDelivered
<1>3. ASSUME WhInv, NEW d \in Delivery, CheckUrl(d) \/ Post(d) \/ PauseEnds(d) \/ PauseIsCut(d) PROVE WhInv'
  <2>1. /\ sent[d] \in [pc : {"none", "checking", "posting", "pausing", "ending", "over"}, attempt : 0 .. MaxAttempts]
        /\ sent[d].pc \in {"posting", "pausing"} => sent[d].attempt < MaxAttempts
    BY <1>3 DEF WhInv
  <2>2. CASE CheckUrl(d)
    <3> PICK next \in {"posting", "ending"} : SentIs(d, [pc |-> next, attempt |-> 0])
      BY <2>2 DEF CheckUrl
    <3>. QED  BY <1>3, <2>2, DeliveryGoesOn, WebhookAssumption DEF CheckUrl
  <2>3. CASE Post(d)
    <3> PICK ok \in {"ending", "pausing"} :
           SentIs(d, [pc |-> IF sent[d].attempt + 1 < MaxAttempts THEN ok ELSE "ending",
                      attempt |-> sent[d].attempt + 1])
      BY <2>3 DEF Post
    <3>. QED  BY <1>3, <2>1, <2>3, DeliveryGoesOn, WebhookAssumption DEF Post
  <2>4. CASE PauseEnds(d) \/ PauseIsCut(d)
    BY <1>3, <2>1, <2>4, DeliveryGoesOn, WebhookAssumption DEF PauseEnds, PauseIsCut
  <2>. QED  BY <1>3, <2>2, <2>3, <2>4
<1>4. ASSUME WhInv, NEW d \in Delivery, DeliveryEnds(d) PROVE WhInv'
  <2>1. /\ sent' \in [Delivery -> [pc : {"none", "checking", "posting", "pausing", "ending", "over"},
                                   attempt : 0 .. MaxAttempts]]
        /\ sent'[d].pc = "over" /\ \A e \in Delivery \ {d} : sent'[e] = sent[e]
    BY <1>4 DEF WhInv, DeliveryEnds, SentIs
  <2>2. UnderWay' = UnderWay \ {d} /\ d \in UnderWay
    BY <1>4, <2>1 DEF UnderWay, DeliveryEnds
  <2>3. IsFiniteSet(UnderWay') /\ Cardinality(UnderWay') = Cardinality(UnderWay) - 1
    BY <1>4, <2>2, FS_RemoveElement DEF WhInv
  <2>. QED  BY <1>4, <2>1, <2>3 DEF WhInv, DeliveryEnds, ClosedMeansDelivered
<1>5. ASSUME WhInv, (\E d \in Delivery : MinuteEnds(d)) \/ UNCHANGED whvars PROVE WhInv'
  <2>1. UnderWay' = UnderWay
    BY <1>5 DEF UnderWay, MinuteEnds, whvars
  <2>. QED  BY <1>5, <2>1 DEF WhInv, MinuteEnds, whvars, ClosedMeansDelivered
<1>6. ASSUME WhInv, SenderCloses \/ SenderClosed \/ SenderGivesUp PROVE WhInv'
  <2>1. UnderWay' = UnderWay
    BY <1>6 DEF UnderWay, SenderCloses, SenderClosed, SenderGivesUp
  <2>2. group = 0 => \A d \in Delivery : sent[d].pc \in {"none", "over"}
    BY <1>6, FS_EmptySet DEF WhInv, UnderWay
  <2>. QED  BY <1>6, <2>1, <2>2 DEF WhInv, SenderCloses, SenderClosed, SenderGivesUp, ClosedMeansDelivered
<1>7. WhInv /\ [WhNext]_whvars => WhInv'
  BY <1>2, <1>3, <1>4, <1>5, <1>6 DEF WhNext
<1>. QED  BY <1>1, <1>7, PTL DEF WhSpec

(* webhook.go 61: Close waits for what was promised, and not for a pause.  *)
THEOREM WebhookDeliveriesEnd == WhSpec => []DeliveriesEnd
<1>1. WhInv => DeliveriesEnd
  BY FS_EmptySet DEF WhInv, DeliveriesEnd, StopCutsPauses, CutShort
<1>. QED  BY <1>1, WebhookInvariant, PTL

-----------------------------------------------------------------------------
(* The stream of one voice.                                                *)

(* What the first m frames of the padded recording make of its place a.    *)
MadeOf(m, a) == {<<f, a - Pad>> : f \in {j \in 0..(m - 1) : Touches(j, a)}}

Made == SUBSET (Nat \X Nat)

StreamTyped ==
    /\ length \in Nat /\ fixed \in Nat /\ pushed \in 0..length
    /\ call \in {"none", "Push", "Flush"} /\ ended \in {"no", "flushed", "failed"}
    /\ stream \in [head : Seq(Nat), started : BOOLEAN, buf : Seq(Nat), ola : [1..Nfft -> Made],
                   dropped : Nat, seen : Nat]
    /\ out \in Seq(Made) /\ isolated \in Seq(Made)

(* Before there is enough for the mirrored start.                          *)
Unstarted ==
    /\ call = "none" /\ pushed <= Pad
    /\ stream = [head |-> [i \in 1..pushed |-> i], started |-> FALSE, buf |-> <<>>,
                 ola |-> Unadded(Nfft), dropped |-> 0, seen |-> 0]
    /\ out = <<>> /\ isolated = <<>>

(* The buffer begins after the m frames that were extracted, and is padded *)
(* at the end once the recording is flushed.                               *)
Buffered(m) ==
    /\ call # "Flush" => Len(stream.buf) + m * Hop = Pad + pushed /\ stream.seen = m
    /\ call = "Flush" =>
          /\ Len(stream.buf) + m * Hop = length + Nfft /\ pushed = length
          /\ Len(stream.buf) >= Nfft => stream.seen = m
    /\ m >= 1 => Len(stream.buf) + Hop >= Nfft
    /\ \A p \in 1..Len(stream.buf) :
          Pad < m * Hop + p /\ m * Hop + p <= Pad + length => stream.buf[p] = m * Hop + p - Pad

(* What m frames made is in the overlap-add, in out or has been returned.  *)
Summed(m) ==
    /\ \A p \in 1..Nfft :
          Pad < m * Hop + p /\ m * Hop + p <= Pad + length => stream.ola[p] = MadeOf(m, m * Hop + p)
    /\ stream.dropped = IF m * Hop < Pad THEN Pad - m * Hop ELSE 0
    /\ Len(isolated) + Len(out) + Pad = m * Hop + stream.dropped
    /\ \A i \in 1..Len(out) : Len(isolated) + i <= length => out[i] = InOnePass(Len(isolated) + i)

StreamInv ==
    /\ StreamTyped
    /\ length > Pad => \A i \in 1..length : i <= Len(isolated) => isolated[i] = InOnePass(i)
    /\ ended = "flushed" => Len(isolated) >= length
    /\ ended = "no" =>
          /\ ~stream.started => Unstarted
          /\ stream.started /\ length <= Pad => call = "Flush"
          /\ stream.started /\ length > Pad => \E m \in Nat : Buffered(m) /\ Summed(m)
          /\ call = "none" => out = <<>> /\ (stream.started => Exhausted)

(* Multiples of Hop.                                                       *)
LEMMA HopIs == Hop \in Nat /\ Hop >= 1 /\ Nfft \in Nat /\ Pad \in Nat /\ Nfft = 2 * Pad /\ Hop < Pad
<1>1. Hop \in Nat /\ Hop >= 1 /\ Nfft \in Nat /\ Nfft = 2 * Pad /\ Hop < Pad
  BY StreamAssumption
<1>2. Pad \in Nat
  BY <1>1 DEF Pad
<1>. QED  BY <1>1, <1>2

(* Sums, differences and orders of them.                                   *)
LEMMA HopTimes ==
    ASSUME NEW a \in Int, NEW b \in Int
    PROVE  /\ a * Hop \in Int /\ b * Hop \in Int /\ (a + b) * Hop = a * Hop + b * Hop
           /\ (a - b) * Hop = a * Hop - b * Hop
           /\ a <= b => a * Hop <= b * Hop
           /\ a < b => a * Hop + Hop <= b * Hop
           /\ a >= 0 => a * Hop >= 0
<1>1. Hop \in Nat /\ Hop >= 1
  BY HopIs
<1>2. PICK h \in Nat : h = Hop
  BY <1>1
<1>3. a * h \in Int /\ b * h \in Int /\ (a + b) * h = a * h + b * h /\ (a - b) * h = a * h - b * h
  OBVIOUS
<1>4. ASSUME NEW x \in Int, x >= 0 PROVE x * h >= 0
  BY <1>4
<1>5. a <= b => (b - a) * h >= 0
  BY <1>4
<1>6. a <= b => a * h <= b * h
  <2>1. (b - a) * h = b * h - a * h
    OBVIOUS
  <2>. QED  BY <1>3, <1>5, <2>1
<1>7. a < b => a * h + h <= b * h
  <2>1. a < b => (b - a - 1) * h >= 0
    BY <1>4
  <2>2. (b - a - 1) * h = b * h - a * h - h
    OBVIOUS
  <2>. QED  BY <1>3, <2>1, <2>2
<1>8. a >= 0 => a * h >= 0
  BY <1>4
<1>. QED  BY <1>2, <1>3, <1>6, <1>7, <1>8

(* The order alone.                                                        *)
LEMMA HopOrder ==
    ASSUME NEW a \in Int, NEW b \in Int, a <= b
    PROVE  a * Hop \in Int /\ b * Hop \in Int /\ a * Hop <= b * Hop
BY HopTimes

(* One more and one less.                                                  *)
LEMMA HopNext ==
    ASSUME NEW a \in Int
    PROVE  /\ a * Hop \in Int /\ (a + 1) * Hop = a * Hop + Hop /\ (a - 1) * Hop = a * Hop - Hop
           /\ a >= 0 => a * Hop >= 0
<1>1. PICK h \in Nat : h = Hop
  BY HopIs
<1>2. a * h \in Int /\ (a + 1) * h = a * h + h /\ (a - 1) * h = a * h - h
  OBVIOUS
<1>3. a >= 0 => a * h >= 0
  OBVIOUS
<1>. QED  BY <1>1, <1>2, <1>3

(* How many fit in a length.                                               *)
LEMMA HopDivides ==
    ASSUME NEW n \in Nat
    PROVE  n \div Hop \in Nat /\ (n \div Hop) * Hop <= n /\ n < (n \div Hop) * Hop + Hop
<1>1. PICK h \in Nat \ {0} : h = Hop
  BY HopIs
<1>2. n \div h \in Nat /\ (n \div h) * h <= n /\ n < (n \div h) * h + h
  OBVIOUS
<1>. QED  BY <1>1, <1>2

(* The frames a buffer holds.                                              *)
LEMMA FramesFit ==
    ASSUME NEW n \in Nat
    PROVE  /\ FramesIn(n) \in Nat
           /\ FramesIn(n) = 0 <=> n < Nfft
           /\ FramesIn(n) > 0 => (FramesIn(n) - 1) * Hop + Nfft <= n
           /\ n < Nfft + FramesIn(n) * Hop
<1>1. CASE n < Nfft
  <2>1. FramesIn(n) = 0 /\ 0 * Hop = 0
    BY <1>1, HopIs DEF FramesIn
  <2>. QED  BY <1>1, <2>1, HopIs
<1>2. CASE n >= Nfft
  <2>1. n - Nfft \in Nat
    BY <1>2, HopIs
  <2>2. PICK q \in Nat : q = (n - Nfft) \div Hop
    BY <2>1, HopDivides
  <2>3. q * Hop <= n - Nfft /\ n - Nfft < q * Hop + Hop
    BY <2>1, <2>2, HopDivides
  <2>4. FramesIn(n) = 1 + q
    BY <1>2, <2>2, HopIs DEF FramesIn
  <2>5. (q + 1) * Hop = q * Hop + Hop /\ q * Hop \in Int
    BY HopTimes, HopIs
  <2>6. FramesIn(n) - 1 = q /\ FramesIn(n) * Hop = q * Hop + Hop
    BY <2>4, <2>5
  <2>. QED  BY <1>2, <2>3, <2>4, <2>5, <2>6, HopIs
<1>. QED  BY <1>1, <1>2, HopIs

(* Two sequences one after the other.                                      *)
LEMMA Joined ==
    ASSUME NEW S, NEW s \in Seq(S), NEW t \in Seq(S)
    PROVE  /\ s \o t \in Seq(S) /\ Len(s \o t) = Len(s) + Len(t)
           /\ \A i \in 1..(Len(s) + Len(t)) : (s \o t)[i] = IF i <= Len(s) THEN s[i] ELSE t[i - Len(s)]
OBVIOUS

(* A function of 1..n is a sequence.                                       *)
LEMMA Listed ==
    ASSUME NEW S, NEW n \in Nat, NEW f \in [1..n -> S]
    PROVE  f \in Seq(S) /\ Len(f) = n
OBVIOUS

(* Where frame j begins.                                                   *)
LEMMA TouchesMeans ==
    ASSUME NEW j \in Int, NEW p, NEW x, x = j * Hop
    PROVE  Touches(j, p) <=> x + 1 < p /\ p <= x + Nfft
BY DEF Touches

(* What follows the first n of a sequence.                                 *)
LEMMA Remaining ==
    ASSUME NEW S, NEW s \in Seq(S), NEW n \in Nat, n <= Len(s)
    PROVE  /\ SubSeq(s, n + 1, Len(s)) \in Seq(S) /\ Len(SubSeq(s, n + 1, Len(s))) = Len(s) - n
           /\ \A i \in 1..(Len(s) - n) : SubSeq(s, n + 1, Len(s))[i] = s[n + i]
OBVIOUS

(* A place that m frames have left behind has all it gets.                 *)
LEMMA MadeInOnePass ==
    ASSUME NEW m \in Nat, NEW i \in Nat, length \in Nat,
           m >= 1 => (m - 1) * Hop <= length,
           i + Pad <= m * Hop \/ length < m * Hop
    PROVE  MadeOf(m, i + Pad) = InOnePass(i)
<1>1. PICK q \in Nat : q = length \div Hop /\ q * Hop <= length /\ length < q * Hop + Hop
  BY HopDivides
<1>2. ASSUME NEW f \in 0..(m - 1) PROVE f <= q
  <2>1. m >= 1 /\ m - 1 \in Int /\ (m - 1) * Hop <= length
    BY <1>2
  <2>2. CASE q < m - 1
    BY <1>1, <2>1, <2>2, HopTimes, HopIs
  <2>. QED  BY <1>2, <2>1, <2>2
<1>3. ASSUME NEW f \in 0..q, f >= m PROVE ~Touches(f, i + Pad)
  <2>1. m * Hop <= f * Hop /\ f * Hop <= q * Hop /\ m * Hop \in Int /\ f * Hop \in Int /\ q * Hop \in Int
    <3>1. m \in Int /\ f \in Int /\ q \in Int /\ m <= f /\ f <= q
      BY <1>3
    <3>. QED  BY <3>1, HopOrder
  <2>2. PICK x \in Int, y \in Int, z \in Int : x = f * Hop /\ y = m * Hop /\ z = q * Hop
    BY <2>1
  <2>3. y <= x /\ x <= z /\ z <= length /\ (i + Pad <= y \/ length < y)
    BY <1>1, <2>1, <2>2
  <2>4. ~(x + 1 < i + Pad /\ i + Pad <= x + Nfft)
    BY <2>3, HopIs
  <2>. QED  BY <2>2, <2>4, TouchesMeans
<1>4. {j \in 0..(m - 1) : Touches(j, i + Pad)} = {j \in 0..q : Touches(j, i + Pad)}
  BY <1>1, <1>2, <1>3
<1>5. (i + Pad) - Pad = i
  BY HopIs
<1>. QED  BY <1>1, <1>4, <1>5 DEF MadeOf, InOnePass

(* The next k frames of a buffer that begins after m frames.               *)
LEMMA AddedIsMade ==
    ASSUME StreamTyped, NEW m \in Nat, Buffered(m), Summed(m), stream.seen = m,
           NEW k \in Nat \ {0}, (k - 1) * Hop + Nfft <= Len(stream.buf),
           NEW p \in 1..(Nfft + k * Hop), Pad < m * Hop + p, m * Hop + p <= Pad + length
    PROVE  Added(k, p) = MadeOf(m + k, m * Hop + p)
<1> DEFINE a == m * Hop + p
<1>1. p \in Nat /\ m * Hop \in Int /\ k * Hop \in Int /\ a \in Int /\ m * Hop >= 0 /\ k * Hop >= 0
  BY HopTimes, HopIs
<1>2. \A j \in Int : j * Hop \in Int /\ (Touches(j, p) <=> Touches(m + j, a))
  <2> TAKE j \in Int
  <2>1. j * Hop \in Int /\ (m + j) * Hop = m * Hop + j * Hop
    <3>1. m \in Int /\ j \in Int
      OBVIOUS
    <3>. QED  BY <3>1, HopTimes
  <2>2. PICK x \in Int, y \in Int : x = j * Hop /\ y = m * Hop
    BY <1>1, <2>1
  <2>3. Touches(j, p) <=> x + 1 < p /\ p <= x + Nfft
    BY <2>2, TouchesMeans
  <2>4. Touches(m + j, a) <=> y + x + 1 < y + p /\ y + p <= y + x + Nfft
    BY <2>1, <2>2, TouchesMeans
  <2>. QED  BY <1>1, <2>1, <2>3, <2>4, HopIs
<1>3. ASSUME NEW j \in 0..(k - 1), Touches(j, p)
      PROVE  <<stream.seen + j, stream.buf[p]>> = <<m + j, a - Pad>>
  <2>1. j * Hop \in Int /\ (k - 1) * Hop \in Int /\ j * Hop <= (k - 1) * Hop
    <3>1. j \in Int /\ k - 1 \in Int /\ j <= k - 1
      BY <1>3
    <3>. QED  BY <3>1, HopOrder
  <2>2. PICK x \in Int, y \in Int : x = j * Hop /\ y = (k - 1) * Hop
    BY <2>1
  <2>3. p <= x + Nfft /\ x <= y /\ y + Nfft <= Len(stream.buf)
    BY <1>3, <2>1, <2>2, TouchesMeans
  <2>4. Len(stream.buf) \in Nat
    BY DEF StreamTyped
  <2>5. p \in 1..Len(stream.buf)
    BY <1>1, <2>3, <2>4, HopIs
  <2>6. stream.buf[p] = m * Hop + p - Pad
    BY <2>5 DEF Buffered
  <2>7. stream.seen + j = m + j
    BY Zenon
  <2>8. stream.buf[p] = a - Pad
    <3>1. m * Hop + p - Pad = a - Pad
      BY <1>1, HopIs
    <3>. QED  BY <2>6, <3>1, Zenon
  <2>. QED  BY <2>7, <2>8, Zenon
<1>4. (IF p <= Nfft THEN stream.ola[p] ELSE {}) = MadeOf(m, a)
  <2>1. CASE p <= Nfft
    BY <1>1, <2>1, HopIs DEF Summed
  <2>2. CASE p > Nfft
    <3>1. ASSUME NEW j \in 0..(m - 1) PROVE ~Touches(j, a)
      <4>1. j * Hop \in Int /\ j * Hop + Hop <= m * Hop
        BY HopTimes, HopIs
      <4>2. PICK x \in Int, y \in Int : x = j * Hop /\ y = m * Hop
        BY <1>1, <4>1
      <4>3. ~(x + 1 < y + p /\ y + p <= x + Nfft)
        BY <1>1, <2>2, <4>1, <4>2, HopIs
      <4>. QED  BY <4>2, <4>3, TouchesMeans
    <3>2. MadeOf(m, a) = {}
      BY <3>1 DEF MadeOf
    <3>3. ~(p <= Nfft)
      BY <1>1, <2>2, HopIs
    <3>. QED  BY <3>2, <3>3, Zenon
  <2>3. p \in Int /\ Nfft \in Int
    BY <1>1, HopIs
  <2>. QED  BY <2>1, <2>2, <2>3
<1>5. {<<stream.seen + j, stream.buf[p]>> : j \in {i \in 0..(k - 1) : Touches(i, p)}}
        = {<<f, a - Pad>> : f \in {i \in m..(m + k - 1) : Touches(i, a)}}
  <2>1. ASSUME NEW f \in m..(m + k - 1), Touches(f, a)
        PROVE  f - m \in 0..(k - 1) /\ Touches(f - m, p) /\ f = m + (f - m)
    BY <1>2, <2>1
  <2>2. ASSUME NEW j \in 0..(k - 1), Touches(j, p)
        PROVE  m + j \in m..(m + k - 1) /\ Touches(m + j, a)
    BY <1>2, <2>2
  <2>. QED  BY <1>3, <2>1, <2>2
<1>6. {i \in 0..(m + k - 1) : Touches(i, a)}
        = {i \in 0..(m - 1) : Touches(i, a)} \cup {i \in m..(m + k - 1) : Touches(i, a)}
  <2>1. 0..(m + k - 1) = 0..(m - 1) \cup m..(m + k - 1)
    OBVIOUS
  <2>. QED  BY <2>1
<1> HIDE DEF a
<1>7. MadeOf(m + k, a) = MadeOf(m, a) \cup {<<f, a - Pad>> : f \in {i \in m..(m + k - 1) : Touches(i, a)}}
  BY <1>6 DEF MadeOf
<1>8. Added(k, p) = MadeOf(m + k, a)
  BY <1>4, <1>5, <1>7 DEF Added
<1>. QED  BY <1>8 DEF a

(* What a call adds is a set of contributions.                             *)
LEMMA AddedTyped ==
    ASSUME StreamTyped, NEW k \in Nat \ {0}, (k - 1) * Hop + Nfft <= Len(stream.buf), NEW p \in Nat \ {0}
    PROVE  Added(k, p) \in Made
<1>1. stream.seen \in Nat /\ stream.buf \in Seq(Nat) /\ stream.ola \in [1..Nfft -> Made]
  BY DEF StreamTyped
<1>2. (IF p <= Nfft THEN stream.ola[p] ELSE {}) \in Made
  <2>1. {} \in Made
    BY DEF Made
  <2>2. p <= Nfft => p \in 1..Nfft
    BY HopIs
  <2>3. \A q \in 1..Nfft : stream.ola[q] \in Made
    BY <1>1
  <2>. QED  BY <2>1, <2>2, <2>3, Zenon
<1>3. ASSUME NEW j \in 0..(k - 1), Touches(j, p) PROVE <<stream.seen + j, stream.buf[p]>> \in Nat \X Nat
  <2>1. j * Hop \in Int /\ (k - 1) * Hop \in Int /\ j * Hop <= (k - 1) * Hop
    <3>1. j \in Int /\ k - 1 \in Int /\ j <= k - 1
      BY <1>3
    <3>. QED  BY <3>1, HopOrder
  <2>2. PICK x \in Int, y \in Int : x = j * Hop /\ y = (k - 1) * Hop
    BY <2>1
  <2>3. p <= x + Nfft /\ x <= y /\ y + Nfft <= Len(stream.buf)
    BY <1>3, <2>1, <2>2, TouchesMeans
  <2>4. p \in 1..Len(stream.buf)
    BY <1>1, <2>3, HopIs
  <2>. QED  BY <1>1, <2>4
<1>4. {<<stream.seen + j, stream.buf[p]>> : j \in {i \in 0..(k - 1) : Touches(i, p)}} \in Made
  BY <1>3 DEF Made
<1>. QED  BY <1>2, <1>4 DEF Added, Made

(* The frames of a call fit the buffer.                                    *)
LEMMA NextCallFits ==
    ASSUME StreamTyped, ~Exhausted
    PROVE  /\ NextCall \in Nat \ {0} /\ (NextCall - 1) * Hop + Nfft <= Len(stream.buf)
           /\ NextCall * Hop \in Nat /\ NextCall * Hop = (NextCall - 1) * Hop + Hop
           /\ NextCall * Hop <= Len(stream.buf)
           /\ NextCall < PerCall => Len(stream.buf) < Nfft + NextCall * Hop
<1> DEFINE n == Len(stream.buf)  f == FramesIn(n)
<1>1. n \in Nat /\ PerCall \in Nat \ {0}
  BY StreamAssumption DEF StreamTyped, PerCall
<1>2. f \in Nat /\ (f > 0 => (f - 1) * Hop + Nfft <= n) /\ n < Nfft + f * Hop
  BY <1>1, FramesFit
<1>3. NextCall = (IF f < PerCall THEN f ELSE PerCall) /\ NextCall # 0
  BY DEF NextCall, Exhausted
<1> HIDE DEF n, f
<1>4. NextCall \in Nat \ {0} /\ NextCall <= f /\ f > 0
  BY <1>1, <1>2, <1>3
<1> PICK k \in Nat \ {0} : k = NextCall
  BY <1>4
<1>5. (k - 1) * Hop \in Int /\ (f - 1) * Hop \in Int /\ (k - 1) * Hop <= (f - 1) * Hop
  <2>1. k - 1 \in Int /\ f - 1 \in Int /\ k - 1 <= f - 1
    BY <1>2, <1>4
  <2>. QED  BY <2>1, HopOrder
<1>6. k * Hop \in Int /\ k * Hop = (k - 1) * Hop + Hop /\ k * Hop >= 0
  <2>1. k \in Int /\ k >= 0
    OBVIOUS
  <2>2. k * Hop \in Int /\ (k - 1) * Hop = k * Hop - Hop /\ k * Hop >= 0
    BY <2>1, HopNext
  <2>. QED  BY <2>2, HopIs
<1>7. (k - 1) * Hop + Nfft <= n
  BY <1>1, <1>2, <1>4, <1>5, HopIs
<1>8. k < PerCall => n < Nfft + k * Hop
  BY <1>1, <1>2, <1>3
<1>. QED  BY <1>1, <1>5, <1>6, <1>7, <1>8, HopIs DEF n

(* What a call leaves behind.                                              *)
LEMMA Extracted ==
    ASSUME StreamTyped, ExtractFrames, NEW k, k = NextCall, NEW skip, skip = IF stream.dropped < k * Hop THEN stream.dropped ELSE k * Hop
    PROVE  /\ stream' \in [head : Seq(Nat), started : BOOLEAN, buf : Seq(Nat), ola : [1..Nfft -> Made],
                           dropped : Nat, seen : Nat]
           /\ stream'.head = stream.head /\ stream'.started = stream.started
           /\ stream'.dropped = stream.dropped - skip /\ stream'.seen = stream.seen + Seen(k)
           /\ Len(stream'.buf) = Len(stream.buf) - k * Hop
           /\ \A p \in 1..(Len(stream.buf) - k * Hop) : stream'.buf[p] = stream.buf[k * Hop + p]
           /\ \A p \in 1..Nfft : stream'.ola[p] = Added(k, k * Hop + p)
           /\ skip \in Nat /\ skip <= k * Hop
           /\ out' \in Seq(Made) /\ Len(out') = Len(out) + (k * Hop - skip)
           /\ \A i \in 1..(Len(out) + (k * Hop - skip)) :
                 out'[i] = IF i <= Len(out) THEN out[i] ELSE Added(k, skip + (i - Len(out)))
<1> DEFINE ready == k * Hop
           ola == [p \in 1..Nfft |-> Added(k, ready + p)]
           more == [p \in 1..(ready - skip) |-> Added(k, skip + p)]
           buf == SubSeq(stream.buf, ready + 1, Len(stream.buf))
<1>1. k \in Nat \ {0} /\ (k - 1) * Hop + Nfft <= Len(stream.buf) /\ ready \in Nat /\ ready <= Len(stream.buf)
  BY NextCallFits DEF ExtractFrames
<1>2. /\ stream.head \in Seq(Nat) /\ stream.started \in BOOLEAN /\ stream.buf \in Seq(Nat)
      /\ stream.dropped \in Nat /\ stream.seen \in Nat /\ out \in Seq(Made) /\ Len(stream.buf) \in Nat
      /\ Seen(k) \in Nat
  BY <1>1 DEF StreamTyped, Seen
<1>3. skip \in Nat /\ skip <= ready /\ skip <= stream.dropped
  BY <1>1, <1>2
<1>4. \A p \in Nat \ {0} : Added(k, p) \in Made
  BY <1>1, AddedTyped
<1>5. ola \in [1..Nfft -> Made] /\ \A p \in 1..Nfft : ola[p] = Added(k, ready + p)
  BY <1>1, <1>4
<1>6. more \in Seq(Made) /\ Len(more) = ready - skip /\ \A p \in 1..(ready - skip) : more[p] = Added(k, skip + p)
  <2>1. ready - skip \in Nat /\ more \in [1..(ready - skip) -> Made]
    BY <1>1, <1>3, <1>4
  <2>. QED  BY <2>1, Listed
<1>7. /\ buf \in Seq(Nat) /\ Len(buf) = Len(stream.buf) - ready
      /\ \A p \in 1..(Len(stream.buf) - ready) : buf[p] = stream.buf[ready + p]
  BY <1>1, <1>2, Remaining, ZenonT(60)
<1>8. /\ stream' = [stream EXCEPT !.buf = buf, !.ola = ola, !.seen = stream.seen + Seen(k),
                                   !.dropped = stream.dropped - skip]
      /\ out' = out \o more
  BY DEF ExtractFrames
<1>9. /\ out' \in Seq(Made) /\ Len(out') = Len(out) + (ready - skip)
      /\ \A i \in 1..(Len(out) + (ready - skip)) :
            out'[i] = IF i <= Len(out) THEN out[i] ELSE Added(k, skip + (i - Len(out)))
  <2>1. /\ Len(out') = Len(out) + Len(more) /\ out' \in Seq(Made)
        /\ \A i \in 1..(Len(out) + Len(more)) : out'[i] = IF i <= Len(out) THEN out[i] ELSE more[i - Len(out)]
    <3> HIDE DEF more
    <3>. QED  BY <1>2, <1>6, <1>8, Joined
  <2>2. Len(out) \in Nat /\ ready - skip \in Nat
    BY <1>1, <1>2, <1>3
  <2>3. ASSUME NEW i \in 1..(Len(out) + (ready - skip)), ~(i <= Len(out)) PROVE i - Len(out) \in 1..(ready - skip)
    BY <2>2, <2>3
  <2>. QED  BY <1>6, <2>1, <2>3
<1> HIDE DEF ready, ola, more, buf
<1>10. /\ stream' \in [head : Seq(Nat), started : BOOLEAN, buf : Seq(Nat), ola : [1..Nfft -> Made],
                       dropped : Nat, seen : Nat]
       /\ stream'.head = stream.head /\ stream'.started = stream.started
       /\ stream'.dropped = stream.dropped - skip /\ stream'.seen = stream.seen + Seen(k)
       /\ stream'.buf = buf /\ stream'.ola = ola
  <2>1. stream.dropped - skip \in Nat /\ stream.seen + Seen(k) \in Nat
    BY <1>2, <1>3
  <2>. QED  BY <1>2, <1>5, <1>7, <1>8, <2>1 DEF StreamTyped
<1>. QED  BY <1>3, <1>5, <1>7, <1>9, <1>10 DEF ready

(* The call is for the frames that come next, and what it completes is     *)
(* what the recording gives in one pass.                                   *)
LEMMA ExtractKeepsCount ==
    ASSUME StreamTyped, ended = "no", ExtractFrames, NEW m \in Nat, Buffered(m), Summed(m), length > Pad
    PROVE  \E n \in Nat : Buffered(n)' /\ Summed(n)'
<1>k. PICK k \in Nat \ {0} : k = NextCall
  BY NextCallFits DEF ExtractFrames
<1>d. PICK ready \in Nat, last \in Nat : ready = k * Hop /\ last = (k - 1) * Hop
  <2>1. k \in Int /\ k >= 0 /\ k - 1 \in Int /\ k - 1 >= 0
    OBVIOUS
  <2>2. k * Hop \in Int /\ k * Hop >= 0 /\ (k - 1) * Hop \in Int /\ (k - 1) * Hop >= 0
    BY <2>1, HopNext
  <2>. QED  BY <2>2
<1>c. PICK skip : skip = IF stream.dropped < ready THEN stream.dropped ELSE ready
  OBVIOUS
<1>m. PICK mh \in Nat, mk \in Nat : mh = m * Hop /\ mk = (m + k) * Hop
  <2>1. m \in Int /\ m >= 0 /\ m + k \in Int /\ m + k >= 0
    OBVIOUS
  <2>2. m * Hop \in Int /\ m * Hop >= 0 /\ (m + k) * Hop \in Int /\ (m + k) * Hop >= 0
    BY <2>1, HopNext
  <2>. QED  BY <2>2
<1>1. /\ last + Nfft <= Len(stream.buf) /\ ready = last + Hop /\ ready <= Len(stream.buf)
      /\ k < PerCall => Len(stream.buf) < Nfft + ready
  BY <1>k, <1>d, NextCallFits DEF ExtractFrames
<1>2. mk = mh + ready /\ (m + k - 1) * Hop = mh + last
  <2>1. m \in Int /\ k \in Int /\ k - 1 \in Int
    OBVIOUS
  <2>2. (m + k) * Hop = m * Hop + k * Hop
    BY <2>1, HopTimes
  <2>3. (m + (k - 1)) * Hop = m * Hop + (k - 1) * Hop
    BY <2>1, HopTimes
  <2>4. m + (k - 1) = m + k - 1
    OBVIOUS
  <2>. QED  BY <1>d, <1>m, <2>2, <2>3, <2>4
<1>3. /\ Len(stream.buf) \in Nat /\ stream.seen \in Nat /\ stream.dropped \in Nat /\ length \in Nat
      /\ pushed \in Nat /\ pushed <= length /\ Len(out) \in Nat /\ Len(isolated) \in Nat /\ fixed \in Nat
  BY DEF StreamTyped
<1>4. Len(stream.buf) >= Nfft /\ stream.seen = m
  <2>1. Len(stream.buf) >= Nfft
    BY <1>1, <1>3, HopIs
  <2>. QED  BY <2>1 DEF Buffered
<1>5. /\ stream'.dropped = stream.dropped - skip /\ stream'.seen = stream.seen + Seen(k)
      /\ Len(stream'.buf) = Len(stream.buf) - ready
      /\ \A p \in 1..(Len(stream.buf) - ready) : stream'.buf[p] = stream.buf[ready + p]
      /\ \A p \in 1..Nfft : stream'.ola[p] = Added(k, ready + p)
      /\ Len(out') = Len(out) + (ready - skip)
      /\ \A i \in 1..(Len(out) + (ready - skip)) :
            out'[i] = IF i <= Len(out) THEN out[i] ELSE Added(k, skip + (i - Len(out)))
  BY <1>k, <1>d, <1>c, Extracted
<1>6. UNCHANGED <<length, fixed, pushed, call, isolated>>
  BY DEF ExtractFrames
<1>7. /\ call # "Flush" => Len(stream.buf) + mh = Pad + pushed
      /\ call = "Flush" => Len(stream.buf) + mh = length + Nfft /\ pushed = length
      /\ \A p \in 1..Len(stream.buf) : Pad < mh + p /\ mh + p <= Pad + length => stream.buf[p] = mh + p - Pad
  BY <1>m DEF Buffered
<1>8. /\ stream.dropped = IF mh < Pad THEN Pad - mh ELSE 0
      /\ Len(isolated) + Len(out) + Pad = mh + stream.dropped
      /\ \A i \in 1..Len(out) : Len(isolated) + i <= length => out[i] = InOnePass(Len(isolated) + i)
  BY <1>m DEF Summed
<1>9. (m + k - 1) * Hop <= length
  <2>1. mh + last <= length
    <3>1. call = "Flush" \/ call # "Flush"
      OBVIOUS
    <3>2. Len(stream.buf) + mh = Pad + pushed \/ (Len(stream.buf) + mh = length + Nfft /\ pushed = length)
      BY <1>7, <3>1, Zenon
    <3>3. last + Nfft <= Len(stream.buf) /\ Len(stream.buf) \in Nat /\ mh \in Nat /\ last \in Nat
      BY <1>1, <1>3
    <3>4. length \in Nat /\ pushed \in Nat /\ pushed <= length
      BY <1>3
    <3>. QED  BY <3>2, <3>3, <3>4, HopIs
  <2>. QED  BY <1>2, <2>1
<1>10. ASSUME NEW p \in Nat, 1 <= p, p <= Nfft + ready, Pad < mh + p, mh + p <= Pad + length
       PROVE  Added(k, p) = MadeOf(m + k, mh + p)
  <2>1. p \in 1..(Nfft + k * Hop)
    BY <1>d, <1>10, HopIs
  <2>. QED  BY <1>k, <1>d, <1>m, <1>1, <1>4, <1>10, <2>1, AddedIsMade
<1>11. Seen(k) = k \/ (call = "Flush" /\ Len(stream.buf) < Nfft + ready /\ Seen(k) \in Nat)
  <2>1. CASE fixed = 0
    BY <2>1 DEF Seen
  <2>2. CASE fixed # 0
    <3>4. fixed \in Nat /\ fixed > 0
      BY <1>3, <2>2
    <3>1. Seen(k) = PerCall /\ fixed > 0 /\ PerCall \in Nat
      BY <3>4 DEF Seen, PerCall
    <3>2. k <= PerCall
      BY <1>k, <3>1 DEF NextCall
    <3>3. k < PerCall => call = "Flush"
      BY <1>k, <3>1 DEF ExtractFrames, Exhausted, Waits
    <3>. QED  BY <1>1, <3>1, <3>2, <3>3
  <2>. QED  BY <2>1, <2>2
<1>12. Buffered(m + k)'
  <2>1. Len(stream'.buf) + mk = Len(stream.buf) + mh
    BY <1>2, <1>3, <1>5
  <2>2. \A p \in 1..Len(stream'.buf) : Pad < mk + p /\ mk + p <= Pad + length => stream'.buf[p] = mk + p - Pad
    <3> TAKE p \in 1..Len(stream'.buf)
    <3> HAVE Pad < mk + p /\ mk + p <= Pad + length
    <3>1. p \in 1..(Len(stream.buf) - ready) /\ ready + p \in 1..Len(stream.buf)
      BY <1>1, <1>3, <1>5, SMTT(30)
    <3>2. mk + p = mh + (ready + p)
      BY <1>2
    <3>3. stream.buf[ready + p] = mh + (ready + p) - Pad
      BY <1>7, <3>1, <3>2
    <3>4. mk + p - Pad = mh + (ready + p) - Pad
      BY <1>2, HopIs
    <3>. QED  BY <1>5, <3>1, <3>3, <3>4
  <2>3. Len(stream'.buf) + Hop >= Nfft
    BY <1>1, <1>3, <1>5, HopIs
  <2>4. (call # "Flush" \/ Len(stream'.buf) >= Nfft) => stream'.seen = m + k
    BY <1>1, <1>3, <1>4, <1>5, <1>11, HopIs
  <2>5. /\ call # "Flush" => Len(stream'.buf) + mk = Pad + pushed
        /\ call = "Flush" => Len(stream'.buf) + mk = length + Nfft /\ pushed = length
    BY <1>7, <2>1
  <2>. QED  BY <1>m, <1>6, <2>2, <2>3, <2>4, <2>5 DEF Buffered
<1>13. Summed(m + k)'
  <2>1. \A p \in 1..Nfft : Pad < mk + p /\ mk + p <= Pad + length => stream'.ola[p] = MadeOf(m + k, mk + p)
    <3> TAKE p \in 1..Nfft
    <3> HAVE Pad < mk + p /\ mk + p <= Pad + length
    <3>1. ready + p \in Nat /\ 1 <= ready + p /\ ready + p <= Nfft + ready /\ mk + p = mh + (ready + p)
      BY <1>2, HopIs
    <3>2. Added(k, ready + p) = MadeOf(m + k, mh + (ready + p))
      BY <1>10, <3>1
    <3>. QED  BY <1>5, <3>1, <3>2
  <2>2. skip \in Nat /\ skip <= ready
    BY <1>3, <1>c
  <2>3. stream'.dropped = IF mk < Pad THEN Pad - mk ELSE 0
    BY <1>2, <1>3, <1>c, <1>5, <1>8, HopIs
  <2>4. Len(isolated) + Len(out') + Pad = mk + stream'.dropped
    <3>1. Len(isolated) + Len(out) + Pad = mh + stream.dropped
      BY <1>8
    <3>2. Len(out') = Len(out) + (ready - skip) /\ stream'.dropped = stream.dropped - skip /\ mk = mh + ready
      BY <1>2, <1>5
    <3>3. PICK a \in Nat, b \in Nat, c \in Nat, d \in Nat :
              a = Len(isolated) /\ b = Len(out) /\ c = skip /\ d = stream.dropped
      BY <1>3, <2>2
    <3>4. a + (b + (ready - c)) + Pad = mk + (d - c)
      <4>1. a + b + Pad = mh + d /\ mk = mh + ready
        BY <3>1, <3>2, <3>3
      <4>. QED  BY <4>1, HopIs
    <3>. QED  BY <3>2, <3>3, <3>4
  <2>5. \A i \in 1..Len(out') : Len(isolated) + i <= length => out'[i] = InOnePass(Len(isolated) + i)
    <3> TAKE i \in 1..Len(out')
    <3> HAVE Len(isolated) + i <= length
    <3>1. CASE i <= Len(out)
      <4>1. i \in 1..Len(out) /\ i \in 1..(Len(out) + (ready - skip))
        BY <1>3, <1>5, <2>2, <3>1
      <4>. QED  BY <1>5, <1>8, <3>1, <4>1
    <3>2. CASE i > Len(out)
      <4>1. i \in 1..(Len(out) + (ready - skip)) /\ i \in Nat /\ i - Len(out) \in 1..(ready - skip)
        BY <1>3, <1>5, <2>2, <3>2
      <4>2. PICK p \in 1..ready : p = skip + (i - Len(out))
        BY <1>3, <2>2, <4>1
      <4>3. out'[i] = Added(k, p)
        BY <1>3, <1>5, <3>2, <4>1, <4>2
      <4>4. skip = stream.dropped
        BY <1>c, <1>3, <4>1
      <4>5. mh + p = Len(isolated) + i + Pad
        <5>1. Len(isolated) + Len(out) + Pad = mh + skip
          BY <1>8, <4>4
        <5>2. PICK a \in Nat, b \in Nat, c \in Nat : a = Len(isolated) /\ b = Len(out) /\ c = skip
          BY <1>3, <2>2
        <5>3. mh + (c + (i - b)) = a + i + Pad
          BY <4>1, <5>1, <5>2, HopIs
        <5>. QED  BY <4>2, <5>2, <5>3
      <4>6. Added(k, p) = MadeOf(m + k, mh + p)
        <5>1. p \in Nat /\ 1 <= p /\ p <= Nfft + ready /\ Pad < mh + p /\ mh + p <= Pad + length
          BY <1>3, <4>1, <4>5, HopIs
        <5>. QED  BY <1>10, <5>1
      <4>7. PICK n \in Nat : n = Len(isolated) + i
        BY <1>3, <4>1
      <4>8. n + Pad <= mk /\ n + Pad = mh + p
        BY <1>2, <4>2, <4>5, <4>7, HopIs
      <4>9. MadeOf(m + k, n + Pad) = InOnePass(n)
        <5>1. m + k \in Nat /\ n + Pad <= (m + k) * Hop
          BY <1>m, <4>8
        <5>. QED  BY <1>3, <1>9, <5>1, MadeInOnePass
      <4>. QED  BY <4>3, <4>6, <4>7, <4>8, <4>9
    <3>3. i \in Int /\ Len(out) \in Int
      BY <1>3
    <3>. QED  BY <3>1, <3>2, <3>3
  <2>. QED  BY <1>m, <1>6, <2>1, <2>3, <2>4, <2>5 DEF Summed, InOnePass
<1>14. m + k \in Nat
  OBVIOUS
<1>. QED  BY <1>12, <1>13, <1>14

(* A call of the extractor.                                                *)
LEMMA ExtractKeeps ==
    ASSUME StreamInv, ExtractFrames
    PROVE  StreamInv'
<1>1. StreamTyped /\ ended = "no" /\ call # "none"
  BY DEF StreamInv, ExtractFrames
<1>2. stream.started = TRUE
  BY <1>1 DEF StreamInv, StreamTyped, Unstarted
<1>3. /\ stream' \in [head : Seq(Nat), started : BOOLEAN, buf : Seq(Nat), ola : [1..Nfft -> Made],
                      dropped : Nat, seen : Nat]
      /\ stream'.started = stream.started /\ out' \in Seq(Made)
  BY <1>1, Extracted
<1>4. UNCHANGED <<length, fixed, pushed, call, isolated, ended>>
  BY DEF ExtractFrames
<1>5. StreamTyped'
  BY <1>1, <1>3, <1>4 DEF StreamTyped
<1>6. length > Pad => \E n \in Nat : Buffered(n)' /\ Summed(n)'
  <2>1. ASSUME length > Pad PROVE \E m \in Nat : Buffered(m) /\ Summed(m)
    BY <1>1, <1>2, <2>1 DEF StreamInv
  <2>. QED  BY <1>1, <2>1, ExtractKeepsCount
<1>7. length <= Pad => call = "Flush"
  BY <1>1, <1>2 DEF StreamInv
<1>8. length > Pad => \A i \in 1..length : i <= Len(isolated) => isolated[i] = InOnePass(i)
  BY DEF StreamInv
<1>9. (length > Pad => \A i \in 1..length : i <= Len(isolated) => isolated[i] = InOnePass(i))'
  BY <1>4, <1>8 DEF InOnePass
<1>. QED  BY <1>1, <1>2, <1>3, <1>4, <1>5, <1>6, <1>7, <1>9 DEF StreamInv

(* What drain left in out is returned after what was returned before.      *)
LEMMA ReturnedInOnePass ==
    ASSUME StreamInv, ended = "no", length > Pad, NEW m \in Nat, Summed(m),
           NEW i \in 1..length, i <= Len(isolated) + Len(out)
    PROVE  (IF i <= Len(isolated) THEN isolated[i] ELSE out[i - Len(isolated)]) = InOnePass(i)
<1>1. Len(isolated) \in Nat /\ Len(out) \in Nat /\ length \in Nat
  BY DEF StreamInv, StreamTyped
<1>2. CASE i <= Len(isolated)
  BY <1>2 DEF StreamInv
<1>3. CASE i > Len(isolated)
  <2>1. PICK n \in 1..Len(out) : n = i - Len(isolated)
    <3>1. i - Len(isolated) \in 1..Len(out)
      <4>1. i \in Nat /\ i <= Len(isolated) + Len(out)
        BY <1>1
      <4>. QED  BY ONLY <1>1, <1>3, <4>1
    <3>. QED  BY <3>1, Zenon
  <2>2. Len(isolated) + n = i
    BY <1>1, <2>1
  <2>. QED  BY <1>1, <1>3, <2>1, <2>2 DEF Summed
<1>. QED  BY <1>1, <1>2, <1>3

(* Push comes back with what is ready.                                     *)
LEMMA PushReturnsKeeps ==
    ASSUME StreamInv, PushReturns
    PROVE  StreamInv'
<1>1. StreamTyped /\ ended = "no" /\ call = "Push" /\ Exhausted /\ length \in Nat
      /\ isolated \in Seq(Made) /\ out \in Seq(Made)
  BY DEF StreamInv, StreamTyped, PushReturns
<1>2. stream.started = TRUE /\ length > Pad
  BY <1>1, HopIs DEF StreamInv, StreamTyped, Unstarted
<1>3. isolated' = isolated \o out /\ out' = <<>> /\ call' = "none" /\ UNCHANGED <<length, fixed, pushed, stream, ended>>
  BY DEF PushReturns
<1>4. /\ isolated' \in Seq(Made) /\ Len(isolated') = Len(isolated) + Len(out)
      /\ \A i \in 1..(Len(isolated) + Len(out)) :
            isolated'[i] = IF i <= Len(isolated) THEN isolated[i] ELSE out[i - Len(isolated)]
  BY <1>1, <1>3, Joined
<1>5. StreamTyped'
  <2>1. out' \in Seq(Made)
    BY <1>3
  <2>. QED  BY <1>1, <1>3, <1>4, <2>1 DEF StreamTyped
<1>6. PICK m \in Nat : Buffered(m) /\ Summed(m)
  BY <1>1, <1>2 DEF StreamInv
<1>7. Len(isolated) \in Nat /\ Len(out) \in Nat /\ Len(out') = 0
  BY <1>1, <1>3
<1>8. \A i \in 1..length : i <= Len(isolated') => isolated'[i] = InOnePass(i)
  <2> TAKE i \in 1..length
  <2> HAVE i <= Len(isolated')
  <2>1. i \in 1..(Len(isolated) + Len(out)) /\ i <= Len(isolated) + Len(out)
    BY <1>1, <1>4, <1>7
  <2>. QED  BY <1>1, <1>2, <1>4, <1>6, <2>1, ReturnedInOnePass
<1>9. Buffered(m)'
  BY <1>1, <1>3, <1>6 DEF Buffered
<1>10. Summed(m)'
  <2>1. /\ Len(isolated') + Len(out') + Pad = m * Hop + stream.dropped
    BY <1>4, <1>6, <1>7 DEF Summed
  <2>. QED  BY <1>3, <1>6, <1>7, <2>1 DEF Summed
<1>11. Exhausted'
  BY <1>1, <1>3 DEF Exhausted, NextCall, PerCall, Waits
<1>12. (\A i \in 1..length : i <= Len(isolated) => isolated[i] = InOnePass(i))'
  BY <1>3, <1>8 DEF InOnePass
<1>. QED  BY <1>1, <1>2, <1>3, <1>5, <1>6, <1>9, <1>10, <1>11, <1>12 DEF StreamInv

(* Flush comes back with the rest: the recording is there to its end.      *)
LEMMA FlushReturnsKeeps ==
    ASSUME StreamInv, FlushReturns
    PROVE  StreamInv'
<1>1. StreamTyped /\ ended = "no" /\ call = "Flush" /\ Exhausted /\ length \in Nat
      /\ isolated \in Seq(Made) /\ out \in Seq(Made) /\ stream.ola \in [1..Nfft -> Made]
      /\ Len(isolated) \in Nat /\ Len(out) \in Nat /\ Len(stream.buf) \in Nat
  BY DEF StreamInv, StreamTyped, FlushReturns
<1>2. stream.started = TRUE
  BY <1>1, HopIs DEF StreamInv, StreamTyped, Unstarted
<1>3. /\ isolated' = isolated \o (out \o stream.ola) /\ out' = <<>> /\ call' = "none" /\ ended' = "flushed"
      /\ stream' = [stream EXCEPT !.buf = <<>>] /\ UNCHANGED <<length, fixed, pushed>>
  BY DEF FlushReturns
<1>4. stream.ola \in Seq(Made) /\ Len(stream.ola) = Nfft
  BY <1>1, HopIs, Listed
<1>5. /\ isolated' \in Seq(Made) /\ Len(isolated') = Len(isolated) + (Len(out) + Nfft)
      /\ \A i \in 1..(Len(isolated) + (Len(out) + Nfft)) :
            isolated'[i] = IF i <= Len(isolated) THEN isolated[i]
                           ELSE IF i - Len(isolated) <= Len(out) THEN out[i - Len(isolated)]
                           ELSE stream.ola[i - Len(isolated) - Len(out)]
  <2>1. PICK t : t = out \o stream.ola
    OBVIOUS
  <2>2. /\ t \in Seq(Made) /\ Len(t) = Len(out) + Nfft
        /\ \A j \in 1..(Len(out) + Nfft) : t[j] = IF j <= Len(out) THEN out[j] ELSE stream.ola[j - Len(out)]
    BY <1>1, <1>4, <2>1, Joined
  <2>3. /\ isolated' \in Seq(Made) /\ Len(isolated') = Len(isolated) + (Len(out) + Nfft)
        /\ \A i \in 1..(Len(isolated) + (Len(out) + Nfft)) :
              isolated'[i] = IF i <= Len(isolated) THEN isolated[i] ELSE t[i - Len(isolated)]
    BY <1>1, <1>3, <2>1, <2>2, Joined
  <2>4. ASSUME NEW i \in 1..(Len(isolated) + (Len(out) + Nfft)), ~(i <= Len(isolated))
        PROVE  i - Len(isolated) \in 1..(Len(out) + Nfft)
    BY <1>1, <2>4, HopIs
  <2>. QED  BY <2>2, <2>3, <2>4
<1>6. StreamTyped'
  <2>1. out' \in Seq(Made) /\ <<>> \in Seq(Nat)
    BY <1>3
  <2>2. stream' \in [head : Seq(Nat), started : BOOLEAN, buf : Seq(Nat), ola : [1..Nfft -> Made],
                     dropped : Nat, seen : Nat]
    BY <1>1, <1>3, <2>1 DEF StreamTyped
  <2>. QED  BY <1>1, <1>3, <1>5, <2>1, <2>2 DEF StreamTyped
<1>7. CASE length <= Pad
  <2>1. Len(isolated') >= length
    BY <1>1, <1>5, <1>7, HopIs
  <2>2. ~(length > Pad)
    BY <1>1, <1>7, HopIs
  <2>. QED  BY <1>3, <1>6, <2>1, <2>2 DEF StreamInv
<1>8. CASE length > Pad
  <2>1. PICK m \in Nat : Buffered(m) /\ Summed(m)
    BY <1>1, <1>2, <1>8 DEF StreamInv
  <2>2. PICK mh \in Nat : mh = m * Hop
    BY HopNext
  <2>3. Len(stream.buf) < Nfft
    <3>1. NextCall = 0 /\ PerCall # 0
      BY <1>1, StreamAssumption DEF Exhausted, Waits, StreamTyped, PerCall
    <3>2. FramesIn(Len(stream.buf)) = 0
      BY <3>1 DEF NextCall
    <3>. QED  BY <1>1, <3>2, FramesFit
  <2>4. Len(stream.buf) + mh = length + Nfft /\ (m >= 1 => Len(stream.buf) + Hop >= Nfft)
    BY <1>1, <2>1, <2>2 DEF Buffered
  <2>5. length < mh /\ (m >= 1 => mh - Hop <= length)
    BY <1>1, <2>3, <2>4, HopIs
  <2>6. m >= 1 => (m - 1) * Hop <= length
    <3>1. (m - 1) * Hop = mh - Hop
      BY <2>2, HopNext
    <3>. QED  BY <2>5, <3>1
  <2>7. Len(isolated) + Len(out) + Pad = mh
    <3>1. stream.dropped = 0
      BY <1>1, <1>8, <2>1, <2>2, <2>5, HopIs DEF Summed
    <3>. QED  BY <2>1, <2>2, <3>1 DEF Summed
  <2>8. Len(isolated') >= length
    <3>1. PICK a \in Nat, b \in Nat : a = Len(isolated) /\ b = Len(out)
      BY <1>1
    <3>2. a + b + Pad = mh
      BY <2>7, <3>1
    <3>3. a + (b + Nfft) >= length
      BY <1>1, <2>5, <3>2, HopIs
    <3>. QED  BY <1>5, <3>1, <3>3
  <2>9. \A i \in 1..length : i <= Len(isolated') => isolated'[i] = InOnePass(i)
    <3> TAKE i \in 1..length
    <3> HAVE i <= Len(isolated')
    <3>1. i \in 1..(Len(isolated) + (Len(out) + Nfft)) /\ i \in Nat
      BY <1>1, <1>5, HopIs
    <3>2. CASE i <= Len(isolated) + Len(out)
      <4>1. i - Len(isolated) <= Len(out)
        BY <1>1, <3>2
      <4>. QED  BY <1>1, <1>5, <1>8, <2>1, <3>1, <3>2, <4>1, ReturnedInOnePass
    <3>3. CASE i > Len(isolated) + Len(out)
      <4>1. PICK a \in Nat, b \in Nat : a = Len(isolated) /\ b = Len(out)
        BY <1>1
      <4>2. a + b + Pad = mh /\ i > a + b /\ i <= a + (b + Nfft) /\ i <= length
        BY <1>1, <2>7, <3>1, <3>3, <4>1
      <4>3. PICK p \in 1..Nfft : p = i - a - b
        BY <3>1, <4>2, HopIs
      <4>4. isolated'[i] = stream.ola[p]
        <5>1. ~(i <= a) /\ ~(i - a <= b)
          BY <4>2, <3>1
        <5>. QED  BY <1>5, <3>1, <4>1, <4>3, <5>1
      <4>5. mh + p = i + Pad
        BY <4>2, <4>3, HopIs
      <4>6. stream.ola[p] = MadeOf(m, mh + p)
        <5>1. PICK t \in Nat : t = length /\ 1 <= i /\ i <= t
          BY <1>1, <4>2
        <5>2. Pad < i + Pad /\ i + Pad <= Pad + t
          BY <5>1, HopIs
        <5>3. Pad < mh + p /\ mh + p <= Pad + length
          BY <4>5, <5>1, <5>2
        <5>. QED  BY <2>1, <2>2, <5>3 DEF Summed
      <4>7. MadeOf(m, i + Pad) = InOnePass(i)
        <5>1. length < m * Hop
          BY <2>2, <2>5
        <5>. QED  BY <1>1, <2>6, <3>1, <5>1, MadeInOnePass
      <4>. QED  BY <4>4, <4>5, <4>6, <4>7
    <3>4. i \in Int /\ Len(isolated) + Len(out) \in Int
      BY <1>1
    <3>. QED  BY <3>2, <3>3, <3>4
  <2>10. (\A i \in 1..length : i <= Len(isolated) => isolated[i] = InOnePass(i))'
    BY <1>3, <2>9 DEF InOnePass
  <2>. QED  BY <1>3, <1>6, <2>8, <2>10 DEF StreamInv
<1>. QED  BY <1>1, <1>7, <1>8, HopIs

(* Push takes more, and mirrors the start once there is enough.            *)
LEMMA PushKeeps ==
    ASSUME StreamInv, Push
    PROVE  StreamInv'
<1>1. /\ StreamTyped /\ ended = "no" /\ call = "none" /\ pushed < length /\ out = <<>>
      /\ length \in Nat /\ pushed \in Nat /\ stream.head \in Seq(Nat) /\ stream.buf \in Seq(Nat)
      /\ stream.started \in BOOLEAN
  BY DEF StreamInv, StreamTyped, Push
<1>2. PICK n \in Pieces : \E k, more, head :
          /\ k = IF n < length - pushed THEN n ELSE length - pushed
          /\ more = [i \in 1..k |-> pushed + i] /\ head = stream.head \o more
          /\ pushed' = pushed + k
          /\ IF stream.started
             THEN call' = "Push" /\ stream' = [stream EXCEPT !.buf = stream.buf \o more]
             ELSE IF Len(head) <= Pad
             THEN call' = "none" /\ stream' = [stream EXCEPT !.head = head]
             ELSE /\ call' = "Push"
                  /\ stream' = [stream EXCEPT !.buf = MirroredStart(head), !.head = <<>>,
                                              !.started = TRUE, !.dropped = Pad]
  BY DEF Push
<1>3. PICK k, more, head :
          /\ k = IF n < length - pushed THEN n ELSE length - pushed
          /\ more = [i \in 1..k |-> pushed + i] /\ head = stream.head \o more
          /\ pushed' = pushed + k
          /\ IF stream.started
             THEN call' = "Push" /\ stream' = [stream EXCEPT !.buf = stream.buf \o more]
             ELSE IF Len(head) <= Pad
             THEN call' = "none" /\ stream' = [stream EXCEPT !.head = head]
             ELSE /\ call' = "Push"
                  /\ stream' = [stream EXCEPT !.buf = MirroredStart(head), !.head = <<>>,
                                              !.started = TRUE, !.dropped = Pad]
  BY <1>2
<1>4. UNCHANGED <<length, fixed, out, isolated, ended>>
  BY DEF Push
<1>5. k \in Nat /\ k >= 1 /\ pushed + k <= length
  <2>1. n \in Nat \ {0}
    BY StreamAssumption
  <2>. QED  BY <1>1, <1>3, <2>1
<1>6. more \in Seq(Nat) /\ Len(more) = k /\ \A i \in 1..k : more[i] = pushed + i
  <2>1. more \in [1..k -> Nat] /\ \A i \in 1..k : more[i] = pushed + i
    BY <1>1, <1>3, <1>5
  <2>. QED  BY <1>5, <2>1, Listed
<1>7. /\ head \in Seq(Nat) /\ Len(head) = Len(stream.head) + k
      /\ \A i \in 1..(Len(stream.head) + k) :
            head[i] = IF i <= Len(stream.head) THEN stream.head[i] ELSE more[i - Len(stream.head)]
  <2>1. stream.head \in Seq(Nat) /\ head = stream.head \o more
    BY <1>1, <1>3
  <2>. QED  BY <1>6, <2>1, Joined
<1>8. (length > Pad => \A i \in 1..length : i <= Len(isolated) => isolated[i] = InOnePass(i))'
  BY <1>4 DEF StreamInv, InOnePass
<1>9. pushed' \in 0..length'
  BY <1>1, <1>3, <1>4, <1>5
<1>10. CASE stream.started
  <2>1. PICK m \in Nat : Buffered(m) /\ Summed(m)
    BY <1>1, <1>10, HopIs DEF StreamInv
  <2>2. length > Pad
    BY <1>1, <1>10, HopIs DEF StreamInv
  <2>3. call' = "Push" /\ stream' = [stream EXCEPT !.buf = stream.buf \o more]
    BY <1>3, <1>10
  <2>4. /\ stream.buf \o more \in Seq(Nat) /\ Len(stream.buf \o more) = Len(stream.buf) + k
        /\ \A i \in 1..(Len(stream.buf) + k) :
              (stream.buf \o more)[i] = IF i <= Len(stream.buf) THEN stream.buf[i] ELSE more[i - Len(stream.buf)]
    BY <1>1, <1>6, Joined
  <2>5. /\ stream'.buf = stream.buf \o more /\ stream'.ola = stream.ola /\ stream'.dropped = stream.dropped
        /\ stream'.seen = stream.seen /\ stream'.started = stream.started
        /\ stream' \in [head : Seq(Nat), started : BOOLEAN, buf : Seq(Nat), ola : [1..Nfft -> Made],
                        dropped : Nat, seen : Nat]
    <3> PICK b \in Seq(Nat) : b = stream.buf \o more
      BY <2>4
    <3>. QED  BY <1>1, <2>3 DEF StreamTyped
  <2>6. StreamTyped'
    BY <1>1, <1>4, <1>9, <2>3, <2>5 DEF StreamTyped
  <2>7. Buffered(m)'
    <3>1. PICK mh \in Nat, b \in Nat : mh = m * Hop /\ b = Len(stream.buf)
      <4>1. m * Hop \in Nat
        BY HopNext
      <4>. QED  BY <1>1, <4>1
    <3>2. b + mh = Pad + pushed /\ stream.seen = m /\ (m >= 1 => b + Hop >= Nfft)
      BY <1>1, <2>1, <3>1 DEF Buffered
    <3>3. (b + k) + mh = Pad + (pushed + k) /\ (m >= 1 => (b + k) + Hop >= Nfft)
      BY <1>1, <1>5, <3>2, HopIs
    <3>4. \A p \in 1..(b + k) :
             Pad < mh + p /\ mh + p <= Pad + length => (stream.buf \o more)[p] = mh + p - Pad
      <4> TAKE p \in 1..(b + k)
      <4> HAVE Pad < mh + p /\ mh + p <= Pad + length
      <4>1. CASE p <= b
        <5>1. p \in 1..b /\ p \in 1..(b + k)
          BY <4>1
        <5>2. stream.buf[p] = mh + p - Pad
          BY <2>1, <3>1, <5>1 DEF Buffered
        <5>. QED  BY <2>4, <3>1, <4>1, <5>1, <5>2
      <4>2. CASE p > b
        <5>1. p - b \in 1..k /\ ~(p <= b)
          BY <1>5, <4>2
        <5>2. (stream.buf \o more)[p] = pushed + (p - b)
          BY <1>6, <2>4, <3>1, <5>1
        <5>3. pushed + (p - b) = mh + p - Pad
          BY <1>1, <3>2, HopIs
        <5>. QED  BY <5>2, <5>3
      <4>3. p <= b \/ p > b
        OBVIOUS
      <4>. QED  BY <4>1, <4>2, <4>3, Zenon
    <3>5. Len(stream'.buf) = b + k
      BY <2>4, <2>5, <3>1
    <3>6. pushed' = pushed + k /\ call' # "Flush"
      BY <1>3, <2>3
    <3>. QED  BY <1>4, <2>5, <3>1, <3>2, <3>3, <3>4, <3>5, <3>6 DEF Buffered
  <2>8. Summed(m)'
    BY <1>4, <2>1, <2>5 DEF Summed, InOnePass
  <2>. QED  BY <1>1, <1>4, <1>8, <1>10, <2>2, <2>3, <2>5, <2>6, <2>7, <2>8 DEF StreamInv
<1>11. ASSUME ~stream.started
       PROVE  /\ pushed <= Pad /\ isolated = <<>> /\ stream.buf = <<>> /\ stream.ola = Unadded(Nfft) /\ stream.seen = 0
              /\ stream.dropped = 0 /\ stream.head = [i \in 1..pushed |-> i] /\ stream.started = FALSE
              /\ stream = [head |-> [i \in 1..pushed |-> i], started |-> FALSE, buf |-> <<>>,
                           ola |-> Unadded(Nfft), dropped |-> 0, seen |-> 0]
              /\ Len(head) = pushed + k /\ \A i \in 1..(pushed + k) : head[i] = i
              /\ head = [i \in 1..(pushed + k) |-> i]
  <2>1. /\ pushed <= Pad /\ isolated = <<>>
        /\ stream = [head |-> [i \in 1..pushed |-> i], started |-> FALSE, buf |-> <<>>,
                     ola |-> Unadded(Nfft), dropped |-> 0, seen |-> 0]
    BY <1>1, <1>11 DEF StreamInv, Unstarted
  <2>2. stream.buf = <<>> /\ stream.ola = Unadded(Nfft) /\ stream.seen = 0
              /\ stream.dropped = 0 /\ stream.head = [i \in 1..pushed |-> i] /\ stream.started = FALSE
    BY <2>1
  <2>3. Len(stream.head) = pushed /\ \A i \in 1..pushed : stream.head[i] = i
    <3>1. stream.head \in [1..pushed -> Nat] /\ \A i \in 1..pushed : stream.head[i] = i
      BY <1>1, <2>2
    <3>. QED  BY <1>1, <3>1, Listed
  <2>4. Len(head) = pushed + k /\ \A i \in 1..(pushed + k) : head[i] = i
    <3>1. Len(head) = pushed + k
      BY <1>7, <2>3
    <3>2. ASSUME NEW i \in 1..(pushed + k) PROVE head[i] = i
      <4>1. CASE i <= pushed
        <5>1. i \in 1..pushed
          BY <1>1, <4>1
        <5>. QED  BY <1>7, <2>3, <4>1, <5>1
      <4>2. CASE ~(i <= pushed)
        <5>1. i - pushed \in 1..k /\ pushed + (i - pushed) = i
          BY <1>1, <1>5, <4>2
        <5>. QED  BY <1>6, <1>7, <2>3, <4>2, <5>1
      <4>. QED  BY <4>1, <4>2
    <3>. QED  BY <3>1, <3>2
  <2>5. head = [i \in 1..(pushed + k) |-> i]
    <3>1. head \in [1..(pushed + k) -> Nat]
      BY <1>7, <2>4
    <3>. QED  BY <2>4, <3>1
  <2>. QED  BY <2>1, <2>2, <2>4, <2>5
<1>12. CASE ~stream.started /\ Len(head) <= Pad
  <2>1. call' = "none" /\ stream' = [stream EXCEPT !.head = head]
    BY <1>3, <1>12
  <2>2. stream' = [head |-> [i \in 1..pushed' |-> i], started |-> FALSE, buf |-> <<>>,
                   ola |-> Unadded(Nfft), dropped |-> 0, seen |-> 0]
    BY <1>3, <1>11, <1>12, <2>1
  <2>3. pushed' <= Pad
    BY <1>3, <1>11, <1>12
  <2>4. Unstarted'
    BY <1>1, <1>4, <1>11, <1>12, <2>1, <2>2, <2>3 DEF Unstarted
  <2>5. StreamTyped'
    <3>1. stream' \in [head : Seq(Nat), started : BOOLEAN, buf : Seq(Nat), ola : [1..Nfft -> Made],
                       dropped : Nat, seen : Nat]
      BY <1>1, <1>7, <2>1 DEF StreamTyped
    <3>. QED  BY <1>1, <1>4, <1>9, <2>1, <3>1 DEF StreamTyped
  <2>6. stream'.started = FALSE
    BY <2>2
  <2>. QED  BY <1>1, <1>4, <1>8, <2>1, <2>4, <2>5, <2>6 DEF StreamInv
<1>13. CASE ~stream.started /\ ~(Len(head) <= Pad)
  <2>1. /\ call' = "Push"
        /\ stream' = [stream EXCEPT !.buf = MirroredStart(head), !.head = <<>>, !.started = TRUE, !.dropped = Pad]
    BY <1>3, <1>13
  <2>10. Len(head) = pushed + k /\ \A i \in 1..(pushed + k) : head[i] = i
    BY <1>11, <1>13
  <2>2. pushed + k > Pad /\ length > Pad
    <3>1. ~(pushed + k <= Pad)
      BY <1>13, <2>10
    <3>. QED  BY <1>1, <1>5, <3>1, HopIs
  <2>3. /\ MirroredStart(head) \in Seq(Nat) /\ Len(MirroredStart(head)) = Pad + (pushed + k)
        /\ \A p \in (Pad + 1)..(Pad + (pushed + k)) : MirroredStart(head)[p] = p - Pad
    <3> DEFINE mirror == [i \in 1..Pad |-> head[Pad + 2 - i]]
    <3>1. mirror \in [1..Pad -> Nat]
      <4>1. ASSUME NEW i \in 1..Pad PROVE Pad + 2 - i \in 1..(pushed + k)
        BY <1>1, <1>5, <2>2, <4>1, HopIs
      <4>2. ASSUME NEW j \in 1..(pushed + k) PROVE head[j] \in Nat
        BY <1>1, <1>5, <2>10, <4>2
      <4>. QED  BY <4>1, <4>2
    <3>2. mirror \in Seq(Nat) /\ Len(mirror) = Pad
      BY <3>1, HopIs, Listed
    <3> HIDE DEF mirror
    <3>3. /\ mirror \o head \in Seq(Nat) /\ Len(mirror \o head) = Pad + (pushed + k)
          /\ \A p \in 1..(Pad + (pushed + k)) : (mirror \o head)[p] = IF p <= Pad THEN mirror[p] ELSE head[p - Pad]
      <4>1. head \in Seq(Nat) /\ Len(head) = pushed + k
        BY <1>7, <2>10
      <4>2. /\ mirror \o head \in Seq(Nat) /\ Len(mirror \o head) = Len(mirror) + Len(head)
            /\ \A p \in 1..(Len(mirror) + Len(head)) :
                  (mirror \o head)[p] = IF p <= Len(mirror) THEN mirror[p] ELSE head[p - Len(mirror)]
        BY <3>2, <4>1, Joined
      <4>. QED  BY <3>2, <4>1, <4>2
    <3>4. \A p \in (Pad + 1)..(Pad + (pushed + k)) : (mirror \o head)[p] = p - Pad
      <4> TAKE p \in (Pad + 1)..(Pad + (pushed + k))
      <4>1. p \in 1..(Pad + (pushed + k)) /\ ~(p <= Pad) /\ p - Pad \in 1..(pushed + k)
        BY <1>1, <1>5, HopIs
      <4>. QED  BY <2>10, <3>3, <4>1
    <3>. QED  BY <3>3, <3>4 DEF MirroredStart, mirror
  <2>4. PICK b \in Seq(Nat) : b = MirroredStart(head)
    BY <2>3
  <2>5. /\ stream' \in [head : Seq(Nat), started : BOOLEAN, buf : Seq(Nat), ola : [1..Nfft -> Made],
                        dropped : Nat, seen : Nat]
        /\ stream'.buf = b /\ stream'.started = TRUE /\ stream'.dropped = Pad /\ stream'.ola = stream.ola
        /\ stream'.seen = stream.seen
    <3>1. stream' = [stream EXCEPT !.buf = b, !.head = <<>>, !.started = TRUE, !.dropped = Pad]
      BY <2>1, <2>4
    <3>2. Pad \in Nat /\ <<>> \in Seq(Nat)
      BY HopIs
    <3>. QED  BY <1>1, <3>1, <3>2 DEF StreamTyped
  <2>6. StreamTyped'
    BY <1>1, <1>4, <1>9, <2>1, <2>5 DEF StreamTyped
  <2>7. 0 * Hop = 0
    BY HopIs
  <2>8. Buffered(0)'
    <3>1. Len(stream'.buf) + 0 = Pad + pushed' /\ stream'.seen = 0
      <4>1. pushed' = pushed + k /\ stream.seen = 0
        BY <1>3, <1>11, <1>13
      <4>2. Len(b) = Pad + (pushed + k)
        BY <2>3, <2>4
      <4>. QED  BY <1>1, <1>5, <2>5, <4>1, <4>2, HopIs
    <3>2. \A p \in 1..Len(stream'.buf) :
             Pad < 0 + p /\ 0 + p <= Pad + length => stream'.buf[p] = 0 + p - Pad
      <4> TAKE p \in 1..Len(stream'.buf)
      <4> HAVE Pad < 0 + p /\ 0 + p <= Pad + length
      <4>1. p \in (Pad + 1)..(Pad + (pushed + k)) /\ 0 + p - Pad = p - Pad
        BY <1>1, <1>5, <2>3, <2>4, <2>5, HopIs
      <4>. QED  BY <2>3, <2>4, <2>5, <4>1
    <3>. QED  BY <1>4, <2>1, <2>7, <3>1, <3>2 DEF Buffered
  <2>9. Summed(0)'
    <3>1. \A a : MadeOf(0, a) = {}
      <4>1. 0..(0 - 1) = {}
        OBVIOUS
      <4>. QED  BY <4>1 DEF MadeOf
    <3>2. \A p \in 1..Nfft : stream'.ola[p] = {}
      BY <1>11, <1>13, <2>5 DEF Unadded
    <3>3. Len(isolated') = 0 /\ Len(out') = 0
      BY <1>1, <1>4, <1>11, <1>13
    <3>4. stream'.dropped = IF 0 * Hop < Pad THEN Pad - 0 * Hop ELSE 0
      BY <2>5, <2>7, HopIs
    <3>5. Len(isolated') + Len(out') + Pad = 0 * Hop + stream'.dropped
      BY <2>5, <2>7, <3>3, HopIs
    <3>6. \A i \in 1..Len(out') : FALSE
      BY <3>3
    <3>7. \A p \in 1..Nfft : stream'.ola[p] = MadeOf(0, 0 * Hop + p)
      BY <3>1, <3>2
    <3>. QED  BY <3>4, <3>5, <3>6, <3>7 DEF Summed
  <2>11. ~(length <= Pad) /\ 0 \in Nat
    BY <1>1, <2>2, HopIs
  <2>12. call' = "Push" /\ stream'.started = TRUE
    BY <2>1, <2>5
  <2>. QED  BY <1>1, <1>4, <1>8, <2>6, <2>8, <2>9, <2>11, <2>12 DEF StreamInv
<1>. QED  BY <1>10, <1>12, <1>13

(* What the mirrored end and the zeros leave of the buffer.                *)
LEMMA MirroredEndIs ==
    ASSUME NEW b \in Seq(Nat)
    PROVE  LET e == MirroredEnd(b) IN
           /\ e \in Seq(Nat) /\ \A p \in 1..Len(b) : e[p] = b[p]
           /\ Len(e) = Len(b) + (IF Pad < Less(Len(b), 1) THEN Pad ELSE Less(Len(b), 1))
<1> PICK c : c = IF Pad < Less(Len(b), 1) THEN Pad ELSE Less(Len(b), 1)
  OBVIOUS
<1>1. Len(b) \in Nat /\ c \in Nat /\ (c = 0 \/ c < Len(b))
  BY HopIs DEF Less
<1> DEFINE mirror == [i \in 1..c |-> b[Len(b) - i]]
<1>2. mirror \in [1..c -> Nat]
  <2>1. ASSUME NEW i \in 1..c PROVE b[Len(b) - i] \in Nat
    <3>1. Len(b) - i \in 1..Len(b)
      BY <1>1, <2>1
    <3>. QED  BY <3>1
  <2>. QED  BY <2>1
<1>3. mirror \in Seq(Nat) /\ Len(mirror) = c
  BY <1>1, <1>2, Listed
<1>4. MirroredEnd(b) = b \o mirror
  BY DEF MirroredEnd
<1> HIDE DEF mirror
<1>5. /\ b \o mirror \in Seq(Nat) /\ Len(b \o mirror) = Len(b) + c
      /\ \A p \in 1..(Len(b) + c) : (b \o mirror)[p] = IF p <= Len(b) THEN b[p] ELSE mirror[p - Len(b)]
  BY <1>3, Joined
<1>6. ASSUME NEW p \in 1..Len(b) PROVE (b \o mirror)[p] = b[p]
  BY <1>1, <1>5, <1>6
<1>. QED  BY <1>4, <1>5, <1>6

(* The zeros up to a whole frame.                                          *)
LEMMA PaddedIs ==
    ASSUME NEW b \in Seq(Nat)
    PROVE  LET e == b \o Zeros(Less(Nfft, Len(b))) IN
           /\ e \in Seq(Nat) /\ \A p \in 1..Len(b) : e[p] = b[p]
           /\ Len(e) = Len(b) + Less(Nfft, Len(b))
<1> PICK c : c = Less(Nfft, Len(b))
  OBVIOUS
<1>1. Len(b) \in Nat /\ c \in Nat
  BY HopIs DEF Less
<1>2. Zeros(c) \in Seq(Nat) /\ Len(Zeros(c)) = c
  <2>1. Zeros(c) \in [1..c -> Nat]
    BY DEF Zeros
  <2>. QED  BY <1>1, <2>1, Listed
<1>3. /\ b \o Zeros(c) \in Seq(Nat) /\ Len(b \o Zeros(c)) = Len(b) + c
      /\ \A p \in 1..(Len(b) + c) : (b \o Zeros(c))[p] = IF p <= Len(b) THEN b[p] ELSE Zeros(c)[p - Len(b)]
  BY <1>2, Joined
<1>4. ASSUME NEW p \in 1..Len(b) PROVE (b \o Zeros(c))[p] = b[p]
  BY <1>1, <1>3, <1>4
<1>. QED  BY <1>3, <1>4

(* Flush pads the end.                                                     *)
LEMMA FlushKeeps ==
    ASSUME StreamInv, Flush
    PROVE  StreamInv'
<1>1. /\ StreamTyped /\ ended = "no" /\ call = "none" /\ pushed = length /\ out = <<>>
      /\ length \in Nat /\ pushed \in Nat /\ stream.head \in Seq(Nat) /\ stream.buf \in Seq(Nat)
      /\ stream.started \in BOOLEAN /\ Len(isolated) \in Nat
  BY DEF StreamInv, StreamTyped, Flush
<1>2. UNCHANGED <<length, fixed, pushed, out, isolated>>
  BY DEF Flush
<1>3. (length > Pad => \A i \in 1..length : i <= Len(isolated) => isolated[i] = InOnePass(i))'
  BY <1>2 DEF StreamInv, InOnePass
<1>4. CASE ~stream.started /\ stream.head = <<>>
  <2>1. ended' = "flushed" /\ UNCHANGED <<call, stream>>
    BY <1>4 DEF Flush
  <2>2. length = 0
    <3>1. stream.head = [i \in 1..pushed |-> i]
      BY <1>1, <1>4 DEF StreamInv, Unstarted
    <3>2. stream.head \in [1..pushed -> Nat]
      BY <3>1
    <3>3. Len(stream.head) = pushed
      BY <1>1, <3>2, Listed
    <3>. QED  BY <1>1, <1>4, <3>3
  <2>3. StreamTyped'
    BY <1>1, <1>2, <2>1 DEF StreamTyped
  <2>. QED  BY <1>1, <1>2, <1>3, <2>1, <2>2, <2>3 DEF StreamInv
<1>5. CASE stream.started \/ stream.head # <<>>
  <2> PICK have : have = IF stream.started THEN stream.buf ELSE stream.head
    OBVIOUS
  <2> PICK ends : ends = MirroredEnd(have)
    OBVIOUS
  <2> PICK buf : buf = ends \o Zeros(Less(Nfft, Len(ends)))
    OBVIOUS
  <2>1. /\ stream' = [stream EXCEPT !.buf = buf, !.head = <<>>, !.started = TRUE]
        /\ call' = "Flush" /\ ended' = ended
    BY <1>5 DEF Flush
  <2>2. /\ have \in Seq(Nat) /\ ends \in Seq(Nat) /\ buf \in Seq(Nat)
        /\ Len(have) \in Nat /\ Len(ends) \in Nat
        /\ Len(ends) = Len(have) + (IF Pad < Less(Len(have), 1) THEN Pad ELSE Less(Len(have), 1))
        /\ Len(buf) = Len(ends) + Less(Nfft, Len(ends))
        /\ \A p \in 1..Len(have) : ends[p] = have[p]
        /\ \A p \in 1..Len(ends) : buf[p] = ends[p]
    <3>1. have \in Seq(Nat)
      BY <1>1
    <3>2. /\ ends \in Seq(Nat) /\ \A p \in 1..Len(have) : ends[p] = have[p]
          /\ Len(ends) = Len(have) + (IF Pad < Less(Len(have), 1) THEN Pad ELSE Less(Len(have), 1))
      BY <3>1, MirroredEndIs
    <3>3. /\ buf \in Seq(Nat) /\ \A p \in 1..Len(ends) : buf[p] = ends[p]
          /\ Len(buf) = Len(ends) + Less(Nfft, Len(ends))
      BY <3>2, PaddedIs
    <3>. QED  BY <3>1, <3>2, <3>3
  <2>3. /\ stream' \in [head : Seq(Nat), started : BOOLEAN, buf : Seq(Nat), ola : [1..Nfft -> Made],
                        dropped : Nat, seen : Nat]
        /\ stream'.buf = buf /\ stream'.started = TRUE /\ stream'.dropped = stream.dropped
        /\ stream'.ola = stream.ola /\ stream'.seen = stream.seen
    <3>1. <<>> \in Seq(Nat)
      OBVIOUS
    <3>. QED  BY <1>1, <2>1, <2>2, <3>1 DEF StreamTyped
  <2>4. StreamTyped'
    BY <1>1, <1>2, <2>1, <2>3 DEF StreamTyped
  <2>5. ASSUME length > Pad PROVE \E m \in Nat : Buffered(m)' /\ Summed(m)'
    <3>1. stream.started = TRUE
      BY <1>1, <2>5, HopIs DEF StreamInv, Unstarted
    <3>2. PICK m \in Nat : Buffered(m) /\ Summed(m)
      BY <1>1, <2>5, <3>1 DEF StreamInv
    <3>3. PICK mh \in Nat, n \in Nat : mh = m * Hop /\ n = Len(stream.buf)
      <4>1. m \in Int /\ m >= 0
        OBVIOUS
      <4>2. m * Hop \in Int /\ m * Hop >= 0
        BY <4>1, HopNext
      <4>. QED  BY <1>1, <4>2
    <3>4. n + mh = Pad + length /\ stream.seen = m /\ (m >= 1 => n + Hop >= Nfft) /\ have = stream.buf
      BY <1>1, <3>1, <3>2, <3>3 DEF Buffered
    <3>5. n > Pad
      <4>1. m = 0 => mh = 0
        BY <3>3, HopIs
      <4>. QED  BY <1>1, <2>5, <3>4, <4>1, HopIs
    <3>6. Len(ends) = n + Pad
      <4>1. (IF Pad < Less(n, 1) THEN Pad ELSE Less(n, 1)) = Pad
        BY <3>5, HopIs DEF Less
      <4>2. Len(have) = n
        BY <3>3, <3>4
      <4>. QED  BY <2>2, <4>1, <4>2
    <3>7. Len(buf) = n + Pad
      <4>1. ~(Nfft < n + Pad) => Nfft - (n + Pad) = 0
        <5>1. m = 0 => mh = 0
          BY <3>3, HopIs
        <5>. QED  BY <1>1, <2>5, <3>4, <5>1, HopIs
      <4>2. Less(Nfft, n + Pad) = 0
        BY <4>1, <3>5, HopIs DEF Less
      <4>3. Len(buf) = (n + Pad) + 0
        BY <2>2, <3>6, <4>2
      <4>. QED  BY <4>3, HopIs
    <3>8. Buffered(m)'
      <4>1. Len(stream'.buf) + mh = length + Nfft /\ (m >= 1 => Len(stream'.buf) + Hop >= Nfft)
        <5>1. Len(stream'.buf) = n + Pad
          BY <2>3, <3>7
        <5>2. (n + Pad) + mh = length + Nfft /\ (m >= 1 => (n + Pad) + Hop >= Nfft)
          BY <1>1, <3>4, HopIs
        <5>. QED  BY <5>1, <5>2
      <4>2. \A p \in 1..Len(stream'.buf) :
               Pad < mh + p /\ mh + p <= Pad + length => stream'.buf[p] = mh + p - Pad
        <5> TAKE p \in 1..Len(stream'.buf)
        <5> HAVE Pad < mh + p /\ mh + p <= Pad + length
        <5>1. p \in Nat /\ p >= 1
          OBVIOUS
        <5>2. p \in 1..n /\ p \in 1..Len(ends)
          BY <1>1, <3>4, <3>6, <5>1, HopIs
        <5>3. stream'.buf[p] = stream.buf[p]
          BY <2>2, <2>3, <3>3, <3>4, <5>2, ZenonT(60)
        <5>4. stream.buf[p] = mh + p - Pad
          BY <3>2, <3>3, <5>2 DEF Buffered
        <5>. QED  BY <5>3, <5>4
      <4>3. call' = "Flush" /\ pushed' = length' /\ length' = length /\ stream'.seen = m
        BY <1>1, <1>2, <2>1, <2>3, <3>4
      <4>. QED  BY <3>3, <4>1, <4>2, <4>3 DEF Buffered
    <3>9. Summed(m)'
      BY <1>2, <2>3, <3>2 DEF Summed, InOnePass
    <3>. QED  BY <3>8, <3>9
  <2>. QED  BY <1>1, <1>2, <1>3, <2>1, <2>3, <2>4, <2>5 DEF StreamInv
<1>. QED  BY <1>1, <1>4, <1>5

(* voxlock.go 150-258: however the recording is cut into pieces, whichever *)
(* graph extracts it, and wherever it is given up, the stream holds what   *)
(* some number of frames made of the padded recording.                     *)
THEOREM StreamInvariant == VsSpec => []StreamInv
<1>1. VsInit => StreamInv
  <2> SUFFICES ASSUME VsInit PROVE StreamInv
    OBVIOUS
  <2>1. /\ length \in Nat /\ fixed \in Nat /\ pushed = 0 /\ call = "none" /\ out = <<>>
        /\ isolated = <<>> /\ ended = "no"
        /\ stream = [head |-> <<>>, started |-> FALSE, buf |-> <<>>, ola |-> Unadded(Nfft), dropped |-> 0, seen |-> 0]
    BY StreamAssumption DEF VsInit
  <2>2. Unadded(Nfft) \in [1..Nfft -> Made] /\ <<>> \in Seq(Nat) /\ <<>> \in Seq(Made)
    BY DEF Unadded, Made
  <2>3. StreamTyped
    BY <2>1, <2>2 DEF StreamTyped
  <2>4. [i \in 1..0 |-> i] = <<>>
    OBVIOUS
  <2>5. Unstarted
    BY <2>1, <2>4, HopIs DEF Unstarted
  <2>6. Len(isolated) = 0 /\ stream.started = FALSE
    BY <2>1
  <2>. QED  BY <2>1, <2>3, <2>5, <2>6 DEF StreamInv
<1>2. ASSUME StreamInv, Abandon PROVE StreamInv'
  BY <1>2 DEF StreamInv, Abandon, StreamTyped, InOnePass
<1>3. ASSUME StreamInv, UNCHANGED vsvars PROVE StreamInv'
  <2>1. /\ length' = length /\ fixed' = fixed /\ pushed' = pushed /\ call' = call
        /\ stream' = stream /\ out' = out /\ isolated' = isolated /\ ended' = ended
    BY <1>3 DEF vsvars
  <2>2. StreamTyped' /\ (Unstarted' <=> Unstarted)
    BY <1>3, <2>1 DEF StreamInv, StreamTyped, Unstarted
  <2>3. Exhausted' <=> Exhausted
    BY <2>1 DEF Exhausted, NextCall, PerCall, Waits
  <2>4. \A m \in Nat : (Buffered(m)' <=> Buffered(m)) /\ (Summed(m)' <=> Summed(m))
    BY <2>1 DEF Buffered, Summed, InOnePass
  <2>. QED  BY <1>3, <2>1, <2>2, <2>3, <2>4 DEF StreamInv, InOnePass
<1>4. StreamInv /\ [VsNext]_vsvars => StreamInv'
  BY <1>2, <1>3, PushKeeps, ExtractKeeps, PushReturnsKeeps, FlushKeeps, FlushReturnsKeeps DEF VsNext
<1>. QED  BY <1>1, <1>4, PTL DEF VsSpec

(* voxlock.go 261-262: what comes back is as long as what went in and is   *)
(* what the whole recording gives in one pass, for every length, every     *)
(* size of a piece, every hop and window, and every number of frames in a  *)
(* call of either graph.                                                   *)
THEOREM VoiceStreamIsOnePass == VsSpec => []StreamIsOnePass
<1>1. ASSUME StreamInv, ended = "no", call = "none", pushed > Pad
      PROVE  pushed < Len(isolated) + Nfft + (IF fixed > 0 THEN fixed - 1 ELSE 0) * Hop
  <2>1. /\ length \in Nat /\ pushed \in Nat /\ pushed <= length /\ fixed \in Nat /\ out = <<>>
        /\ Len(isolated) \in Nat /\ Len(stream.buf) \in Nat /\ stream.started \in BOOLEAN
    BY <1>1 DEF StreamInv, StreamTyped
  <2>2. stream.started /\ Exhausted /\ length > Pad
    BY <1>1, <2>1, HopIs DEF StreamInv, Unstarted
  <2>3. PICK m \in Nat : Buffered(m) /\ Summed(m)
    BY <1>1, <2>2 DEF StreamInv
  <2>4. PICK mh \in Nat, n \in Nat, a \in Nat : mh = m * Hop /\ n = Len(stream.buf) /\ a = Len(isolated)
    <3>1. m * Hop \in Nat
      BY HopNext
    <3>. QED  BY <2>1, <3>1
  <2>5. n + mh = Pad + pushed /\ a + Pad >= mh
    <3>1. n + mh = Pad + pushed
      BY <1>1, <2>3, <2>4 DEF Buffered
    <3>2. Len(out) = 0
      BY <2>1
    <3>3. a + 0 + Pad = mh + (IF mh < Pad THEN Pad - mh ELSE 0)
      BY <2>3, <2>4, <3>2 DEF Summed
    <3>. QED  BY <3>1, <3>3, HopIs
  <2>6. PICK g \in Nat : g = (IF fixed > 0 THEN fixed - 1 ELSE 0) * Hop
    <3>1. (IF fixed > 0 THEN fixed - 1 ELSE 0) \in Nat
      BY <2>1
    <3>. QED  BY <3>1, HopNext
  <2>7. n < Nfft + g
    <3>1. PICK f \in Nat : f = FramesIn(n) /\ n < Nfft + f * Hop /\ (f = 0 => n < Nfft)
      BY FramesFit
    <3>2. CASE f = 0
      BY <2>6, <3>1, <3>2, HopIs
    <3>3. CASE f # 0
      <4>1. fixed > 0 /\ f < fixed
        <5>1. PerCall # 0 /\ PerCall \in Nat
          BY <2>1, StreamAssumption DEF PerCall
        <5>2. NextCall # 0
          BY <2>4, <3>1, <3>3, <5>1 DEF NextCall
        <5>3. Waits(NextCall)
          BY <2>2, <5>2 DEF Exhausted
        <5>4. fixed > 0 /\ NextCall < fixed
          BY <5>3 DEF Waits, PerCall
        <5>. QED  BY <2>1, <2>4, <3>1, <5>4 DEF NextCall, PerCall
      <4>2. f * Hop \in Int /\ (fixed - 1) * Hop \in Int /\ f * Hop <= (fixed - 1) * Hop
        <5>1. f \in Int /\ fixed - 1 \in Int /\ f <= fixed - 1
          BY <2>1, <4>1
        <5>. QED  BY <5>1, HopOrder
      <4>3. PICK x \in Int : x = f * Hop
        BY <4>2
      <4>4. n < Nfft + x /\ x <= g
        BY <2>6, <3>1, <4>1, <4>2, <4>3
      <4>. QED  BY <4>4, HopIs
    <3>. QED  BY <3>2, <3>3
  <2>8. pushed < a + Nfft + g
    BY <2>1, <2>5, <2>7, HopIs
  <2>. QED  BY <2>4, <2>6, <2>8
<1>2. StreamInv => StreamIsOnePass
  BY <1>1 DEF StreamInv, StreamIsOnePass
<1>. QED  BY <1>2, StreamInvariant, PTL

-----------------------------------------------------------------------------
(* The parts side by side.                                                 *)

(* store.go, pipeline.go, dictionary.go: the three parts of RecordsStay,   *)
(* each proved of its own component, hold of the parts side by side.       *)
THEOREM StoreKeepsItsRecords == PartsSpec => RecordsStay
<1>1. PartsInit => HistInit /\ SpInit /\ DictInit
  BY DEF PartsInit
<1> DEFINE all == <<part, itnvars, trvars, punctvars, ehvars,
                    whvars, rlvars, mgvars, fcvars,
                    cpvars, lcvars, wirevars, kavars,
                    dlvars, histvars, spvars, dictvars,
                    optvars, plvars, svcvars, vsvars,
                    smvars, vgvars, tkvars, sfvars,
                    keyvars>>
<1>2. [PartsNext]_all => [HistNext]_histvars /\ [SpNext]_spvars /\ [DictNext]_dictvars
  BY DEF PartsNext
<1>3. PartsSpec => HistSpec /\ SpSpec /\ DictSpec
  BY <1>1, <1>2, PTL DEF PartsSpec, HistSpec, SpSpec, DictSpec
<1>. QED  BY <1>3, HistoryWalkIsWhole, SpeakerNamesAreKept, DictionariesHaveOneCreator,
             DictionariesKeepTheirPhrases, PTL DEF RecordsStay

(* itn/ru.go 182-246, 329-345, punct.go 57-72, 88-153: the three parts of  *)
(* TextIsKept, proved of numbers and of marks, hold side by side.          *)
THEOREM TextStaysTheText == PartsSpec => []TextIsKept
<1>1. PartsInit => ItnInit /\ PunctInit
  BY DEF PartsInit
<1> DEFINE all == <<part, itnvars, trvars, punctvars, ehvars,
                    whvars, rlvars, mgvars, fcvars,
                    cpvars, lcvars, wirevars, kavars,
                    dlvars, histvars, spvars, dictvars,
                    optvars, plvars, svcvars, vsvars,
                    smvars, vgvars, tkvars, sfvars,
                    keyvars>>
<1>2. [PartsNext]_all => [ItnNext]_itnvars /\ [PunctNext]_punctvars
  BY DEF PartsNext
<1>3. PartsSpec => ItnSpec /\ PunctSpec
  BY <1>1, <1>2, PTL DEF PartsSpec, ItnSpec, PunctSpec
<1>. QED  BY <1>3, NumbersAreKept, LettersAreKept, PTL DEF TextIsKept
=============================================================================
