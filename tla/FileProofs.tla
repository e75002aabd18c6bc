----------------------------- MODULE FileProofs ------------------------------
(***************************************************************************)
(* Theorems about what comes in and what is kept, each on its own.         *)
(*                                                                         *)
(* The decoding of audio, for samples, pipes, files and limits of any      *)
(* size, whatever ffmpeg and its children do; the downloads of models,     *)
(* however many ask, cancel, remove and fail; the file of a model,         *)
(* whatever its sources send; its manifest, whoever completes it; the      *)
(* settings of an application, whatever it chooses and wherever it stops;  *)
(* and the file of the keys, whatever commands are interrupted.            *)
(***************************************************************************)
EXTENDS AudioDecode, Completion, KeyFile, FiniteSetTheorems, WellFoundedInduction, TLAPS

-----------------------------------------------------------------------------
(* The inductive invariant.                                                *)

Ends == {"run", "ok", "bad", "killed"}
Reading == {"head", "check", "read"}
Stages == Reading \cup {"drain", "wait", "feed", "done"}
Errors == {"none", "context", "exceeded", "invalid", "internal"}

AdTypeOK ==
    /\ request \in Decodings
    /\ feed \in [at : {"reads", "done"}, left : Nat, short : BOOLEAN]
    /\ stdin \in [held : Nat, closed : BOOLEAN]
    /\ worker \in [at : Ends, took : Nat, wrote : Nat]
    /\ proc \in Ends /\ stdout \in Seq(Nat) /\ ended \in {"no", "deadline", "canceled"}
    /\ watch \in {"waits", "killed", "over"} /\ open \in BOOLEAN
    /\ dec \in [at : Stages, buf : Seq(Nat), out : Seq(Seq(Nat)), err : Errors, failed : BOOLEAN,
                answer : {"none", "no", "deadline", "canceled", "unsupported", "silent", "ok"} \cup Errors]

All == SampleBytes * request.input.samples

(* The sample that has a place in the file.                                *)
SampleAt(i) == [j \in 1 .. SampleBytes |-> SampleBytes * (i - 1) + j]

(* The bytes from n on, one after the other.                               *)
From(s, n) == \A k \in 1 .. Len(s) : s[k] = n + k

(* How many bytes the decoder has got.                                     *)
Got == SampleBytes * Len(dec.out) + Len(dec.buf)

(* Blocks of the file are to be fed, in the pipe or taken.                 *)
FeedFits ==
    /\ feed.left + stdin.held + worker.took = request.input.blocks
    /\ stdin.closed => feed.at = "done"
    /\ feed.at = "done" /\ ~feed.short => feed.left = 0
    /\ feed.at = "reads" => ~feed.short
(* Bytes of the answer are got, in the pipe or to be written.              *)
StreamFits ==
    /\ First + worker.wrote <= All + 1
    /\ \A i \in 1 .. Len(dec.out) : dec.out[i] = SampleAt(i)
    /\ dec.at = "head" => /\ request.split /\ dec.out = <<>> /\ dec.buf = <<>>
                          /\ Len(stdout) = worker.wrote /\ \A k \in 1 .. Len(stdout) : stdout[k] = k - 1
    /\ dec.at \in {"check", "read"} => /\ First + worker.wrote = Got + Len(stdout) + 1
                                      /\ From(dec.buf, SampleBytes * Len(dec.out)) /\ From(stdout, Got)

(* How the work and the program ended, and what is the request's doing.    *)
EndFits ==
    /\ watch = "killed" \/ proc = "killed" \/ worker.at = "killed" => ended # "no"
    /\ proc \in {"ok", "bad"} => worker.at = proc
    /\ worker.at = "ok" => request.input.sound /\ (~open \/ feed.short \/ First + worker.wrote > All)
    /\ worker.at = "bad" => ~request.input.sound \/ feed.short \/ ended # "no"
    /\ ~open /\ ended = "no" => dec.at \in {"feed", "done"} /\ worker.at # "run"

(* What the decoder knows when it reads no more.                           *)
VerdictFits ==
    /\ dec.at \in Reading => dec.err = "none"
    /\ dec.at \notin Reading /\ dec.err = "none" =>
          /\ worker.at # "run" /\ proc # "run"
          /\ worker.at = "ok" /\ ~feed.short => Len(dec.out) = request.input.samples /\ Len(dec.out) <= request.limit
    /\ dec.err = "exceeded" => request.input.samples > request.limit
    /\ dec.err \in {"context", "internal"} => ended # "no"
    /\ dec.at \in {"feed", "done"} =>
          /\ proc # "run" /\ ~open
          /\ ~dec.failed => proc = "ok"
          /\ dec.failed /\ ended = "no" => ~request.input.sound \/ feed.short
    /\ dec.at = "done" => feed.at = "done"

AdInv == AdTypeOK /\ FeedFits /\ StreamFits /\ EndFits /\ VerdictFits /\ AnswersAreTrue

-----------------------------------------------------------------------------
(* Arithmetic, and pieces of the stream.                                   *)

(* A quotient is what fits.                                                *)
LEMMA DivFits ==
    ASSUME NEW n \in Nat, NEW k \in Nat \ {0}
    PROVE  n \div k \in Nat /\ k * (n \div k) <= n /\ n < k * (n \div k) + k
OBVIOUS

(* A part of a product, in proportion, is at most all of it.               *)
LEMMA ShareFits ==
    ASSUME NEW a \in Nat, NEW n \in Nat, NEW b \in Nat \ {0}, n <= b
    PROVE  (a * n) \div b \in Nat /\ (a * n) \div b <= a /\ (n = b => (a * n) \div b = a)
<1>1. a * n \in Nat /\ a * n <= a * b /\ a * b = b * a
  OBVIOUS
<1> PICK q \in Nat : q = (a * n) \div b
  BY <1>1, DivFits
<1>2. b * q <= a * n /\ a * n < b * q + b
  BY <1>1, DivFits
<1>3. q <= a
  <2>1. b * q <= b * a
    BY <1>1, <1>2
  <2>. QED  BY ONLY <2>1, a \in Nat, q \in Nat, b \in Nat \ {0}
<1>4. n = b => q = a
  <2>1. ASSUME n = b PROVE b * a < b * q + b
    BY <1>1, <1>2, <2>1
  <2>2. ASSUME b * a < b * q + b PROVE a <= q
    BY ONLY <2>2, a \in Nat, q \in Nat, b \in Nat \ {0}
  <2>. QED  BY <1>3, <2>1, <2>2
<1>. QED  BY <1>3, <1>4

(* The elements of a run that is cut out.                                  *)
LEMMA CutParts ==
    ASSUME NEW s \in Seq(Nat), NEW a \in Nat, NEW b \in Nat, a <= b, b <= Len(s)
    PROVE  LET t == SubSeq(s, a + 1, b) IN
           t \in Seq(Nat) /\ Len(t) = b - a /\ \A k \in 1 .. b - a : t[k] = s[a + k]
<1> PICK t : t = SubSeq(s, a + 1, b)
  OBVIOUS
<1>1. t \in Seq(Nat)
  OBVIOUS
<1>2. Len(t) = b - a
  OBVIOUS
<1>3. \A k \in 1 .. b - a : t[k] = s[a + k]
  OBVIOUS
<1>. QED  BY <1>1, <1>2, <1>3

(* What two sequences have when they are joined.                           *)
LEMMA JoinParts ==
    ASSUME NEW S, NEW s \in Seq(S), NEW t \in Seq(S)
    PROVE  /\ s \o t \in Seq(S) /\ Len(s \o t) = Len(s) + Len(t)
           /\ \A i \in 1 .. Len(s) : (s \o t)[i] = s[i]
           /\ \A j \in 1 .. Len(t) : (s \o t)[Len(s) + j] = t[j]
OBVIOUS

(* The whole samples in a run of bytes are the next ones of the file, and  *)
(* what is left of it is where the one after them begins.                  *)
LEMMA PiecesGoOn ==
    ASSUME NEW buf \in Seq(Nat), NEW n \in Nat, From(buf, SampleBytes * n)
    PROVE  LET m == Len(buf) \div SampleBytes IN
           /\ m \in Nat /\ SampleBytes * m <= Len(buf) /\ Len(buf) < SampleBytes * m + SampleBytes
           /\ Whole(buf) \in Seq(Seq(Nat)) /\ Len(Whole(buf)) = m
           /\ \A i \in 1 .. m : Whole(buf)[i] = SampleAt(n + i)
           /\ Rest(buf) \in Seq(Nat) /\ Len(Rest(buf)) = Len(buf) - SampleBytes * m
           /\ From(Rest(buf), SampleBytes * (n + m))
<1> PICK b \in Nat \ {0} : b = SampleBytes
  BY DecodeAssumption
<1> PICK L \in Nat : L = Len(buf)
  OBVIOUS
<1> PICK m \in Nat : m = L \div b
  BY DivFits
<1>1. b * m \in Nat /\ b * m <= L /\ L < b * m + b
  BY DivFits
<1>2. \A k \in 1 .. L : buf[k] = b * n + k /\ buf[k] \in Nat
  BY DEF From
<1>3. ASSUME NEW i \in 1 .. m
      PROVE  /\ b * (i - 1) \in Nat /\ b * i = b * (i - 1) + b /\ b * i <= L
             /\ b * ((n + i) - 1) = b * n + b * (i - 1)
  <2>1. b * (i - 1) \in Nat /\ b * i = b * (i - 1) + b
    OBVIOUS
  <2>2. b * i <= b * m
    OBVIOUS
  <2>3. b * ((n + i) - 1) = b * n + b * (i - 1)
    OBVIOUS
  <2>. QED  BY <1>1, <2>1, <2>2, <2>3
<1>4. ASSUME NEW i \in 1 .. m
      PROVE  /\ SubSeq(buf, b * (i - 1) + 1, b * i) = SampleAt(n + i)
             /\ SubSeq(buf, b * (i - 1) + 1, b * i) \in Seq(Nat)
  <2> PICK p \in Nat : p = b * (i - 1)
    BY <1>3
  <2> PICK e \in Nat : e = b * i
    OBVIOUS
  <2> PICK f \in Nat : f = b * n
    OBVIOUS
  <2>1. e = p + b /\ e <= L /\ b * ((n + i) - 1) = f + p /\ e - p = b
    BY <1>3
  <2> PICK s : s = SubSeq(buf, p + 1, e)
    OBVIOUS
  <2>2. s \in Seq(Nat) /\ Len(s) = b /\ \A j \in 1 .. b : s[j] = buf[p + j]
    <3>1. p <= e /\ e <= Len(buf)
      BY <2>1
    <3>2. s \in Seq(Nat) /\ Len(s) = e - p /\ \A j \in 1 .. e - p : s[j] = buf[p + j]
      BY ONLY <3>1, CutParts, buf \in Seq(Nat), p \in Nat, e \in Nat, s = SubSeq(buf, p + 1, e), SMTT(30)
    <3>. QED  BY <2>1, <3>2
  <2>3. \A j \in 1 .. b : s[j] = (f + p) + j
    <3>1. \A j \in 1 .. b : p + j \in 1 .. L /\ f + (p + j) = (f + p) + j
      BY ONLY <2>1, b \in Nat, L \in Nat, f \in Nat, p \in Nat, e \in Nat
    <3>2. \A k \in 1 .. L : buf[k] = f + k
      BY <1>2
    <3>3. ASSUME NEW j \in 1 .. b PROVE s[j] = (f + p) + j
      BY <2>2, <3>1, <3>2
    <3>. QED  BY <3>3
  <2>4. s = [j \in 1 .. b |-> (f + p) + j]
    BY ONLY <2>2, <2>3, b \in Nat
  <2>5. SampleAt(n + i) = [j \in 1 .. b |-> b * ((n + i) - 1) + j]
    BY DEF SampleAt
  <2>. QED  BY <2>1, <2>2, <2>4, <2>5
<1>5. Whole(buf) = [i \in 1 .. m |-> SubSeq(buf, b * (i - 1) + 1, b * i)]
  BY DEF Whole
<1>6. Whole(buf) \in Seq(Seq(Nat)) /\ Len(Whole(buf)) = m /\ \A i \in 1 .. m : Whole(buf)[i] = SampleAt(n + i)
  <2> DEFINE Piece(i) == SubSeq(buf, b * (i - 1) + 1, b * i)
  <2>1. \A i \in 1 .. m : Piece(i) \in Seq(Nat) /\ Piece(i) = SampleAt(n + i)
    BY <1>4
  <2>2. Whole(buf) = [i \in 1 .. m |-> Piece(i)]
    BY <1>5
  <2> HIDE DEF Piece
  <2>. QED  BY ONLY <2>1, <2>2, m \in Nat
<1>7. /\ Rest(buf) \in Seq(Nat) /\ Len(Rest(buf)) = L - b * m
      /\ \A k \in 1 .. L - b * m : Rest(buf)[k] = buf[b * m + k]
  <2> PICK p \in Nat : p = b * m
    BY <1>1
  <2>1. Rest(buf) = SubSeq(buf, p + 1, L) /\ p <= L
    BY <1>1 DEF Rest
  <2>2. /\ Rest(buf) \in Seq(Nat) /\ Len(Rest(buf)) = L - p
        /\ \A k \in 1 .. L - p : Rest(buf)[k] = buf[p + k]
    BY ONLY <2>1, CutParts, buf \in Seq(Nat), p \in Nat, L \in Nat, L = Len(buf)
  <2>. QED  BY <2>2
<1>8. From(Rest(buf), b * (n + m))
  <2>1. b * (n + m) = b * n + b * m
    OBVIOUS
  <2>2. \A k \in 1 .. L - b * m : (b * m + k) \in 1 .. L
    BY <1>1
  <2>3. \A k \in 1 .. L - b * m : Rest(buf)[k] = b * n + (b * m + k)
    BY <1>2, <1>7, <2>2
  <2>4. b * n \in Nat
    OBVIOUS
  <2>5. \A k \in 1 .. L - b * m : Rest(buf)[k] = b * (n + m) + k
    BY <1>1, <2>1, <2>3, <2>4
  <2>. QED  BY <1>7, <2>5 DEF From
<1>. QED  BY <1>1, <1>6, <1>7, <1>8

(* Taking the first bytes from a pipe.                                     *)
LEMMA PiecesAreTaken ==
    ASSUME NEW buf \in Seq(Nat), NEW s \in Seq(Nat), NEW p \in Nat, NEW n \in 1 .. Len(s),
           From(buf, p), From(s, p + Len(buf))
    PROVE  LET t == buf \o SubSeq(s, 1, n)
               r == SubSeq(s, n + 1, Len(s)) IN
           /\ t \in Seq(Nat) /\ Len(t) = Len(buf) + n /\ From(t, p)
           /\ r \in Seq(Nat) /\ Len(r) = Len(s) - n /\ From(r, p + Len(t))
<1> PICK h : h = SubSeq(s, 1, n)
  OBVIOUS
<1> PICK t : t = buf \o h
  OBVIOUS
<1> PICK r : r = SubSeq(s, n + 1, Len(s))
  OBVIOUS
<1>1. h \in Seq(Nat) /\ Len(h) = n /\ \A k \in 1 .. n : h[k] = s[k]
  <2>1. h = SubSeq(s, 0 + 1, n) /\ n - 0 = n /\ n <= Len(s) /\ 0 <= n /\ 0 \in Nat /\ n \in Nat
    OBVIOUS
  <2>2. h \in Seq(Nat) /\ Len(h) = n - 0 /\ \A k \in 1 .. n - 0 : h[k] = s[0 + k]
    BY ONLY <2>1, CutParts, s \in Seq(Nat)
  <2>. QED  BY <2>2
<1>2. r \in Seq(Nat) /\ Len(r) = Len(s) - n /\ \A k \in 1 .. Len(s) - n : r[k] = s[n + k]
  <2>1. n \in Nat /\ Len(s) \in Nat /\ n <= Len(s)
    OBVIOUS
  <2>. QED  BY ONLY <2>1, CutParts, s \in Seq(Nat), r = SubSeq(s, n + 1, Len(s))
<1>3. /\ t \in Seq(Nat) /\ Len(t) = Len(buf) + n
      /\ (\A k \in 1 .. Len(buf) : t[k] = buf[k]) /\ \A k \in 1 .. n : t[Len(buf) + k] = h[k]
  <2>1. h \in Seq(Nat) /\ Len(h) = n
    BY <1>1
  <2>2. /\ t \in Seq(Nat) /\ Len(t) = Len(buf) + Len(h)
        /\ (\A k \in 1 .. Len(buf) : t[k] = buf[k]) /\ \A k \in 1 .. Len(h) : t[Len(buf) + k] = h[k]
    <3>1. h \in Seq(Nat)
      BY <2>1
    <3>2. /\ buf \o h \in Seq(Nat) /\ Len(buf \o h) = Len(buf) + Len(h)
          /\ (\A k \in 1 .. Len(buf) : (buf \o h)[k] = buf[k])
          /\ \A k \in 1 .. Len(h) : (buf \o h)[Len(buf) + k] = h[k]
      BY ONLY <3>1, JoinParts, buf \in Seq(Nat)
    <3>. QED  BY ONLY <3>2, t = buf \o h
  <2>. QED  BY <2>1, <2>2
<1>4. From(t, p)
  <2>1. \A k \in 1 .. Len(buf) : t[k] = p + k
    BY <1>3 DEF From
  <2>2. \A k \in 1 .. n : t[Len(buf) + k] = p + (Len(buf) + k)
    BY <1>1, <1>3 DEF From
  <2>3. \A k \in 1 .. Len(t) : k \in 1 .. Len(buf) \/ (k - Len(buf) \in 1 .. n /\ k = Len(buf) + (k - Len(buf)))
    BY <1>3
  <2>. QED  BY <2>1, <2>2, <2>3 DEF From
<1>5. From(r, p + Len(t))
  <2>1. \A k \in 1 .. Len(r) : n + k \in 1 .. Len(s)
    <3>1. Len(r) = Len(s) - n /\ Len(s) \in Nat /\ n \in Nat
      BY <1>2, SMTT(30)
    <3>. QED  BY ONLY <3>1
  <2>2. \A k \in 1 .. Len(r) : s[n + k] = (p + Len(buf)) + (n + k)
    BY <2>1 DEF From
  <2>. QED  BY <1>2, <1>3, <2>2 DEF From
<1>. QED  BY <1>2, <1>3, <1>4, <1>5


-----------------------------------------------------------------------------
(* Steps of the program, of the feeder and of the request.                 *)

(* What the type invariant says of the file.                               *)
LEMMA FileFits ==
    ASSUME AdInv
    PROVE  /\ request.input.blocks \in Nat /\ request.input.samples \in Nat /\ request.input.sound \in BOOLEAN
           /\ request.split \in BOOLEAN /\ request.wrapper \in BOOLEAN /\ request.limit \in Nat
           /\ All \in Nat /\ First \in {0, 1} /\ worker.took \in Nat /\ worker.wrote \in Nat
           /\ request.input.sound => /\ Makes(worker.took) \in Nat /\ Makes(worker.took) <= All
                                     /\ worker.took = request.input.blocks => Makes(worker.took) = All
<1>1. /\ request.input \in Inputs /\ request.split \in BOOLEAN /\ request.wrapper \in BOOLEAN /\ request.limit \in Limits
      /\ worker.took \in Nat /\ worker.wrote \in Nat /\ feed.left \in Nat /\ stdin.held \in Nat
      /\ feed.left + stdin.held + worker.took = request.input.blocks
  BY DEF AdInv, AdTypeOK, Decodings, FeedFits
<1>2. /\ request.input.blocks \in Nat /\ request.input.samples \in Nat /\ request.input.sound \in BOOLEAN
      /\ request.limit \in Nat /\ (request.input.sound => request.input.blocks > 0)
  BY <1>1, DecodeAssumption
<1>3. All \in Nat /\ First \in {0, 1}
  BY <1>2, DecodeAssumption DEF All, First
<1>4. ASSUME request.input.sound
      PROVE  /\ Makes(worker.took) \in Nat /\ Makes(worker.took) <= All
             /\ worker.took = request.input.blocks => Makes(worker.took) = All
  <2>0. request.input.blocks > 0
    BY <1>2, <1>4, Zenon
  <2> PICK b \in Nat \ {0} : b = request.input.blocks
    BY <1>2, <2>0
  <2> PICK n \in Nat : n = worker.took
    BY <1>1
  <2> PICK a \in Nat : a = request.input.samples * SampleBytes
    BY <1>2, DecodeAssumption
  <2>1. n <= b
    BY <1>1
  <2>2. a = All
    BY <1>2, DecodeAssumption DEF All
  <2>3. Makes(n) = (a * n) \div b
    BY <1>4 DEF Makes
  <2>4. (a * n) \div b \in Nat /\ (a * n) \div b <= a /\ (n = b => (a * n) \div b = a)
    BY ONLY <2>1, ShareFits, a \in Nat, n \in Nat, b \in Nat \ {0}
  <2>. QED  BY <2>2, <2>3, <2>4
<1>. QED  BY <1>1, <1>2, <1>3, <1>4

(* The decoder's place in the stream is a number.                          *)
LEMMA GotIsNat == ASSUME AdInv PROVE Got \in Nat /\ SampleBytes * Len(dec.out) \in Nat
<1>1. Len(dec.out) \in Nat /\ Len(dec.buf) \in Nat /\ SampleBytes \in Nat
  BY DecodeAssumption DEF AdInv, AdTypeOK
<1>2. ASSUME NEW n \in Nat, NEW b \in Nat PROVE b * n \in Nat
  OBVIOUS
<1>3. SampleBytes * Len(dec.out) \in Nat
  BY ONLY <1>1, <1>2
<1>4. Got = SampleBytes * Len(dec.out) + Len(dec.buf)
  BY DEF Got
<1>5. \A p, q \in Nat : p + q \in Nat
  OBVIOUS
<1>6. SampleBytes * Len(dec.out) + Len(dec.buf) \in Nat
  BY ONLY <1>1, <1>3, <1>5, Zenon
<1>. QED  BY <1>3, <1>4, <1>6, Zenon
(* An answer stays true.                                                   *)
LEMMA AnswersStay ==
    ASSUME AnswersAreTrue, dec' = dec, request' = request, feed.short => feed'.short,
           dec.at = "done" => ended' = ended
    PROVE  AnswersAreTrue'
BY DEF AnswersAreTrue, Samples

(* The program takes a block.                                              *)
LEMMA WorkerTakesKeepsInv == ASSUME AdInv, WorkerTakes PROVE AdInv'
<1>1. AdTypeOK'
  <2>1. /\ stdin \in [held : Nat, closed : BOOLEAN] /\ stdin.held > 0 /\ stdin' = [stdin EXCEPT !.held = @ - 1]
        /\ worker \in [at : Ends, took : Nat, wrote : Nat] /\ worker' = [worker EXCEPT !.took = @ + 1]
    BY DEF AdInv, AdTypeOK, WorkerTakes
  <2>2. stdin' \in [held : Nat, closed : BOOLEAN]
    BY <2>1
  <2>3. worker' \in [at : Ends, took : Nat, wrote : Nat]
    BY <2>1
  <2>. QED  BY <2>2, <2>3 DEF AdInv, AdTypeOK, WorkerTakes
<1>2. FeedFits'
  BY DEF AdInv, AdTypeOK, WorkerTakes, FeedFits
<1>3. StreamFits'
  BY DEF AdInv, AdTypeOK, WorkerTakes, StreamFits, First, All, Got, From, SampleAt
<1>4. EndFits' /\ VerdictFits'
  BY DEF AdInv, AdTypeOK, WorkerTakes, Works, EndFits, VerdictFits, First, All
<1>5. AnswersAreTrue'
  BY AnswersStay DEF AdInv, WorkerTakes
<1>. QED  BY <1>1, <1>2, <1>3, <1>4, <1>5 DEF AdInv

(* It ends, on its own account or for its pipe.                            *)
LEMMA StopsKeepsInv ==
    ASSUME AdInv, NEW how \in {"ok", "bad"}, Works, Stops(how),
           how = "ok" => request.input.sound /\ (~open \/ feed.short \/ First + worker.wrote > All),
           how = "bad" => ~request.input.sound \/ feed.short \/ ~open,
           UNCHANGED <<request, feed, stdin, stdout, ended, watch, open, dec>>
    PROVE  AdInv'
<1>1. AdTypeOK'
  BY ZenonT(60) DEF AdInv, AdTypeOK, Stops, Ends
<1>2. FeedFits' /\ worker'.wrote = worker.wrote /\ worker'.at = how
  BY DEF AdInv, AdTypeOK, Stops, FeedFits
<1>3. StreamFits'
  BY <1>2 DEF AdInv, StreamFits, First, All, Got, From, SampleAt
<1>4. EndFits'
  BY <1>2 DEF AdInv, AdTypeOK, Stops, Works, EndFits, First, All
<1>5. VerdictFits'
  BY <1>2 DEF AdInv, AdTypeOK, Stops, Works, VerdictFits, EndFits
<1>6. AnswersAreTrue'
  BY AnswersStay DEF AdInv
<1>. QED  BY <1>1, <1>2, <1>3, <1>4, <1>5, <1>6 DEF AdInv

(* It writes a byte, or finds nobody there to read it.                     *)
LEMMA WorkerWritesKeepsInv == ASSUME AdInv, WorkerWrites PROVE AdInv'
<1>1. CASE ~open
  BY <1>1, StopsKeepsInv DEF WorkerWrites
<1>2. CASE open
  <2> PICK next : next = First + worker.wrote
    OBVIOUS
  <2>1. /\ Works /\ request.input.sound /\ next <= Makes(worker.took) /\ stdout' = Append(stdout, next)
        /\ worker' = [worker EXCEPT !.wrote = @ + 1]
        /\ UNCHANGED <<request, feed, stdin, proc, ended, watch, open, dec>>
    BY <1>2 DEF WorkerWrites
  <2>2. next \in Nat /\ next <= All
    BY <2>1, FileFits
  <2>3. /\ worker'.wrote = worker.wrote + 1 /\ worker'.at = worker.at /\ worker'.took = worker.took
        /\ stdout \in Seq(Nat)
    BY <2>1 DEF AdInv, AdTypeOK
  <2>4. /\ stdout' \in Seq(Nat) /\ Len(stdout') = Len(stdout) + 1 /\ stdout'[Len(stdout) + 1] = next
        /\ \A k \in 1 .. Len(stdout) : stdout'[k] = stdout[k]
    BY <2>1, <2>2, <2>3
  <2>5. AdTypeOK'
    <3>1. worker' \in [at : Ends, took : Nat, wrote : Nat]
      <4>1. worker \in [at : Ends, took : Nat, wrote : Nat] /\ worker' = [worker EXCEPT !.wrote = @ + 1]
        BY <2>1 DEF AdInv, AdTypeOK
      <4>. QED  BY ONLY <4>1
    <3>2. /\ request' = request /\ feed' = feed /\ stdin' = stdin /\ proc' = proc /\ ended' = ended /\ watch' = watch
          /\ open' = open /\ dec' = dec /\ stdout' \in Seq(Nat)
      BY <2>1, <2>4
    <3>. QED  BY ONLY AdInv, <3>1, <3>2 DEF AdInv, AdTypeOK
  <2>6. FeedFits'
    BY <2>1, <2>3 DEF AdInv, FeedFits
  <2>7. StreamFits'
    <3>1. First' = First /\ All' = All /\ Got' = Got /\ First' + worker'.wrote = next + 1
      BY <2>1, <2>3, FileFits DEF First, All, Got
    <3>2. First' + worker'.wrote <= All' + 1
      BY <2>2, <3>1, FileFits
    <3>3. \A k \in 1 .. Len(stdout') : k \in 1 .. Len(stdout) \/ k = Len(stdout) + 1
      BY <2>3, <2>4
    <3>4. ASSUME dec.at = "head"
          PROVE  Len(stdout') = worker'.wrote /\ \A k \in 1 .. Len(stdout') : stdout'[k] = k - 1
      <4>1. Len(stdout) = worker.wrote /\ \A k \in 1 .. Len(stdout) : stdout[k] = k - 1
        BY <3>4 DEF AdInv, StreamFits
      <4>2. next = worker.wrote
        BY <3>4, FileFits DEF AdInv, StreamFits, First
      <4>. QED  BY <2>3, <2>4, <3>3, <4>1, <4>2
    <3>5. ASSUME dec.at \in {"check", "read"}
          PROVE  First' + worker'.wrote = Got + Len(stdout') + 1 /\ From(stdout', Got)
      <4>1. next = Got + Len(stdout) + 1 /\ \A k \in 1 .. Len(stdout) : stdout[k] = Got + k
        BY <3>5 DEF AdInv, StreamFits, From
      <4>2. Got \in Nat
        BY GotIsNat
      <4>3. \A k \in 1 .. Len(stdout') : stdout'[k] = Got + k
        <5> PICK g \in Nat : g = Got
          BY <4>2
        <5> PICK n \in Nat : n = Len(stdout)
          BY <2>3
        <5>1. stdout'[n + 1] = g + (n + 1)
          BY <2>4, <4>1
        <5>. QED  BY <2>4, <3>3, <4>1, <5>1
      <4>4. next + 1 = Got + Len(stdout') + 1
        <5> PICK g \in Nat : g = Got
          BY <4>2
        <5> PICK n \in Nat : n = Len(stdout)
          BY <2>3
        <5>1. next = g + n + 1 /\ Len(stdout') = n + 1
          BY <2>4, <4>1
        <5>. QED  BY <5>1
      <4>. QED  BY <3>1, <4>3, <4>4 DEF From
    <3>6. dec' = dec /\ request' = request /\ SampleBytes' = SampleBytes
      BY <2>1
    <3>. QED  BY <3>1, <3>2, <3>4, <3>5, <3>6 DEF AdInv, StreamFits, SampleAt, From
  <2>8. EndFits' /\ VerdictFits'
    BY <2>1, <2>3 DEF AdInv, Works, EndFits, VerdictFits, First, All
  <2>9. AnswersAreTrue'
    BY <2>1, AnswersStay DEF AdInv
  <2>. QED  BY <2>5, <2>6, <2>7, <2>8, <2>9 DEF AdInv
<1>. QED  BY <1>1, <1>2 DEF AdInv, AdTypeOK

(* It has come to the end of its input, or cannot use it.                  *)
LEMMA WorkerEndsKeepsInv == ASSUME AdInv, WorkerEnds PROVE AdInv'
<1>1. CASE ~request.input.sound \/ feed.short
  <2>1. CASE Stops("bad")
    BY <1>1, <2>1, StopsKeepsInv DEF WorkerEnds
  <2>2. CASE ~Stops("bad")
    BY <1>1, <2>2, StopsKeepsInv DEF WorkerEnds
  <2>. QED  BY <2>1, <2>2
<1>2. CASE request.input.sound /\ ~feed.short
  <2>1. /\ worker.took > 0 /\ First + worker.wrote > Makes(worker.took) /\ stdin.held = 0 /\ (stdin.closed \/ ~open)
        /\ Stops("ok") /\ Works /\ UNCHANGED <<request, feed, stdin, stdout, ended, watch, open, dec>>
    BY <1>2 DEF WorkerEnds
  <2>2. ASSUME open PROVE First + worker.wrote > All
    <3>1. feed.left = 0 /\ stdin.held = 0 /\ feed.left + stdin.held + worker.took = request.input.blocks
      BY <1>2, <2>1, <2>2 DEF AdInv, FeedFits
    <3>2. worker.took = request.input.blocks
      BY <3>1, FileFits
    <3>. QED  BY <1>2, <2>1, <3>2, FileFits
  <2>. QED  BY <1>2, <2>1, <2>2, StopsKeepsInv DEF AdInv, AdTypeOK
<1>. QED  BY <1>1, <1>2

(* A wrapper goes after what it started.                                   *)
LEMMA WrapperExitsKeepsInv == ASSUME AdInv, WrapperExits PROVE AdInv'
<1>1. AdTypeOK' /\ FeedFits'
  BY DEF AdInv, AdTypeOK, FeedFits, WrapperExits
<1>2. StreamFits'
  BY DEF AdInv, WrapperExits, StreamFits, First, All, Got, From, SampleAt
<1>3. EndFits' /\ VerdictFits'
  BY DEF AdInv, AdTypeOK, WrapperExits, Works, Ends, EndFits, VerdictFits, First, All
<1>4. AnswersAreTrue'
  BY AnswersStay DEF AdInv, WrapperExits
<1>. QED  BY <1>1, <1>2, <1>3, <1>4 DEF AdInv

(* The feeder gives a block, or goes.                                      *)
LEMMA FeedKeepsInv == ASSUME AdInv, Feed \/ InputFails PROVE AdInv'
<1>0. /\ feed \in [at : {"reads", "done"}, left : Nat, short : BOOLEAN] /\ stdin \in [held : Nat, closed : BOOLEAN]
      /\ worker.took \in Nat /\ request.input.blocks \in Nat /\ FeedFits
  BY FileFits DEF AdInv, AdTypeOK
<1>2. UNCHANGED <<request, worker, proc, stdout, ended, watch, open, dec>>
  BY DEF Feed, InputFails
<1>1. AdTypeOK' /\ FeedFits' /\ (feed.short => feed'.short) /\ (feed.at = "done" => feed'.at = "done")
  <2>1. ASSUME NEW short \in BOOLEAN, FeedEnds(short), feed.at = "reads", ~short => feed.left = 0
        PROVE  /\ feed' \in [at : {"reads", "done"}, left : Nat, short : BOOLEAN]
               /\ stdin' \in [held : Nat, closed : BOOLEAN] /\ FeedFits'
               /\ feed.short => feed'.short
    <3>1. feed' = [feed EXCEPT !.at = "done", !.short = short] /\ stdin' = [stdin EXCEPT !.closed = TRUE]
      BY <2>1 DEF FeedEnds
    <3>2. /\ feed'.at = "done" /\ feed'.short = short /\ feed'.left = feed.left
          /\ stdin'.held = stdin.held /\ stdin'.closed = TRUE
      BY <1>0, <3>1
    <3>3. feed' \in [at : {"reads", "done"}, left : Nat, short : BOOLEAN] /\ stdin' \in [held : Nat, closed : BOOLEAN]
      BY <1>0, <3>1
    <3>4. feed.short => short
      BY <1>0, <2>1 DEF FeedFits
    <3>5. FeedFits'
      BY <1>0, <1>2, <2>1, <3>2 DEF FeedFits
    <3>. QED  BY <3>2, <3>3, <3>4, <3>5
  <2>2. ASSUME feed.at = "reads", feed.left # 0, feed' = [feed EXCEPT !.left = @ - 1],
               stdin' = [stdin EXCEPT !.held = @ + 1]
        PROVE  /\ feed' \in [at : {"reads", "done"}, left : Nat, short : BOOLEAN]
               /\ stdin' \in [held : Nat, closed : BOOLEAN] /\ FeedFits'
               /\ feed.short => feed'.short
    BY <1>0, <1>2, <2>2 DEF FeedFits
  <2>3. feed.at = "reads"
    BY DEF Feed, InputFails
  <2>4. \/ \E short \in BOOLEAN : FeedEnds(short) /\ (~short => feed.left = 0)
        \/ feed.left # 0 /\ feed' = [feed EXCEPT !.left = @ - 1] /\ stdin' = [stdin EXCEPT !.held = @ + 1]
    <3>1. (feed.left > 0) \in BOOLEAN /\ (feed.left > 0) = (feed.left # 0)
      BY <1>0
    <3>. QED  BY <1>0, <3>1 DEF Feed, InputFails
  <2>. QED  BY <1>2, <2>1, <2>2, <2>3, <2>4 DEF AdInv, AdTypeOK
<1>3. StreamFits'
  BY <1>2 DEF AdInv, StreamFits, First, All, Got, From, SampleAt
<1>4. EndFits' /\ VerdictFits'
  BY <1>1, <1>2 DEF AdInv, EndFits, VerdictFits, First, All
<1>5. AnswersAreTrue'
  BY <1>1, <1>2, AnswersStay DEF AdInv
<1>. QED  BY <1>1, <1>3, <1>4, <1>5 DEF AdInv

(* The request's time is over, and the watch acts on it.                   *)
LEMMA EndingKeepsInv ==
    ASSUME AdInv, (\E how \in {"deadline", "canceled"} : RequestEnds(how)) \/ WatchKills \/ WatchCloses
    PROVE  AdInv'
<1>1. AdTypeOK' /\ FeedFits' /\ worker'.wrote = worker.wrote
  BY ZenonT(60) DEF AdInv, AdTypeOK, FeedFits, RequestEnds, WatchKills, WatchCloses, Ends
<1>2. UNCHANGED <<request, feed, stdin, stdout, dec>>
  BY DEF RequestEnds, WatchKills, WatchCloses
<1>3. StreamFits'
  BY <1>1, <1>2 DEF AdInv, StreamFits, First, All, Got, From, SampleAt
<1>4. EndFits'
  BY <1>1, <1>2 DEF AdInv, AdTypeOK, EndFits, First, All, RequestEnds, WatchKills, WatchCloses, Works
<1>5. VerdictFits'
  BY <1>1, <1>2 DEF AdInv, AdTypeOK, EndFits, VerdictFits, RequestEnds, WatchKills, WatchCloses, Works
<1>6. AnswersAreTrue'
  BY <1>2, AnswersStay DEF AdInv, RequestEnds, WatchKills, WatchCloses
<1>. QED  BY <1>1, <1>3, <1>4, <1>5, <1>6 DEF AdInv


-----------------------------------------------------------------------------
(* Steps of the decoder.                                                   *)

(* The decoder reads no more, and knows why.                               *)
LEMMA DrainsKeepsInv ==
    ASSUME AdInv, dec.at \in Reading, NEW out \in Seq(Seq(Nat)), NEW err \in Errors, Drains(out, err),
           \A i \in 1 .. Len(out) : out[i] = SampleAt(i), stdout' \in Seq(Nat),
           err = "none" => /\ ~Works /\ proc # "run"
                           /\ worker.at = "ok" /\ ~feed.short =>
                                 Len(out) = request.input.samples /\ Len(out) <= request.limit,
           err = "exceeded" => request.input.samples > request.limit,
           err \in {"context", "internal"} => ended # "no",
           UNCHANGED <<request, feed, stdin, worker, proc, ended, watch, open>>
    PROVE  AdInv'
<1>1. dec' = [dec EXCEPT !.at = "drain", !.out = out, !.err = err]
  BY DEF Drains
<1>2. dec'.at = "drain" /\ dec'.out = out /\ dec'.err = err /\ dec' \in [at : Stages, buf : Seq(Nat),
         out : Seq(Seq(Nat)), err : Errors, failed : BOOLEAN,
         answer : {"none", "no", "deadline", "canceled", "unsupported", "silent", "ok"} \cup Errors]
  BY <1>1 DEF AdInv, AdTypeOK, Stages, Reading
<1>3. AdTypeOK' /\ FeedFits'
  BY <1>2 DEF AdInv, AdTypeOK, FeedFits
<1>4. StreamFits'
  BY <1>2 DEF AdInv, StreamFits, First, All, SampleAt
<1>5. EndFits'
  BY <1>2 DEF AdInv, EndFits, First, All, Reading
<1>6. VerdictFits'
  BY <1>2 DEF AdInv, VerdictFits, Reading, Works
<1>7. AnswersAreTrue'
  BY <1>2 DEF AnswersAreTrue
<1>. QED  BY <1>3, <1>4, <1>5, <1>6, <1>7 DEF AdInv

(* Or it goes on, at a place in the stream.                                *)
LEMMA ReadingKeepsInv ==
    ASSUME AdInv, dec.at \in Reading, NEW at \in {"check", "read"}, NEW buf \in Seq(Nat), NEW out \in Seq(Seq(Nat)),
           dec' = [dec EXCEPT !.at = at, !.buf = buf, !.out = out],
           \A i \in 1 .. Len(out) : out[i] = SampleAt(i), From(buf, SampleBytes * Len(out)), stdout' \in Seq(Nat),
           First + worker.wrote = SampleBytes * Len(out) + Len(buf) + Len(stdout') + 1,
           From(stdout', SampleBytes * Len(out) + Len(buf)),
           UNCHANGED <<request, feed, stdin, worker, proc, ended, watch, open>>
    PROVE  AdInv'
<1>2. dec'.at = at /\ dec'.out = out /\ dec'.buf = buf /\ dec'.err = dec.err /\ dec' \in [at : Stages, buf : Seq(Nat),
         out : Seq(Seq(Nat)), err : Errors, failed : BOOLEAN,
         answer : {"none", "no", "deadline", "canceled", "unsupported", "silent", "ok"} \cup Errors]
  BY DEF AdInv, AdTypeOK, Stages, Reading
<1>3. AdTypeOK' /\ FeedFits'
  BY <1>2 DEF AdInv, AdTypeOK, FeedFits
<1>4. StreamFits'
  <2>1. Got' = SampleBytes * Len(out) + Len(buf)
    BY <1>2 DEF Got
  <2>2. First' = First /\ All' = All /\ SampleBytes' = SampleBytes
    BY DEF First, All
  <2>. QED  BY <1>2, <2>1, <2>2 DEF AdInv, StreamFits, SampleAt, From
<1>5. EndFits'
  BY <1>2 DEF AdInv, EndFits, First, All, Reading
<1>6. VerdictFits'
  BY <1>2 DEF AdInv, VerdictFits, Reading
<1>7. AnswersAreTrue'
  BY <1>2 DEF AnswersAreTrue
<1>. QED  BY <1>3, <1>4, <1>5, <1>6, <1>7 DEF AdInv

(* What has been read becomes samples.                                     *)
LEMMA ConvertedKeepsInv ==
    ASSUME AdInv, dec.at = "read", NEW buf \in Seq(Nat), NEW eof \in BOOLEAN, Converted(buf, eof),
           From(buf, SampleBytes * Len(dec.out)), stdout' \in Seq(Nat),
           First + worker.wrote = SampleBytes * Len(dec.out) + Len(buf) + Len(stdout') + 1,
           From(stdout', SampleBytes * Len(dec.out) + Len(buf)),
           eof => open /\ AtEnd /\ stdout' = <<>>,
           UNCHANGED <<request, feed, stdin, worker, proc, ended, watch, open>>
    PROVE  AdInv'
<1> PICK n \in Nat : n = Len(dec.out)
  BY DEF AdInv, AdTypeOK
<1> PICK L \in Nat : L = Len(buf)
  OBVIOUS
<1> PICK b \in Nat \ {0} : b = SampleBytes
  BY DecodeAssumption
<1> PICK rest \in Nat : rest = Len(stdout')
  OBVIOUS
<1> PICK samples \in Nat : samples = request.input.samples
  BY FileFits
<1> PICK out : out = dec.out \o Whole(buf)
  OBVIOUS
<1> PICK m \in Nat : m = L \div b
  BY DivFits
<1>1. /\ b * m <= L /\ L < b * m + b /\ Whole(buf) \in Seq(Seq(Nat)) /\ Len(Whole(buf)) = m
      /\ \A i \in 1 .. m : Whole(buf)[i] = SampleAt(n + i)
      /\ Rest(buf) \in Seq(Nat) /\ Len(Rest(buf)) = L - b * m /\ From(Rest(buf), b * (n + m))
  BY PiecesGoOn
<1>2. dec.out \in Seq(Seq(Nat)) /\ \A i \in 1 .. n : dec.out[i] = SampleAt(i)
  BY DEF AdInv, AdTypeOK, StreamFits
<1>3. out \in Seq(Seq(Nat)) /\ Len(out) = n + m /\ \A i \in 1 .. Len(out) : out[i] = SampleAt(i)
  <2> PICK a : a = dec.out
    OBVIOUS
  <2> PICK w : w = Whole(buf)
    OBVIOUS
  <2>1. a \in Seq(Seq(Nat)) /\ w \in Seq(Seq(Nat)) /\ Len(a) = n /\ Len(w) = m /\ out = a \o w
    BY <1>1, <1>2
  <2>2. /\ out \in Seq(Seq(Nat)) /\ Len(out) = n + m
        /\ (\A i \in 1 .. n : out[i] = a[i]) /\ \A i \in 1 .. m : out[n + i] = w[i]
    <3> PICK S : S = Seq(Nat)
      OBVIOUS
    <3>1. a \in Seq(S) /\ w \in Seq(S)
      BY <2>1
    <3>2. /\ a \o w \in Seq(S) /\ Len(a \o w) = Len(a) + Len(w)
          /\ (\A i \in 1 .. Len(a) : (a \o w)[i] = a[i]) /\ \A j \in 1 .. Len(w) : (a \o w)[Len(a) + j] = w[j]
      BY ONLY <3>1
    <3>. QED  BY ONLY <2>1, <3>2, S = Seq(Nat)
  <2>3. \A i \in 1 .. n + m : i \in 1 .. n \/ (i - n \in 1 .. m /\ i = n + (i - n))
    BY SMTT(30)
  <2>4. (\A i \in 1 .. n : out[i] = SampleAt(i)) /\ \A i \in 1 .. m : out[n + i] = SampleAt(n + i)
    BY <1>1, <1>2, <2>2
  <2>5. ASSUME NEW i \in 1 .. n + m PROVE out[i] = SampleAt(i)
    <3>1. CASE i \in 1 .. n
      BY <2>4, <3>1
    <3>2. CASE i - n \in 1 .. m
      <4> PICK j \in 1 .. m : j = i - n
        BY <3>2
      <4>1. n + j = i
        OBVIOUS
      <4>2. out[n + j] = SampleAt(n + j)
        BY <2>4
      <4>. QED  BY <4>1, <4>2
    <3>. QED  BY <2>3, <3>1, <3>2
  <2>. QED  BY <2>2, <2>5
<1>4. /\ b * n \in Nat /\ b * m \in Nat /\ b * samples \in Nat /\ b * (n + m) = b * n + b * m
      /\ All = b * samples
  <2>1. b * n \in Nat /\ b * m \in Nat /\ b * samples \in Nat /\ b * (n + m) = b * n + b * m
    BY ONLY b \in Nat \ {0}, n \in Nat, m \in Nat, samples \in Nat
  <2>. QED  BY <2>1 DEF All
<1> PICK bn \in Nat : bn = b * n
  BY <1>4
<1> PICK bm \in Nat : bm = b * m
  BY <1>4
<1> PICK all \in Nat : all = b * samples
  BY <1>4
<1> PICK put \in Nat : put = First + worker.wrote
  BY FileFits
<1>5. n + m <= samples
  <2>1. First + worker.wrote <= All + 1
    BY DEF AdInv, StreamFits
  <2>2. put <= all + 1 /\ put = bn + L + rest + 1 /\ bm <= L /\ b * (n + m) = bn + bm
    BY <1>1, <1>4, <2>1
  <2>3. b * (n + m) <= b * samples
    <3>1. bn + bm <= all
      BY ONLY <2>2, put \in Nat, all \in Nat, bn \in Nat, bm \in Nat, L \in Nat, rest \in Nat
    <3>. QED  BY <2>2, <3>1
  <2>4. n + m \in Nat
    BY ONLY n \in Nat, m \in Nat
  <2> PICK d \in Nat : d = n + m
    BY <2>4
  <2>5. b * d <= b * samples
    BY <2>3
  <2>6. d <= samples
    BY ONLY <2>5, b \in Nat \ {0}, d \in Nat, samples \in Nat
  <2>. QED  BY <2>6
<1>6. dec.buf \in Seq(Nat) /\ request.limit \in Nat /\ dec.at \in Reading
  BY FileFits DEF AdInv, AdTypeOK, Reading
<1>7. CASE ~(~request.split \/ eof \/ L = Block * SampleBytes)
  <2>1. dec' = [dec EXCEPT !.at = "read", !.buf = buf, !.out = dec.out]
    BY <1>7, ZenonT(60) DEF Converted, AdInv, AdTypeOK
  <2>. QED  BY <1>2, <1>6, <2>1, ReadingKeepsInv
<1>8. CASE (~request.split \/ eof \/ L = Block * SampleBytes) /\ Len(out) > request.limit
  <2>1. Drains(out, "exceeded")
    BY <1>8 DEF Converted
  <2>2. samples > request.limit
    <3> PICK limit \in Nat : limit = request.limit
      BY <1>6
    <3>1. n + m > limit
      BY <1>3, <1>8
    <3>2. samples > limit
      BY ONLY <1>5, <3>1, n \in Nat, m \in Nat, samples \in Nat, limit \in Nat
    <3>. QED  BY <3>2
  <2>3. "exceeded" \in Errors /\ "exceeded" \notin {"none", "context", "internal"}
    BY DEF Errors
  <2>. QED  BY <1>3, <1>6, <2>1, <2>2, <2>3, DrainsKeepsInv
<1>9. CASE (~request.split \/ L = Block * SampleBytes) /\ ~eof /\ ~(Len(out) > request.limit)
  <2>1. dec' = [dec EXCEPT !.at = "check", !.buf = Rest(buf), !.out = out]
    BY <1>9 DEF Converted, Carry
  <2>2. b * (n + m) + Len(Rest(buf)) = b * n + L
    <3>1. Len(Rest(buf)) = L - bm /\ b * (n + m) = bn + bm
      BY <1>1, <1>4
    <3>2. (bn + bm) + (L - bm) = bn + L
      BY ONLY bn \in Nat, bm \in Nat, L \in Nat
    <3>. QED  BY <3>1, <3>2
  <2>3. SampleBytes * Len(out) = b * (n + m) /\ SampleBytes * Len(dec.out) + Len(buf) = b * n + L
    BY <1>3
  <2>. QED  BY <1>1, <1>3, <1>6, <2>1, <2>2, <2>3, ReadingKeepsInv
<1>10. CASE eof /\ ~(Len(out) > request.limit)
  <2> PICK err : err = IF request.split /\ out = <<>> THEN "invalid" ELSE "none"
    OBVIOUS
  <2>1. Drains(out, err) /\ err \in {"invalid", "none"} /\ err \in Errors
    BY <1>10 DEF Converted, Errors
  <2>2. ~Works /\ proc # "run" /\ rest = 0 /\ open
    BY <1>10 DEF AtEnd
  <2>3. ASSUME worker.at = "ok", ~feed.short PROVE Len(out) = samples /\ Len(out) <= request.limit
    <3>1. put > all
      BY <1>4, <2>2, <2>3 DEF AdInv, EndFits
    <3>2. put = bn + L + 1 /\ L < bm + b
      BY <1>1, <1>4, <2>2
    <3>3. b * samples < b * (n + m) + b
      <4>1. all < bn + bm + b
        BY ONLY <3>1, <3>2, put \in Nat, all \in Nat, bn \in Nat, bm \in Nat, L \in Nat, b \in Nat
      <4>. QED  BY <1>4, <4>1
    <3>4. n + m \in Nat
      BY ONLY n \in Nat, m \in Nat
    <3> PICK d \in Nat : d = n + m
      BY <3>4
    <3>5. b * samples < b * d + b
      BY <3>3
    <3>6. samples <= d
      BY ONLY <3>5, b \in Nat \ {0}, d \in Nat, samples \in Nat
    <3>7. n + m = samples
      BY ONLY <1>5, <3>6, d = n + m, d \in Nat, samples \in Nat
    <3>8. ~(samples > request.limit)
      BY <1>3, <1>10, <3>7
    <3> PICK limit \in Nat : limit = request.limit
      BY <1>6
    <3>9. samples <= limit
      BY ONLY <3>8, limit = request.limit, samples \in Nat, limit \in Nat
    <3>. QED  BY <1>3, <3>7, <3>9
  <2>. QED  BY <1>3, <1>6, <2>1, <2>2, <2>3, DrainsKeepsInv
<1>. QED  BY <1>7, <1>8, <1>9, <1>10


(* The context is looked at before each read.                              *)
LEMMA CheckKeepsInv == ASSUME AdInv, Check PROVE AdInv'
<1>1. /\ dec.at = "check" /\ dec.at \in Reading /\ UNCHANGED <<request, feed, stdin, worker, proc, stdout, ended, watch, open>>
      /\ dec.out \in Seq(Seq(Nat)) /\ dec.buf \in Seq(Nat) /\ stdout \in Seq(Nat)
  BY DEF Check, Reading, AdInv, AdTypeOK
<1>2. \A i \in 1 .. Len(dec.out) : dec.out[i] = SampleAt(i)
  BY DEF AdInv, StreamFits
<1>3. CASE ended # "no"
  <2>1. Drains(dec.out, "context")
    BY <1>3 DEF Check
  <2>. QED  BY <1>1, <1>2, <1>3, <2>1, DrainsKeepsInv DEF Errors
<1>4. CASE ended = "no"
  <2>1. dec' = [dec EXCEPT !.at = "read", !.buf = dec.buf, !.out = dec.out]
    BY <1>4 DEF Check, AdInv, AdTypeOK
  <2>2. /\ First + worker.wrote = SampleBytes * Len(dec.out) + Len(dec.buf) + Len(stdout) + 1
        /\ From(dec.buf, SampleBytes * Len(dec.out)) /\ From(stdout, SampleBytes * Len(dec.out) + Len(dec.buf))
    BY <1>1 DEF AdInv, StreamFits, Got
  <2>. QED  BY <1>1, <1>2, <2>1, <2>2, ReadingKeepsInv
<1>. QED  BY <1>3, <1>4

(* The header of a WAV comes first.                                        *)
LEMMA ReadHeadKeepsInv == ASSUME AdInv, ReadHead PROVE AdInv'
<1>1. /\ dec.at = "head" /\ dec.at \in Reading /\ UNCHANGED <<request, feed, stdin, worker, proc, ended, watch, open>>
      /\ request.split /\ dec.out = <<>> /\ dec.buf = <<>> /\ stdout \in Seq(Nat)
      /\ Len(stdout) = worker.wrote /\ \A k \in 1 .. Len(stdout) : stdout[k] = k - 1
  BY DEF ReadHead, Reading, AdInv, AdTypeOK, StreamFits
<1>2. <<>> \in Seq(Seq(Nat)) /\ <<>> \in Seq(Nat) /\ Len(<<>>) = 0
  OBVIOUS
<1>3. CASE stdout # <<>> /\ stdout' = Tail(stdout) /\ dec' = [dec EXCEPT !.at = "check"]
  <2>1. dec' = [dec EXCEPT !.at = "check", !.buf = <<>>, !.out = <<>>]
    BY <1>1, <1>3 DEF AdInv, AdTypeOK
  <2>2. /\ stdout' \in Seq(Nat) /\ Len(stdout') = Len(stdout) - 1 /\ Len(stdout) \in Nat
        /\ \A k \in 1 .. Len(stdout') : stdout'[k] = stdout[k + 1] /\ k + 1 \in 1 .. Len(stdout)
    BY <1>1, <1>3
  <2>3. First = 0 /\ SampleBytes * Len(<<>>) = 0 /\ SampleBytes * Len(<<>>) + Len(<<>>) = 0
    BY <1>1, <1>2, DecodeAssumption DEF First
  <2>4. First + worker.wrote = SampleBytes * Len(<<>>) + Len(<<>>) + Len(stdout') + 1
    BY <1>1, <2>2, <2>3
  <2>5. From(stdout', SampleBytes * Len(<<>>) + Len(<<>>)) /\ From(<<>>, SampleBytes * Len(<<>>))
    <3>1. \A k \in 1 .. Len(stdout') : stdout'[k] = 0 + k
      BY <1>1, <2>2
    <3>. QED  BY <2>3, <3>1 DEF From
  <2>6. \A i \in 1 .. Len(<<>>) : <<>>[i] = SampleAt(i)
    OBVIOUS
  <2>. QED  BY <1>1, <1>2, <2>1, <2>2, <2>4, <2>5, <2>6, ReadingKeepsInv
<1>4. CASE Drains(<<>>, "invalid") /\ UNCHANGED stdout
  <2> PICK out \in Seq(Seq(Nat)) : out = <<>>
    BY <1>2
  <2>1. Drains(out, "invalid") /\ "invalid" \in Errors /\ "invalid" \notin {"none", "exceeded", "context", "internal"}
    BY <1>4 DEF Errors
  <2>2. stdout' \in Seq(Nat) /\ \A i \in 1 .. Len(out) : out[i] = SampleAt(i)
    BY <1>1, <1>2, <1>4
  <2>. QED  BY <1>1, <2>1, <2>2, DrainsKeepsInv
<1>. QED  BY <1>3, <1>4 DEF ReadHead

(* A read: some bytes, the end, or a pipe that was closed meanwhile.       *)
LEMMA ReadKeepsInv == ASSUME AdInv, Read PROVE AdInv'
<1>1. /\ dec.at = "read" /\ dec.at \in Reading /\ UNCHANGED <<request, feed, stdin, worker, proc, ended, watch, open>>
      /\ dec.out \in Seq(Seq(Nat)) /\ dec.buf \in Seq(Nat) /\ stdout \in Seq(Nat)
      /\ \A i \in 1 .. Len(dec.out) : dec.out[i] = SampleAt(i)
  BY DEF Read, Reading, AdInv, AdTypeOK, StreamFits
<1> PICK p \in Nat : p = SampleBytes * Len(dec.out)
  BY GotIsNat
<1>2. First + worker.wrote = p + Len(dec.buf) + Len(stdout) + 1 /\ From(dec.buf, p) /\ From(stdout, p + Len(dec.buf))
  BY <1>1 DEF AdInv, StreamFits, Got
<1>3. ASSUME NEW n \in 1 .. Len(stdout), Converted(dec.buf \o SubSeq(stdout, 1, n), FALSE),
             stdout' = SubSeq(stdout, n + 1, Len(stdout))
      PROVE  AdInv'
  <2> PICK buf : buf = dec.buf \o SubSeq(stdout, 1, n)
    OBVIOUS
  <2>1. /\ buf \in Seq(Nat) /\ Len(buf) = Len(dec.buf) + n /\ From(buf, p)
        /\ stdout' \in Seq(Nat) /\ Len(stdout') = Len(stdout) - n /\ From(stdout', p + Len(buf))
    <3> PICK b \in Seq(Nat) : b = dec.buf
      BY <1>1
    <3> PICK s \in Seq(Nat) : s = stdout
      BY <1>1
    <3> PICK r : r = SubSeq(s, n + 1, Len(s))
      OBVIOUS
    <3>1. From(b, p) /\ From(s, p + Len(b)) /\ n \in 1 .. Len(s) /\ buf = b \o SubSeq(s, 1, n)
      BY <1>2
    <3>2. /\ buf \in Seq(Nat) /\ Len(buf) = Len(b) + n /\ From(buf, p)
          /\ r \in Seq(Nat) /\ Len(r) = Len(s) - n /\ From(r, p + Len(buf))
      BY ONLY <3>1, p \in Nat, b \in Seq(Nat), s \in Seq(Nat), r = SubSeq(s, n + 1, Len(s)), PiecesAreTaken
    <3>. QED  BY <1>3, <3>2
  <2>2. First + worker.wrote = p + Len(buf) + Len(stdout') + 1
    <3>1. Len(dec.buf) \in Nat /\ Len(stdout) \in Nat /\ n \in Nat
      BY <1>1
    <3>. QED  BY <1>2, <2>1, <3>1
  <2>3. Converted(buf, FALSE)
    BY <1>3
  <2>. QED  BY <1>1, <2>1, <2>2, <2>3, ConvertedKeepsInv
<1>4. CASE open /\ AtEnd /\ Converted(dec.buf, TRUE) /\ UNCHANGED stdout
  <2>1. stdout' = <<>> /\ stdout' = stdout
    BY <1>4 DEF AtEnd
  <2>. QED  BY <1>1, <1>2, <1>4, <2>1, ConvertedKeepsInv
<1>5. CASE ~open /\ Drains(dec.out, IF request.split THEN "invalid" ELSE "internal") /\ UNCHANGED stdout
  <2> PICK err : err = IF request.split THEN "invalid" ELSE "internal"
    OBVIOUS
  <2>1. err \in Errors /\ err \in {"invalid", "internal"} /\ Drains(dec.out, err)
    BY <1>5 DEF Errors
  <2>2. ended # "no"
    BY <1>1, <1>5 DEF AdInv, EndFits
  <2>. QED  BY <1>1, <1>5, <2>1, <2>2, DrainsKeepsInv
<1>. QED  BY <1>3, <1>4, <1>5 DEF Read

(* Later stages change nothing but themselves.                             *)
LEMMA LaterKeepsInv ==
    ASSUME AdInv, dec.at \in {"drain", "wait"}, NEW at \in {"drain", "wait"}, dec' = [dec EXCEPT !.at = at],
           stdout' \in Seq(Nat), UNCHANGED <<request, feed, stdin, worker, proc, ended, watch, open>>
    PROVE  AdInv'
<1>2. /\ dec'.at = at /\ dec'.out = dec.out /\ dec'.err = dec.err
      /\ dec' \in [at : Stages, buf : Seq(Nat), out : Seq(Seq(Nat)), err : Errors, failed : BOOLEAN,
                   answer : {"none", "no", "deadline", "canceled", "unsupported", "silent", "ok"} \cup Errors]
  BY DEF AdInv, AdTypeOK, Stages
<1>3. AdTypeOK' /\ FeedFits'
  BY <1>2 DEF AdInv, AdTypeOK, FeedFits
<1>4. StreamFits'
  BY <1>2 DEF AdInv, StreamFits, First, All, SampleAt
<1>5. EndFits' /\ VerdictFits'
  BY <1>2 DEF AdInv, EndFits, VerdictFits, First, All, Reading
<1>6. AnswersAreTrue'
  BY <1>2 DEF AnswersAreTrue
<1>. QED  BY <1>3, <1>4, <1>5, <1>6 DEF AdInv

(* What is left is read, so that the program can end.                      *)
LEMMA DrainKeepsInv == ASSUME AdInv, Drain PROVE AdInv'
<1>1. CASE AtEnd \/ ~open
  BY <1>1, LaterKeepsInv DEF Drain
<1>2. CASE ~(AtEnd \/ ~open)
  <2>1. dec' = [dec EXCEPT !.at = "drain"]
    BY <1>2 DEF Drain, AdInv, AdTypeOK
  <2>. QED  BY <2>1, LaterKeepsInv DEF Drain
<1>. QED  BY <1>1, <1>2

(* The program has gone, and our ends of the pipes are closed.             *)
LEMMA WaitKeepsInv == ASSUME AdInv, Wait PROVE AdInv'
<1>1. /\ dec.at = "wait" /\ proc # "run" /\ watch' = "over" /\ open' = FALSE
      /\ UNCHANGED <<request, feed, stdin, worker, proc, stdout, ended>>
  BY DEF Wait
<1> PICK late \in BOOLEAN : (late => watch = "killed") /\
                            dec' = [dec EXCEPT !.at = "feed", !.failed = proc # "ok" \/ Works \/ late]
  BY DEF Wait
<1> PICK failed \in BOOLEAN : failed <=> (proc # "ok" \/ Works \/ late)
  OBVIOUS
<1>2. dec' = [dec EXCEPT !.at = "feed", !.failed = failed]
  OBVIOUS
<1>3. /\ dec'.at = "feed" /\ dec'.out = dec.out /\ dec'.err = dec.err /\ dec'.failed = failed
      /\ dec' \in [at : Stages, buf : Seq(Nat), out : Seq(Seq(Nat)), err : Errors, failed : BOOLEAN,
                   answer : {"none", "no", "deadline", "canceled", "unsupported", "silent", "ok"} \cup Errors]
  BY <1>2 DEF AdInv, AdTypeOK, Stages
<1>4. AdTypeOK' /\ FeedFits'
  BY <1>1, <1>3 DEF AdInv, AdTypeOK, FeedFits
<1>5. StreamFits'
  BY <1>1, <1>3 DEF AdInv, StreamFits, First, All, SampleAt
<1>6. worker.at = "run" => ended # "no"
  BY <1>1 DEF AdInv, AdTypeOK, EndFits, Ends
<1>7. EndFits'
  BY <1>1, <1>3, <1>6 DEF AdInv, EndFits, First, All
<1>8. failed /\ ended = "no" => ~request.input.sound \/ feed.short
  BY <1>1, <1>6 DEF AdInv, AdTypeOK, EndFits, Works, Ends
<1>9. VerdictFits'
  BY <1>1, <1>3, <1>8 DEF AdInv, VerdictFits, Reading
<1>10. AnswersAreTrue'
  BY <1>3 DEF AnswersAreTrue
<1>. QED  BY <1>4, <1>5, <1>7, <1>9, <1>10 DEF AdInv

(* The feeder has gone too: the answer.                                    *)
LEMMA FeedWaitKeepsInv == ASSUME AdInv, FeedWait PROVE AdInv'
<1>1. /\ dec.at = "feed" /\ feed.at = "done" /\ dec' = [dec EXCEPT !.at = "done", !.answer = Answer]
      /\ UNCHANGED <<request, feed, stdin, worker, proc, stdout, ended, watch, open>>
  BY DEF FeedWait
<1> PICK answer : answer = Answer
  OBVIOUS
<1>2. answer \in {"none", "no", "deadline", "canceled", "unsupported", "silent", "ok"} \cup Errors
  BY DEF Answer, AdInv, AdTypeOK, Errors
<1>3. /\ dec'.at = "done" /\ dec'.out = dec.out /\ dec'.err = dec.err /\ dec'.failed = dec.failed /\ dec'.answer = answer
      /\ dec' \in [at : Stages, buf : Seq(Nat), out : Seq(Seq(Nat)), err : Errors, failed : BOOLEAN,
                   answer : {"none", "no", "deadline", "canceled", "unsupported", "silent", "ok"} \cup Errors]
  BY <1>1, <1>2 DEF AdInv, AdTypeOK, Stages
<1>4. AdTypeOK' /\ FeedFits'
  BY <1>1, <1>3 DEF AdInv, AdTypeOK, FeedFits
<1>5. StreamFits'
  BY <1>1, <1>3 DEF AdInv, StreamFits, First, All, SampleAt
<1>6. EndFits' /\ VerdictFits'
  BY <1>1, <1>3 DEF AdInv, EndFits, VerdictFits, First, All, Reading
<1>7. AnswersAreTrue'
  <2> SUFFICES ASSUME ~feed.short
               PROVE  /\ answer = "ok" => /\ request.input.sound /\ dec.out = Samples /\ Len(Samples) <= request.limit
                      /\ answer = "exceeded" => request.input.samples > request.limit
                      /\ answer = "unsupported" => ~request.input.sound
                      /\ answer \in {"deadline", "canceled"} => ended = answer
                      /\ answer = "internal" => ended # "no"
    BY <1>1, <1>3 DEF AnswersAreTrue, Samples
  <2>1. dec.err \in Errors /\ ended \in {"no", "deadline", "canceled"}
    BY DEF AdInv, AdTypeOK
  <2>2. answer = "exceeded" => dec.err = "exceeded"
    BY <2>1 DEF Answer, Errors
  <2>3. answer = "internal" => dec.err = "internal"
    BY <2>1 DEF Answer, Errors
  <2>4. answer = "unsupported" => dec.err = "none" /\ dec.failed /\ ended = "no"
    BY <2>1 DEF Answer, Errors
  <2>5. answer \in {"deadline", "canceled"} => ended = answer
    BY <2>1 DEF Answer, Errors
  <2>6. answer = "ok" => dec.err = "none" /\ ~dec.failed
    BY <2>1 DEF Answer, Errors
  <2>7. ASSUME answer = "ok"
        PROVE  request.input.sound /\ dec.out = Samples /\ Len(Samples) <= request.limit
    <3>1. proc = "ok" /\ worker.at = "ok" /\ request.input.sound
      BY <1>1, <2>6, <2>7 DEF AdInv, VerdictFits, EndFits
    <3>2. Len(dec.out) = request.input.samples /\ Len(dec.out) <= request.limit
      BY <1>1, <2>6, <2>7, <3>1 DEF AdInv, VerdictFits, Reading
    <3>3. dec.out \in Seq(Seq(Nat)) /\ \A i \in 1 .. Len(dec.out) : dec.out[i] = SampleAt(i)
      BY DEF AdInv, AdTypeOK, StreamFits
    <3> PICK n \in Nat : n = request.input.samples
      BY FileFits
    <3>4. dec.out = [i \in 1 .. n |-> SampleAt(i)]
      <4>1. Len(dec.out) = n
        BY <3>2
      <4>2. dec.out = [i \in 1 .. Len(dec.out) |-> dec.out[i]]
        BY ONLY <3>3
      <4>. QED  BY ONLY <3>3, <4>1, <4>2
    <3>5. dec.out = Samples
      BY <3>4 DEF Samples, SampleAt
    <3>. QED  BY <3>1, <3>2, <3>5
  <2>. QED  BY <1>1, <2>2, <2>3, <2>4, <2>5, <2>7 DEF AdInv, VerdictFits
<1>. QED  BY <1>4, <1>5, <1>6, <1>7 DEF AdInv

-----------------------------------------------------------------------------
(* Theorems.                                                               *)

(* Nothing has been fed, written or read.                                  *)
LEMMA AdInvInit == AdInit => AdInv
<1> SUFFICES ASSUME AdInit PROVE AdInv
  OBVIOUS
<1> PICK input \in Inputs : input = request.input
  BY DEF AdInit, Decodings
<1>1. input.blocks \in Nat /\ input.samples \in Nat
  BY DecodeAssumption
<1>2. /\ request \in Decodings /\ feed = [at |-> "reads", left |-> input.blocks, short |-> FALSE]
      /\ stdin = [held |-> 0, closed |-> FALSE] /\ worker = [at |-> "run", took |-> 0, wrote |-> 0]
      /\ proc = "run" /\ stdout = <<>> /\ ended = "no" /\ watch = "waits" /\ open = TRUE
      /\ dec.at \in {"head", "check"} /\ dec.buf = <<>> /\ dec.out = <<>> /\ dec.err = "none"
      /\ (dec.at = "head") <=> request.split
      /\ dec \in [at : Stages, buf : {<<>>}, out : {<<>>}, err : Errors, failed : BOOLEAN, answer : {"none"}]
  BY DEF AdInit, Stages, Reading, Errors
<1>3. <<>> \in Seq(Nat) /\ <<>> \in Seq(Seq(Nat)) /\ Len(<<>>) = 0
  OBVIOUS
<1>4. AdTypeOK
  <2>1. dec \in [at : Stages, buf : Seq(Nat), out : Seq(Seq(Nat)), err : Errors, failed : BOOLEAN,
                 answer : {"none", "no", "deadline", "canceled", "unsupported", "silent", "ok"} \cup Errors]
    BY <1>2, <1>3
  <2>. QED  BY <1>1, <1>2, <1>3, <2>1 DEF AdTypeOK, Ends
<1>5. FeedFits
  BY <1>1, <1>2 DEF FeedFits
<1>6. StreamFits
  <2>1. All \in Nat
    BY <1>1, DecodeAssumption DEF All
  <2>2. SampleBytes * 0 = 0
    BY DecodeAssumption
  <2>3. Got = 0 /\ First \in {0, 1} /\ (First = 0 <=> request.split)
    BY <1>2, <1>3, <2>2 DEF Got, First
  <2>. QED  BY <1>2, <1>3, <2>1, <2>3 DEF StreamFits, From
<1>7. EndFits /\ VerdictFits /\ AnswersAreTrue
  BY <1>2 DEF EndFits, VerdictFits, AnswersAreTrue, Reading
<1>. QED  BY <1>4, <1>5, <1>6, <1>7 DEF AdInv

(* In every behaviour, each byte and each block is somewhere.              *)
THEOREM AudioInvariant == AdSpec => []AdInv
<1>1. ASSUME AdInv, UNCHANGED advars PROVE AdInv'
  <2>1. UNCHANGED <<request, feed, stdin, worker, proc, stdout, ended, watch, open, dec>>
    BY <1>1 DEF advars
  <2>2. AdTypeOK' /\ FeedFits'
    BY <1>1, <2>1 DEF AdInv, AdTypeOK, FeedFits
  <2>3. StreamFits'
    BY <1>1, <2>1 DEF AdInv, StreamFits, All, Got, First, From, SampleAt
  <2>4. EndFits' /\ VerdictFits'
    BY <1>1, <2>1 DEF AdInv, EndFits, VerdictFits, First, All
  <2>5. AnswersAreTrue'
    BY <1>1, <2>1, AnswersStay DEF AdInv
  <2>. QED  BY <2>2, <2>3, <2>4, <2>5 DEF AdInv
<1>2. ASSUME AdInv, AdNext PROVE AdInv'
  BY <1>2, WorkerTakesKeepsInv, WorkerWritesKeepsInv, WorkerEndsKeepsInv, WrapperExitsKeepsInv, FeedKeepsInv,
     EndingKeepsInv, CheckKeepsInv, ReadHeadKeepsInv, ReadKeepsInv, DrainKeepsInv, WaitKeepsInv, FeedWaitKeepsInv
     DEF AdNext, Decode
<1>. QED  BY <1>1, <1>2, AdInvInit, PTL DEF AdSpec

(* ffmpeg.go 203-231 and 281-315: audio that is given is all of the file's, *)
(* and a refusal says what happened, whatever pieces the bytes come in, who *)
(* stops early and how large samples, pipes and files are.                 *)
THEOREM AudioAnswersAreTrue == AdSpec => []AnswersAreTrue
<1>1. AdInv => AnswersAreTrue
  BY DEF AdInv
<1>. QED  BY <1>1, AudioInvariant, PTL

(* When a decode has come back, the program it started has gone, nobody    *)
(* feeds it and no pipe is left open.                                      *)
THEOREM DecodeLeavesNothing == AdSpec => [](dec.at = "done" => proc # "run" /\ feed.at = "done" /\ ~open)
<1>1. AdInv => (dec.at = "done" => proc # "run" /\ feed.at = "done" /\ ~open)
  BY DEF AdInv, VerdictFits
<1>. QED  BY <1>1, AudioInvariant, PTL

-----------------------------------------------------------------------------
(* Downloads.                                                              *)

InTable == InWork \cup {"waiting", "leaving"}
Working == {d \in Download : dl[d].pc \in InWork}

DownloadRecord ==
    [m : Offered \cup {Nobody}, pc : InTable \cup {"unused", "left", "closing", "over", "lost"}, cancelled : BOOLEAN, failed : BOOLEAN,
     seen : SUBSET Offered, subs : SUBSET Asker]

AskerRecord ==
    [pc : {"idle", "ensuring", "fetching", "waiting", "joining", "watching"},
     m : Offered \cup {Nobody}, d : Download \cup {Nobody}]

DlTypeOK ==
    /\ dl \in [Download -> DownloadRecord]
    /\ inflight \in [Offered -> Download \cup {Nobody}]
    /\ slots \in Nat
    /\ asker \in [Asker -> AskerRecord]

(* The table: a download from its begin to its leaving is the one of its   *)
(* model, and there is no other entry.                                     *)
TableFits ==
    /\ \A d \in Download : dl[d].pc \in InTable => dl[d].m \in Offered /\ inflight[dl[d].m] = d
    /\ \A m \in Offered : inflight[m] # Nobody => dl[inflight[m]].pc \in InTable /\ dl[inflight[m]].m = m

AskersFit == \A c \in Asker : asker[c].pc \in {"ensuring", "fetching"} => asker[c].m \in Offered

DlInv == DlTypeOK /\ TableFits /\ AskersFit /\ SlotsExact /\ CancelledIsReported

(* One download moves on, and the slots move with it.                      *)
LEMMA DownloadMovesOn ==
    ASSUME DlInv, NEW d \in Download, NEW r \in DownloadRecord, dl' = [dl EXCEPT ![d] = r],
           inflight' = inflight, asker' = asker,
           dl[d].pc \in InTable <=> r.pc \in InTable,
           r.pc \in InTable => r.m = dl[d].m,
           (r.pc \in {"left", "closing"} /\ r.cancelled) => r.failed,
           \/ slots' = slots /\ (dl[d].pc \in InWork <=> r.pc \in InWork)
           \/ slots' = slots + 1 /\ slots < Concurrency /\ dl[d].pc \notin InWork /\ r.pc \in InWork
           \/ slots' = slots - 1 /\ dl[d].pc \in InWork /\ r.pc \notin InWork
    PROVE  DlInv'
<1>1. /\ dl' \in [Download -> DownloadRecord] /\ dl'[d] = r
      /\ \A e \in Download : e # d => dl'[e] = dl[e]
      /\ dl \in [Download -> DownloadRecord] /\ slots \in Nat
  BY DEF DlInv, DlTypeOK
<1>2. TableFits'
  <2>1. ASSUME NEW e \in Download, dl'[e].pc \in InTable
        PROVE  dl'[e].m \in Offered /\ inflight[dl'[e].m] = e
    BY <1>1, <2>1 DEF DlInv, TableFits
  <2>2. ASSUME NEW m \in Offered, inflight[m] # Nobody
        PROVE  dl'[inflight[m]].pc \in InTable /\ dl'[inflight[m]].m = m
    <3>1. inflight[m] \in Download /\ dl[inflight[m]].pc \in InTable /\ dl[inflight[m]].m = m
      BY <2>2 DEF DlInv, DlTypeOK, TableFits
    <3>. QED  BY <1>1, <3>1
  <2>. QED  BY <2>1, <2>2 DEF TableFits
<1>3. CancelledIsReported'
  BY <1>1 DEF DlInv, CancelledIsReported
<1>4. AskersFit'
  BY DEF DlInv, AskersFit
<1>5. IsFiniteSet(Working) /\ Cardinality(Working) = slots /\ slots <= Concurrency
  <2>1. IsFiniteSet(Working)
    BY DownloadsAssumption, FS_Subset DEF Working
  <2>. QED  BY <2>1 DEF DlInv, SlotsExact, Working
<1>6. slots' \in Nat /\ Cardinality(Working') = slots' /\ slots' <= Concurrency
  <2>1. CASE slots' = slots /\ (dl[d].pc \in InWork <=> r.pc \in InWork)
    <3>1. Working' = Working
      BY <1>1, <2>1 DEF Working
    <3>. QED  BY <1>1, <1>5, <2>1, <3>1
  <2>2. CASE slots' = slots + 1 /\ slots < Concurrency /\ dl[d].pc \notin InWork /\ r.pc \in InWork
    <3>1. Working' = Working \cup {d} /\ d \notin Working
      BY <1>1, <2>2 DEF Working
    <3>2. Cardinality(Working \cup {d}) = Cardinality(Working) + 1
      BY <1>5, <3>1, FS_AddElement
    <3>. QED  BY <1>1, <1>5, <2>2, <3>1, <3>2, DownloadsAssumption
  <2>3. CASE slots' = slots - 1 /\ dl[d].pc \in InWork /\ r.pc \notin InWork
    <3>1. Working' = Working \ {d} /\ d \in Working
      BY <1>1, <2>3 DEF Working
    <3>2. Cardinality(Working \ {d}) = Cardinality(Working) - 1 /\ IsFiniteSet(Working \ {d})
      BY <1>5, <3>1, FS_RemoveElement
    <3>3. Cardinality(Working \ {d}) \in Nat
      BY <3>2, FS_CardinalityType
    <3>. QED  BY <1>1, <1>5, <2>3, <3>1, <3>2, <3>3, DownloadsAssumption
  <2>. QED  BY <2>1, <2>2, <2>3
<1>7. DlTypeOK'
  BY <1>1, <1>6 DEF DlInv, DlTypeOK
<1>8. SlotsExact'
  BY <1>6 DEF SlotsExact, Working
<1>. QED  BY <1>2, <1>3, <1>4, <1>7, <1>8 DEF DlInv

(* Nothing that the invariant speaks of moves.                             *)
LEMMA DownloadsAtRest ==
    ASSUME DlInv, dl' = dl, inflight' = inflight, slots' = slots, asker' = asker
    PROVE  DlInv'
BY DEF DlInv, DlTypeOK, TableFits, AskersFit, SlotsExact, CancelledIsReported

(* A caller that comes, goes or waits.                                     *)
LEMMA AskerMovesOn ==
    ASSUME DlInv, NEW c \in Asker, NEW r \in AskerRecord, asker' = [asker EXCEPT ![c] = r],
           r.pc \in {"ensuring", "fetching"} => r.m \in Offered
    PROVE  AskersFit' /\ asker' \in [Asker -> AskerRecord]
BY DEF DlInv, DlTypeOK, AskersFit

(* A step of a caller alone leaves table, downloads and slots as they are. *)
LEMMA AskerAlone ==
    ASSUME DlInv, AskersFit', asker' \in [Asker -> AskerRecord], dl' = dl, inflight' = inflight, slots' = slots
    PROVE  DlInv'
BY DEF DlInv, DlTypeOK, TableFits, SlotsExact, CancelledIsReported

(* A download nobody has begun is one.                                     *)
LEMMA NoDownloadIs == NoDownload \in DownloadRecord
BY DEF NoDownload, DownloadRecord

(* At the start nothing is downloaded.                                     *)
LEMMA DlInvInit == DlInit => DlInv
<1> SUFFICES ASSUME DlInit PROVE DlInv
  OBVIOUS
<1>1. /\ inflight = [m \in Offered |-> Nobody] /\ slots = 0 /\ dl = [d \in Download |-> NoDownload]
      /\ asker = [c \in Asker |-> NotAsking]
  BY DEF DlInit
<1>2. NoDownload \in DownloadRecord /\ NotAsking \in AskerRecord
  BY DEF NoDownload, DownloadRecord, NotAsking, AskerRecord
<1>3. NoDownload.pc = "unused" /\ NotAsking.pc = "idle"
  BY DEF NoDownload, NotAsking
<1>4. DlTypeOK
  BY <1>1, <1>2 DEF DlTypeOK
<1>5. TableFits
  BY <1>1, <1>3 DEF TableFits, InTable, InWork
<1>6. AskersFit
  BY <1>1, <1>3 DEF AskersFit
<1>7. Working = {}
  BY <1>1, <1>3 DEF Working, InWork
<1>8. SlotsExact
  <2>1. Cardinality(Working) = 0
    BY <1>7, FS_EmptySet
  <2>2. 0 <= Concurrency
    BY DownloadsAssumption
  <2>. QED  BY <1>1, <2>1, <2>2 DEF SlotsExact, Working
<1>9. CancelledIsReported
  BY <1>1, <1>3 DEF CancelledIsReported
<1>. QED  BY <1>4, <1>5, <1>6, <1>8, <1>9 DEF DlInv

(* A caller joins the download of its model; without one it starts one.    *)
LEMMA BeginKeepsInv == ASSUME DlInv, NEW c \in Asker, Begin(c) PROVE DlInv'
<1> DEFINE m == asker[c].m
<1>1. m \in Offered /\ asker[c] \in AskerRecord /\ slots' = slots
  BY DEF Begin, DlInv, DlTypeOK, AskersFit
<1>2. PICK d \in Download :
        /\ IF inflight[m] # Nobody THEN d = inflight[m] /\ UNCHANGED <<dl, inflight>>
           ELSE /\ Fresh(d)
                /\ dl' = [dl EXCEPT ![d] = [NoDownload EXCEPT !.m = m, !.pc = "waiting"]]
                /\ inflight' = [inflight EXCEPT ![m] = d]
        /\ asker' = [asker EXCEPT ![c] =
             [asker[c] EXCEPT !.pc = IF @ = "ensuring" THEN "waiting" ELSE "joining", !.d = d]]
  BY DEF Begin, AskerIs
<1> HIDE DEF m
<1>3. AskersFit' /\ asker' \in [Asker -> AskerRecord]
  <2> DEFINE r == [asker[c] EXCEPT !.pc = IF @ = "ensuring" THEN "waiting" ELSE "joining", !.d = d]
  <2>1. r \in AskerRecord /\ r.pc \in {"waiting", "joining"}
    BY <1>1 DEF AskerRecord
  <2>2. asker' = [asker EXCEPT ![c] = r]
    BY <1>2
  <2> HIDE DEF r
  <2>. QED  BY <2>1, <2>2, AskerMovesOn
<1>4. CASE inflight[m] # Nobody
  <2>1. dl' = dl /\ inflight' = inflight
    BY <1>2, <1>4
  <2>. QED  BY <1>1, <1>3, <2>1, AskerAlone
<1>5. CASE inflight[m] = Nobody
  <2>1. /\ dl[d].pc = "unused" /\ inflight' = [inflight EXCEPT ![m] = d]
        /\ dl' = [dl EXCEPT ![d] = [NoDownload EXCEPT !.m = m, !.pc = "waiting"]]
    BY <1>2, <1>5 DEF Fresh
  <2>2. PICK r \in DownloadRecord : /\ r = [NoDownload EXCEPT !.m = m, !.pc = "waiting"]
                                    /\ r.m = m /\ r.pc = "waiting"
    <3>1. "waiting" \in InTable
      BY DEF InTable
    <3>2. PICK n \in DownloadRecord : n = NoDownload
      BY NoDownloadIs
    <3>3. ASSUME NEW q, q = [n EXCEPT !.m = m, !.pc = "waiting"]
          PROVE  q \in DownloadRecord /\ q.m = m /\ q.pc = "waiting"
      BY <1>1, <3>1, <3>3 DEF DownloadRecord
    <3>. QED  BY <3>2, <3>3
  <2>3. /\ dl' \in [Download -> DownloadRecord] /\ dl'[d] = r
        /\ \A e \in Download : e # d => dl'[e] = dl[e]
        /\ inflight' \in [Offered -> Download \cup {Nobody}] /\ inflight'[m] = d
        /\ \A n \in Offered : n # m => inflight'[n] = inflight[n]
    BY <1>1, <2>1, <2>2 DEF DlInv, DlTypeOK
  <2>4. TableFits'
    <3>1. "waiting" \in InTable /\ "unused" \notin InTable
      BY DEF InTable, InWork
    <3>2. ASSUME NEW e \in Download, dl'[e].pc \in InTable
          PROVE  dl'[e].m \in Offered /\ inflight'[dl'[e].m] = e
      <4>1. CASE e = d
        BY <1>1, <2>2, <2>3, <4>1
      <4>2. CASE e # d
        <5>1. dl[e].m \in Offered /\ inflight[dl[e].m] = e
          BY <2>3, <3>2, <4>2 DEF DlInv, TableFits
        <5>. QED  BY <1>5, <2>3, <4>2, <5>1, DownloadsAssumption
      <4>. QED  BY <4>1, <4>2
    <3>3. ASSUME NEW n \in Offered, inflight'[n] # Nobody
          PROVE  dl'[inflight'[n]].pc \in InTable /\ dl'[inflight'[n]].m = n
      <4>1. CASE n = m
        BY <2>2, <2>3, <3>1, <4>1
      <4>2. CASE n # m
        <5>1. inflight[n] \in Download /\ dl[inflight[n]].pc \in InTable /\ dl[inflight[n]].m = n
          BY <2>3, <3>3, <4>2 DEF DlInv, DlTypeOK, TableFits
        <5>2. inflight[n] # d
          BY <2>1, <3>1, <5>1
        <5>. QED  BY <2>3, <4>2, <5>1, <5>2
      <4>. QED  BY <4>1, <4>2
    <3>. QED  BY <3>2, <3>3 DEF TableFits
  <2>5. Working' = Working
    BY <2>1, <2>2, <2>3 DEF Working, InWork
  <2>6. SlotsExact'
    BY <1>1, <2>5 DEF DlInv, SlotsExact, Working
  <2>7. CancelledIsReported'
    BY <2>2, <2>3 DEF DlInv, CancelledIsReported
  <2>8. DlTypeOK'
    BY <1>1, <1>3, <2>3 DEF DlInv, DlTypeOK
  <2>. QED  BY <1>3, <2>4, <2>6, <2>7, <2>8 DEF DlInv
<1>. QED  BY <1>4, <1>5

(* The steps of one download, each with what it does to the slots.         *)
LEMMA DownloadKeepsInv == ASSUME DlInv, NEW d \in Download, DownloadSteps(d) PROVE DlInv'
<1> DEFINE x == dl[d]
<1>1. x \in DownloadRecord /\ asker' = asker
  BY DEF DlInv, DlTypeOK, DownloadSteps, OnlyDownload, TakeSlot, NeverStarts, Fetched, FetchFails, ClearTarget,
         RenameTarget, WriteManifest, RefreshScans, RefreshInstalls, LookUp, FreeSlot, LeaveTable,
         CloseSubscriptions, Finish
<1>2. ASSUME TakeSlot(d) PROVE DlInv'
  <2> DEFINE r == [x EXCEPT !.pc = "fetching"]
  <2>1. /\ x.pc = "waiting" /\ slots' = slots + 1 /\ slots < Concurrency /\ inflight' = inflight
        /\ dl' = [dl EXCEPT ![d] = r]
    BY <1>2 DEF TakeSlot, DownloadIs
  <2>2. r \in DownloadRecord /\ r.pc = "fetching" /\ r.m = x.m
    BY <1>1 DEF DownloadRecord, InTable, InWork
  <2> HIDE DEF r
  <2>3. x.pc \in InTable /\ x.pc \notin InWork /\ r.pc \in InTable /\ r.pc \in InWork
    BY <2>1, <2>2 DEF InTable, InWork
  <2>. QED  BY <1>1, <2>1, <2>2, <2>3, DownloadMovesOn
<1>3. ASSUME FreeSlot(d) PROVE DlInv'
  <2> DEFINE r == [x EXCEPT !.pc = "leaving"]
  <2>1. x.pc = "freeing" /\ slots' = slots - 1 /\ inflight' = inflight /\ dl' = [dl EXCEPT ![d] = r]
    BY <1>3 DEF FreeSlot, DownloadIs
  <2>2. r \in DownloadRecord /\ r.pc = "leaving" /\ r.m = x.m
    BY <1>1 DEF DownloadRecord, InTable
  <2> HIDE DEF r
  <2>3. x.pc \in InTable /\ x.pc \in InWork /\ r.pc \in InTable /\ r.pc \notin InWork
    BY <2>1, <2>2 DEF InTable, InWork
  <2>. QED  BY <1>1, <2>1, <2>2, <2>3, DownloadMovesOn
<1>4. ASSUME NeverStarts(d) PROVE DlInv'
  <2> DEFINE r == [x EXCEPT !.pc = "leaving", !.failed = TRUE]
  <2>1. x.pc = "waiting" /\ slots' = slots /\ inflight' = inflight /\ dl' = [dl EXCEPT ![d] = r]
    BY <1>4 DEF NeverStarts, DownloadIs
  <2>2. r \in DownloadRecord /\ r.pc = "leaving" /\ r.m = x.m
    BY <1>1 DEF DownloadRecord, InTable
  <2> HIDE DEF r
  <2>3. x.pc \in InTable /\ x.pc \notin InWork /\ r.pc \in InTable /\ r.pc \notin InWork
    BY <2>1, <2>2 DEF InTable, InWork
  <2>. QED  BY <1>1, <2>1, <2>2, <2>3, DownloadMovesOn
<1>5. ASSUME NEW r \in DownloadRecord, x.pc \in InWork, r.pc \in InWork, r.m = x.m,
             dl' = [dl EXCEPT ![d] = r], inflight' = inflight, slots' = slots
      PROVE  DlInv'
  <2>1. x.pc \in InTable /\ r.pc \in InTable /\ r.pc \notin {"left", "closing"}
    BY <1>5 DEF InTable, InWork
  <2>. QED  BY <1>1, <1>5, <2>1, DownloadMovesOn
<1>6. ASSUME Fetched(d) \/ FetchFails(d) \/ ClearTarget(d) \/ RenameTarget(d) PROVE DlInv'
  <2>1. PICK pc \in {"unpacked", "freeing", "cleared", "installed"}, bad \in BOOLEAN :
          dl' = [dl EXCEPT ![d] = [x EXCEPT !.pc = pc, !.failed = bad]]
    <3>1. CASE Fetched(d)
      <4>1. [x EXCEPT !.pc = "unpacked"] = [x EXCEPT !.pc = "unpacked", !.failed = x.failed]
        BY <1>1 DEF DownloadRecord
      <4>. QED  BY <1>1, <3>1, <4>1 DEF Fetched, DownloadIs, DownloadRecord
    <3>2. CASE FetchFails(d)
      BY <3>2 DEF FetchFails, DownloadIs
    <3>3. CASE ClearTarget(d)
      <4>1. [x EXCEPT !.pc = "cleared"] = [x EXCEPT !.pc = "cleared", !.failed = x.failed]
        BY <1>1 DEF DownloadRecord
      <4>. QED  BY <1>1, <3>3, <4>1 DEF ClearTarget, DownloadIs, DownloadRecord
    <3>4. CASE RenameTarget(d)
      <4>1. [x EXCEPT !.pc = "installed"] = [x EXCEPT !.pc = "installed", !.failed = x.failed]
        BY <1>1 DEF DownloadRecord
      <4>. QED  BY <1>1, <3>4, <4>1 DEF RenameTarget, DownloadIs, DownloadRecord
    <3>. QED  BY <1>6, <3>1, <3>2, <3>3, <3>4
  <2>2. x.pc \in InWork /\ inflight' = inflight /\ slots' = slots
    BY <1>6 DEF Fetched, FetchFails, MayFail, ClearTarget, RenameTarget, InWork
  <2> DEFINE r == [x EXCEPT !.pc = pc, !.failed = bad]
  <2>3. r.pc \in InWork /\ r.m = x.m
    BY <1>1 DEF DownloadRecord, InWork
  <2>4. r \in DownloadRecord
    BY <1>1, <2>3 DEF DownloadRecord, InTable
  <2>5. dl' = [dl EXCEPT ![d] = r]
    BY <2>1
  <2> HIDE DEF r
  <2>. QED  BY <1>5, <2>2, <2>3, <2>4, <2>5
<1>7. ASSUME WriteManifest(d) \/ LookUp(d) PROVE DlInv'
  <2>1. PICK pc \in {"described", "freeing"}, bad \in BOOLEAN :
          dl' = [dl EXCEPT ![d] = [x EXCEPT !.pc = pc, !.failed = bad]]
    BY <1>7 DEF WriteManifest, LookUp, DownloadIs
  <2>2. x.pc \in InWork /\ inflight' = inflight /\ slots' = slots
    BY <1>7 DEF WriteManifest, LookUp, InWork
  <2> DEFINE r == [x EXCEPT !.pc = pc, !.failed = bad]
  <2>3. r.pc \in InWork /\ r.m = x.m
    BY <1>1 DEF DownloadRecord, InWork
  <2>4. r \in DownloadRecord
    BY <1>1, <2>3 DEF DownloadRecord, InTable
  <2>5. dl' = [dl EXCEPT ![d] = r]
    BY <2>1
  <2> HIDE DEF r
  <2>. QED  BY <1>5, <2>2, <2>3, <2>4, <2>5
<1>8. ASSUME RefreshScans(d) \/ RefreshInstalls(d) PROVE DlInv'
  <2>1. PICK r \in DownloadRecord : r.pc \in InWork /\ r.m = x.m /\ dl' = [dl EXCEPT ![d] = r]
    <3>1. CASE RefreshInstalls(d)
      <4> DEFINE r == [x EXCEPT !.pc = "indexed", !.seen = {}]
      <4>1. r.pc \in InWork /\ r.m = x.m
        BY <1>1 DEF DownloadRecord, InWork
      <4>2. r \in DownloadRecord
        BY <1>1, <4>1 DEF DownloadRecord, InTable
      <4>3. dl' = [dl EXCEPT ![d] = r]
        BY <3>1 DEF RefreshInstalls, DownloadIs
      <4>. QED  BY <4>1, <4>2, <4>3
    <3>2. CASE RefreshScans(d) /\ (x.failed \/ x.cancelled)
      <4> DEFINE r == [x EXCEPT !.pc = "freeing", !.failed = TRUE]
      <4>1. r.pc \in InWork /\ r.m = x.m
        BY <1>1 DEF DownloadRecord, InWork
      <4>2. r \in DownloadRecord
        BY <1>1, <4>1 DEF DownloadRecord, InTable
      <4>3. dl' = [dl EXCEPT ![d] = r]
        BY <3>2 DEF RefreshScans, DownloadIs
      <4>. QED  BY <4>1, <4>2, <4>3
    <3>3. CASE RefreshScans(d) /\ ~(x.failed \/ x.cancelled)
      <4> DEFINE r == [x EXCEPT !.pc = "scanned", !.seen = Installed]
      <4>1. r.pc \in InWork /\ r.m = x.m
        BY <1>1 DEF DownloadRecord, InWork
      <4>2. r \in DownloadRecord
        BY <1>1, <4>1 DEF DownloadRecord, InTable, Installed
      <4>3. dl' = [dl EXCEPT ![d] = r]
        BY <3>3 DEF RefreshScans, DownloadIs
      <4>. QED  BY <4>1, <4>2, <4>3
    <3>. QED  BY <1>8, <3>1, <3>2, <3>3
  <2>2. x.pc \in InWork /\ inflight' = inflight /\ slots' = slots
    BY <1>8 DEF RefreshScans, RefreshInstalls, InWork
  <2>. QED  BY <1>5, <2>1, <2>2
<1>9. ASSUME CloseSubscriptions(d) PROVE DlInv'
  <2> DEFINE r == [x EXCEPT !.pc = "closing"]
  <2>1. x.pc = "left" /\ slots' = slots /\ inflight' = inflight /\ dl' = [dl EXCEPT ![d] = r]
    BY <1>9 DEF CloseSubscriptions, DownloadIs
  <2>2. r \in DownloadRecord /\ r.pc = "closing" /\ r.cancelled = x.cancelled /\ r.failed = x.failed
    BY <1>1 DEF DownloadRecord
  <2> HIDE DEF r
  <2>3. /\ x.pc \notin InTable /\ x.pc \notin InWork /\ r.pc \notin InTable /\ r.pc \notin InWork
    BY <2>1, <2>2 DEF InTable, InWork
  <2>4. x.cancelled => x.failed
    BY <2>1 DEF DlInv, CancelledIsReported
  <2>. QED  BY <1>1, <2>1, <2>2, <2>3, <2>4, DownloadMovesOn
<1>10. ASSUME Finish(d) PROVE DlInv'
  <2> DEFINE r == [NoDownload EXCEPT !.pc = "over"]
  <2>1. x.pc = "closing" /\ slots' = slots /\ inflight' = inflight /\ dl' = [dl EXCEPT ![d] = r]
    BY <1>10 DEF Finish, DownloadIs
  <2>2. r \in DownloadRecord /\ r.pc = "over"
    <3>1. PICK n \in DownloadRecord : n = NoDownload
      BY NoDownloadIs
    <3>2. ASSUME NEW q, q = [n EXCEPT !.pc = "over"]
          PROVE  q \in DownloadRecord /\ q.pc = "over"
      BY <3>2 DEF DownloadRecord
    <3>. QED  BY <3>1, <3>2
  <2> HIDE DEF r
  <2>3. x.pc \notin InTable /\ x.pc \notin InWork /\ r.pc \notin InTable /\ r.pc \notin InWork
    BY <2>1, <2>2 DEF InTable, InWork
  <2>. QED  BY <1>1, <2>1, <2>2, <2>3, DownloadMovesOn
<1>11. ASSUME LeaveTable(d) PROVE DlInv'
  <2>1. PICK r \in DownloadRecord :
          /\ dl' = [dl EXCEPT ![d] = r] /\ r.pc = "left" /\ (r.cancelled => r.failed)
    <3> DEFINE r == [x EXCEPT !.pc = "left", !.failed = @ \/ x.cancelled]
    <3>1. r \in DownloadRecord /\ r.pc = "left" /\ (r.cancelled => r.failed)
      BY <1>1 DEF DownloadRecord
    <3>2. dl' = [dl EXCEPT ![d] = r]
      BY <1>11 DEF LeaveTable, DownloadIs
    <3>. QED  BY <3>1, <3>2
  <2>2. x.pc = "leaving" /\ slots' = slots /\ inflight' = [inflight EXCEPT ![x.m] = Nobody]
    BY <1>11 DEF LeaveTable
  <2>3. x.m \in Offered /\ inflight[x.m] = d
    BY <2>2 DEF DlInv, TableFits, InTable
  <2>4. /\ dl' \in [Download -> DownloadRecord] /\ dl'[d] = r
        /\ \A e \in Download : e # d => dl'[e] = dl[e]
        /\ inflight' \in [Offered -> Download \cup {Nobody}] /\ inflight'[x.m] = Nobody
        /\ \A n \in Offered : n # x.m => inflight'[n] = inflight[n]
    BY <2>1, <2>2, <2>3 DEF DlInv, DlTypeOK
  <2> HIDE DEF x
  <2>5. TableFits'
    <3>1. "left" \notin InTable
      BY DEF InTable, InWork
    <3>2. ASSUME NEW e \in Download, dl'[e].pc \in InTable
          PROVE  dl'[e].m \in Offered /\ inflight'[dl'[e].m] = e
      <4>1. e # d /\ dl[e].m \in Offered /\ inflight[dl[e].m] = e
        BY <2>1, <2>4, <3>1, <3>2 DEF DlInv, TableFits
      <4>. QED  BY <2>3, <2>4, <4>1
    <3>3. ASSUME NEW n \in Offered, inflight'[n] # Nobody
          PROVE  dl'[inflight'[n]].pc \in InTable /\ dl'[inflight'[n]].m = n
      <4>1. n # x.m /\ inflight'[n] = inflight[n]
        BY <2>4, <3>3
      <4>2. inflight[n] \in Download /\ dl[inflight[n]].pc \in InTable /\ dl[inflight[n]].m = n
        BY <3>3, <4>1 DEF DlInv, DlTypeOK, TableFits
      <4>3. inflight[n] # d
        BY <4>1, <4>2 DEF x
      <4>. QED  BY <2>4, <4>1, <4>2, <4>3
    <3>. QED  BY <3>2, <3>3 DEF TableFits
  <2>6. Working' = Working
    BY <2>1, <2>2, <2>4 DEF Working, InWork, x
  <2>7. SlotsExact'
    BY <2>2, <2>6 DEF DlInv, SlotsExact, Working
  <2>8. CancelledIsReported'
    BY <2>1, <2>4 DEF DlInv, CancelledIsReported
  <2>9. DlTypeOK' /\ AskersFit'
    BY <1>1, <2>2, <2>4 DEF DlInv, DlTypeOK, AskersFit
  <2>. QED  BY <2>5, <2>7, <2>8, <2>9 DEF DlInv
<1>. QED  BY <1>2, <1>3, <1>4, <1>6, <1>7, <1>8, <1>9, <1>10, <1>11 DEF DownloadSteps

(* A download gains a subscriber.                                          *)
LEMMA SameDownloads ==
    ASSUME DlInv, AskersFit', asker' \in [Asker -> AskerRecord], inflight' = inflight, slots' = slots,
           dl' \in [Download -> DownloadRecord],
           \A e \in Download : /\ dl'[e].pc = dl[e].pc /\ dl'[e].m = dl[e].m
                                /\ dl'[e].cancelled = dl[e].cancelled /\ dl'[e].failed = dl[e].failed
    PROVE  DlInv'
<1>1. DlTypeOK'
  BY DEF DlInv, DlTypeOK
<1>2. TableFits'
  BY DEF DlInv, DlTypeOK, TableFits
<1>3. Working' = Working
  BY DEF Working
<1>4. SlotsExact'
  BY <1>3 DEF DlInv, SlotsExact, Working
<1>5. CancelledIsReported'
  BY DEF DlInv, CancelledIsReported
<1>. QED  BY <1>1, <1>2, <1>4, <1>5 DEF DlInv

(* Whoever asks, watches, gives up or cancels.                             *)
LEMMA AskingKeepsInv ==
    ASSUME DlInv, NEW c \in Asker,
           Subscribe(c) \/ ReadProgress(c) \/ Answered(c) \/ GiveUp(c)
             \/ \E m \in Offered, pc \in {"ensuring", "fetching"} : Ensure(c, m, pc)
    PROVE  DlInv'
<1>1. asker[c] \in AskerRecord /\ inflight' = inflight /\ slots' = slots
  BY DEF DlInv, DlTypeOK, Subscribe, ReadProgress, Answered, GiveUp, Ensure
<1>2. NotAsking \in AskerRecord /\ NotAsking.pc = "idle"
  BY DEF NotAsking, AskerRecord
<1>3. ASSUME Answered(c) \/ GiveUp(c) PROVE DlInv'
  <2>1. dl' = dl /\ asker' = [asker EXCEPT ![c] = NotAsking]
    BY <1>3 DEF Answered, GiveUp, AskerIs
  <2>2. AskersFit' /\ asker' \in [Asker -> AskerRecord]
    BY <1>2, <2>1, AskerMovesOn
  <2>. QED  BY <1>1, <2>1, <2>2, AskerAlone
<1>4. ASSUME ReadProgress(c) PROVE DlInv'
  BY <1>1, <1>4, DownloadsAtRest DEF ReadProgress
<1>5. ASSUME NEW m \in Offered, NEW pc \in {"ensuring", "fetching"}, Ensure(c, m, pc) PROVE DlInv'
  <2>1. CASE asker' = asker
    BY <1>1, <1>5, <2>1, DownloadsAtRest DEF Ensure
  <2>2. CASE asker' # asker
    <3>1. PICK r \in AskerRecord : r = [pc |-> pc, m |-> m, d |-> Nobody] /\ r.m = m
      <4>1. [pc |-> pc, m |-> m, d |-> Nobody] \in AskerRecord
        BY DEF AskerRecord
      <4>. QED  BY <4>1
    <3>2. dl' = dl /\ asker' = [asker EXCEPT ![c] = r]
      BY <1>5, <2>2, <3>1 DEF Ensure, AskerIs
    <3>3. AskersFit' /\ asker' \in [Asker -> AskerRecord]
      BY <3>1, <3>2, AskerMovesOn
    <3>. QED  BY <1>1, <3>2, <3>3, AskerAlone
  <2>. QED  BY <2>1, <2>2
<1>6. ASSUME Subscribe(c) PROVE DlInv'
  <2> DEFINE d == asker[c].d
  <2>1. PICK r \in AskerRecord : r.pc = "watching" /\ asker' = [asker EXCEPT ![c] = r]
    <3>1. [asker[c] EXCEPT !.pc = "watching"] \in AskerRecord
          /\ [asker[c] EXCEPT !.pc = "watching"].pc = "watching"
      BY <1>1 DEF AskerRecord
    <3>. QED  BY <1>6, <3>1 DEF Subscribe, AskerIs
  <2>2. AskersFit' /\ asker' \in [Asker -> AskerRecord]
    BY <2>1, AskerMovesOn
  <2>3. CASE dl' = dl
    BY <1>1, <2>2, <2>3, AskerAlone
  <2>4. CASE dl' # dl
    <3>1. dl' = [dl EXCEPT ![d].subs = @ \cup {c}]
      BY <1>6, <2>4 DEF Subscribe
    <3>2. d \in Download
      BY <2>4, <3>1 DEF DlInv, DlTypeOK
    <3>3. PICK x \in DownloadRecord : x = [dl[d] EXCEPT !.subs = @ \cup {c}]
                                      /\ x.pc = dl[d].pc /\ x.m = dl[d].m
                                      /\ x.cancelled = dl[d].cancelled /\ x.failed = dl[d].failed
      <4>1. PICK z \in DownloadRecord : z = dl[d]
        BY <3>2 DEF DlInv, DlTypeOK
      <4>2. ASSUME NEW q, q = [z EXCEPT !.subs = @ \cup {c}]
            PROVE  /\ q \in DownloadRecord /\ q.pc = z.pc /\ q.m = z.m
                   /\ q.cancelled = z.cancelled /\ q.failed = z.failed
        BY <4>2 DEF DownloadRecord
      <4>. QED  BY <4>1, <4>2
    <3>4. dl' = [dl EXCEPT ![d] = x]
      BY <3>1, <3>3 DEF DlInv, DlTypeOK
    <3> HIDE DEF d
    <3>5. /\ dl' \in [Download -> DownloadRecord]
          /\ \A e \in Download : dl'[e].pc = dl[e].pc /\ dl'[e].m = dl[e].m
                                 /\ dl'[e].cancelled = dl[e].cancelled /\ dl'[e].failed = dl[e].failed
      BY <3>2, <3>3, <3>4 DEF DlInv, DlTypeOK
    <3>. QED  BY <1>1, <2>2, <3>5, SameDownloads
  <2>. QED  BY <2>3, <2>4
<1>. QED  BY <1>3, <1>4, <1>5, <1>6

(* Cancel marks the download of the model, which has yet to leave the      *)
(* table.                                                                  *)
LEMMA CancelDownloadKeepsInv == ASSUME DlInv, NEW m \in Offered, CancelDownload(m) PROVE DlInv'
<1> DEFINE d == inflight[m]
<1>1. d \in Download /\ dl[d].pc \in InTable /\ dl[d] \in DownloadRecord
  BY DEF CancelDownload, DlInv, DlTypeOK, TableFits
<1>2. dl' = [dl EXCEPT ![d].cancelled = TRUE] /\ inflight' = inflight /\ slots' = slots /\ asker' = asker
  BY DEF CancelDownload
<1> HIDE DEF d
<1>3. PICK r \in DownloadRecord : dl' = [dl EXCEPT ![d] = r] /\ r.pc = dl[d].pc /\ r.m = dl[d].m
  <2>1. [dl[d] EXCEPT !.cancelled = TRUE] \in DownloadRecord
        /\ [dl[d] EXCEPT !.cancelled = TRUE].pc = dl[d].pc /\ [dl[d] EXCEPT !.cancelled = TRUE].m = dl[d].m
    BY <1>1 DEF DownloadRecord
  <2>. QED  BY <1>1, <1>2, <2>1 DEF DlInv, DlTypeOK
<1>4. r.pc \notin {"left", "closing"}
  BY <1>1, <1>3 DEF InTable, InWork
<1>. QED  BY <1>1, <1>2, <1>3, <1>4, DownloadMovesOn

(* The next process has no downloads.                                      *)
LEMMA RestartKeepsDlInv == ASSUME DlInv, RegistryRestarts PROVE DlInv'
<1>1. /\ inflight' = [m \in Offered |-> Nobody] /\ slots' = 0
      /\ dl' = [d \in Download |-> IF dl[d].pc = "unused" THEN dl[d] ELSE [NoDownload EXCEPT !.pc = "lost"]]
      /\ asker' = [c \in Asker |-> NotAsking]
  BY DEF RegistryRestarts
<1>2. NotAsking \in AskerRecord /\ NotAsking.pc = "idle"
  BY DEF NotAsking, AskerRecord
<1>3. PICK l \in DownloadRecord : l = [NoDownload EXCEPT !.pc = "lost"] /\ l.pc = "lost"
  <2>1. PICK n \in DownloadRecord : n = NoDownload
    BY NoDownloadIs
  <2>2. ASSUME NEW q, q = [n EXCEPT !.pc = "lost"]
        PROVE  q \in DownloadRecord /\ q.pc = "lost"
    BY <2>2 DEF DownloadRecord
  <2>. QED  BY <2>1, <2>2
<1>4. dl' \in [Download -> DownloadRecord] /\ \A d \in Download : dl'[d].pc \in {"unused", "lost"}
  BY <1>1, <1>3 DEF DlInv, DlTypeOK
<1>5. DlTypeOK'
  BY <1>1, <1>2, <1>4 DEF DlTypeOK
<1>6. TableFits'
  BY <1>1, <1>4 DEF TableFits, InTable, InWork
<1>7. AskersFit'
  BY <1>1, <1>2 DEF AskersFit
<1>8. Working' = {}
  BY <1>4 DEF Working, InWork
<1>9. SlotsExact'
  <2>1. Cardinality(Working') = 0
    BY <1>8, FS_EmptySet
  <2>2. 0 <= Concurrency
    BY DownloadsAssumption
  <2>. QED  BY <1>1, <2>1, <2>2 DEF SlotsExact, Working
<1>10. CancelledIsReported'
  BY <1>4 DEF CancelledIsReported
<1>. QED  BY <1>5, <1>6, <1>7, <1>9, <1>10 DEF DlInv

(* In every behaviour, table, downloads and slots agree.                   *)
THEOREM DownloadsInvariant == DlSpec => []DlInv
<1>1. DlInv /\ UNCHANGED dlvars => DlInv'
  BY DownloadsAtRest DEF dlvars
<1>2. ASSUME DlInv, NEW d \in Download, Broadcast(d) PROVE DlInv'
  BY <1>2, DownloadsAtRest DEF Broadcast
<1>3. ASSUME DlInv, NEW r \in Remover, RemoverSteps(r) \/ \E m \in Offered : RemoveChecks(r, m) PROVE DlInv'
  BY <1>3, DownloadsAtRest DEF RemoverSteps, RemoveDir, RemoveScans, RemoveReindexes, RemoveChecks, OnlyRemover
<1>4. DlInv /\ [DlNext]_dlvars => DlInv'
  BY <1>1, <1>2, <1>3, DownloadKeepsInv, BeginKeepsInv, AskingKeepsInv, CancelDownloadKeepsInv,
     RestartKeepsDlInv DEF DlNext, AskerSteps
<1>. QED  BY <1>4, DlInvInit, PTL DEF DlSpec

(* remote.go 33, 209 and 256: one download runs per model however many     *)
(* ask, a slot is held exactly by a download between its start and its     *)
(* end, and who was cancelled in the table does not report success.        *)
THEOREM DownloadsAreSingle == DlSpec => [](OneDownloadPerModel /\ SlotsExact /\ CancelledIsReported)
<1>1. DlInv => OneDownloadPerModel
  BY DEF DlInv, TableFits, OneDownloadPerModel, InTable
<1>2. DlInv => SlotsExact /\ CancelledIsReported
  BY DEF DlInv
<1>. QED  BY <1>1, <1>2, DownloadsInvariant, PTL

-----------------------------------------------------------------------------
(* A file of a model: fetching and unpacking it.                           *)

Bytes == [len : Nat, right : BOOLEAN]

FcTypeOK ==
    /\ serves \in [1 .. Sources -> Offers] /\ source \in Nat /\ attempt \in Nat
    /\ fpc \in {"trying", "receiving", "fetched", "failed"}
    /\ disk \in Bytes /\ hashed \in Bytes /\ dropped \in BOOLEAN
    /\ unpacked \in [files : Nat, total : Nat, disk : Nat, ok : BOOLEAN]

(* There is a source to ask, and an attempt left to ask it.                *)
Asks == fpc \in {"trying", "receiving"} => source \in 1 .. Sources /\ attempt < Retries

(* What is hashed is what is on the disk, as long as it comes in.          *)
HashesTheDisk == fpc = "receiving" => hashed = disk

(* The counter of the extraction is what the disk took.                    *)
CountsTheDisk ==
    /\ unpacked.disk = unpacked.total /\ unpacked.total <= MaxUnpackedBytes + 1 /\ unpacked.files <= MaxFiles
    /\ unpacked.ok => unpacked.total <= MaxUnpackedBytes

FcInv == FcTypeOK /\ Asks /\ HashesTheDisk /\ FetchedIsWanted /\ NeverOverLimit /\ CountsTheDisk

LEMMA FcInvInit == FcInit => FcInv
<1> SUFFICES ASSUME FcInit PROVE FcInv
  OBVIOUS
<1>1. Nothing \in Bytes /\ Nothing.len = 0
  BY DEF Nothing, Bytes
<1>2. /\ Untouched \in [files : Nat, total : Nat, disk : Nat, ok : BOOLEAN]
      /\ Untouched.files = 0 /\ Untouched.total = 0 /\ Untouched.disk = 0
  BY DEF Untouched
<1>3. FcTypeOK
  BY <1>1, <1>2 DEF FcInit, FcTypeOK
<1>4. Asks /\ HashesTheDisk /\ FetchedIsWanted
  BY FetchAssumption DEF FcInit, Asks, HashesTheDisk, FetchedIsWanted
<1>5. NeverOverLimit
  BY <1>1, FetchAssumption DEF FcInit, NeverOverLimit
<1>6. CountsTheDisk
  BY <1>2, FetchAssumption DEF FcInit, CountsTheDisk
<1>. QED  BY <1>3, <1>4, <1>5, <1>6 DEF FcInv

(* Where the next attempt is.                                              *)
LEMMA AsksOnce ==
    ASSUME FcInv, fpc \in {"trying", "receiving"}, Retry \/ NextSource
    PROVE  /\ source' \in Nat /\ attempt' \in Nat /\ fpc' \in {"trying", "failed"}
           /\ fpc' = "trying" => source' \in 1 .. Sources /\ attempt' < Retries
BY FetchAssumption DEF FcInv, FcTypeOK, Asks, Retry, NextSource

(* A step that leaves the disk as it is, or removes the file.              *)
LEMMA AsksAgain ==
    ASSUME FcInv, fpc \in {"trying", "receiving"}, Retry \/ NextSource, disk' \in {disk, Nothing},
           UNCHANGED <<serves, hashed, dropped, unpacked>>
    PROVE  FcInv'
<1>1. FcTypeOK'
  <2>1. Nothing \in Bytes
    BY DEF Nothing, Bytes
  <2>2. disk' \in Bytes
    BY <2>1 DEF FcInv, FcTypeOK
  <2>. QED  BY <2>2, AsksOnce DEF FcInv, FcTypeOK
<1>2. Asks' /\ HashesTheDisk' /\ FetchedIsWanted'
  BY AsksOnce DEF Asks, HashesTheDisk, FetchedIsWanted
<1>3. NeverOverLimit'
  BY FetchAssumption DEF FcInv, NeverOverLimit, Nothing
<1>4. CountsTheDisk'
  BY DEF FcInv, CountsTheDisk
<1>. QED  BY <1>1, <1>2, <1>3, <1>4 DEF FcInv

LEMMA AnswersKeepsInv == ASSUME FcInv, Answers PROVE FcInv'
<1> DEFINE s == serves[source]
           resumed == disk.len > 0 /\ s.range
<1>1. fpc = "trying" /\ UNCHANGED <<serves, dropped, unpacked>>
  BY DEF Answers
<1>2. CASE (Retry \/ NextSource) /\ UNCHANGED <<disk, hashed>>
  BY <1>1, <1>2, AsksAgain
<1>3. ASSUME fpc' = "receiving", UNCHANGED <<source, attempt>>,
             (hashed' = disk /\ UNCHANGED disk) \/ StartOver
      PROVE  FcInv'
  <2>1. disk' \in {disk, Nothing} /\ hashed' = disk'
    BY <1>3 DEF StartOver
  <2>2. FcTypeOK'
    <3>1. Nothing \in Bytes
      BY DEF Nothing, Bytes
    <3>2. disk' \in Bytes /\ hashed' \in Bytes
      BY <2>1, <3>1 DEF FcInv, FcTypeOK
    <3>. QED  BY <1>1, <1>3, <3>2 DEF FcInv, FcTypeOK
  <2>3. Asks' /\ HashesTheDisk' /\ FetchedIsWanted'
    BY <1>1, <1>3, <2>1 DEF FcInv, Asks, HashesTheDisk, FetchedIsWanted
  <2>4. NeverOverLimit'
    BY <2>1, FetchAssumption DEF FcInv, NeverOverLimit, Nothing
  <2>5. CountsTheDisk'
    BY <1>1 DEF FcInv, CountsTheDisk
  <2>. QED  BY <2>2, <2>3, <2>4, <2>5 DEF FcInv
<1>. QED  BY <1>2, <1>3 DEF Answers

LEMMA ReceiveKeepsInv == ASSUME FcInv, Receive PROVE FcInv'
<1>1. fpc = "receiving" /\ UNCHANGED <<serves, dropped, unpacked>>
  BY DEF Receive
<1>2. CASE NextSource /\ UNCHANGED <<disk, hashed>>
  BY <1>1, <1>2, AsksAgain
<1>3. CASE /\ ~(disk.len + 1 > FetchLimit) /\ disk' = With(disk) /\ hashed' = With(hashed)
           /\ UNCHANGED <<source, attempt, fpc>>
  <2>1. source \in 1 .. Sources /\ hashed = disk
    BY <1>1 DEF FcInv, Asks, HashesTheDisk
  <2>2. serves[source].right \in BOOLEAN
    BY <2>1 DEF FcInv, FcTypeOK, Offers
  <2>3. disk' \in Bytes /\ hashed' = disk' /\ disk'.len = disk.len + 1
    BY <1>3, <2>1, <2>2 DEF FcInv, FcTypeOK, Bytes, With
  <2>4. FcTypeOK'
    BY <1>1, <1>3, <2>3 DEF FcInv, FcTypeOK
  <2>5. Asks' /\ HashesTheDisk' /\ FetchedIsWanted'
    BY <1>1, <1>3, <2>1, <2>3 DEF FcInv, Asks, HashesTheDisk, FetchedIsWanted
  <2>6. NeverOverLimit'
    BY <1>3, <2>3, FetchAssumption DEF FcInv, FcTypeOK, Bytes, NeverOverLimit
  <2>7. CountsTheDisk'
    BY <1>1 DEF FcInv, CountsTheDisk
  <2>. QED  BY <2>4, <2>5, <2>6, <2>7 DEF FcInv
<1>. QED  BY <1>2, <1>3 DEF Receive

(* The one place where the file is believed.                               *)
LEMMA VerifyKeepsInv == ASSUME FcInv, Verify PROVE FcInv'
<1>1. fpc = "receiving" /\ UNCHANGED <<serves, hashed, dropped, unpacked>>
  BY DEF Verify
<1>2. CASE NextSource /\ disk' = Nothing
  BY <1>1, <1>2, AsksAgain
<1>3. CASE hashed = [len |-> FileLen, right |-> TRUE] /\ fpc' = "fetched" /\ UNCHANGED <<source, attempt, disk>>
  <2>1. disk' = [len |-> FileLen, right |-> TRUE]
    BY <1>1, <1>3 DEF FcInv, HashesTheDisk
  <2>. QED  BY <1>1, <1>3, <2>1 DEF FcInv, FcTypeOK, Asks, HashesTheDisk, FetchedIsWanted, NeverOverLimit, CountsTheDisk
<1>. QED  BY <1>2, <1>3 DEF Verify

(* One entry: the disk takes at most a byte over the allowance.            *)
LEMMA UnpackKeepsInv == ASSUME FcInv, Unpack PROVE FcInv'
<1> PICK e \in Entry : unpacked' = Extract(unpacked, e)
  BY DEF Unpack
<1>1. unpacked.ok /\ UNCHANGED <<serves, source, attempt, fpc, disk, hashed, dropped>>
  BY DEF Unpack
<1>2. unpacked \in [files : Nat, total : Nat, disk : Nat, ok : BOOLEAN] /\ CountsTheDisk
  BY DEF FcInv, FcTypeOK
<1>3. e.size \in Nat /\ e.declared \in Nat
  <2>1. CASE e \in [regular : {TRUE}, declared : 0..MaxFileBytes + 1, size : 0..MaxUnpackedBytes + 1]
    BY <2>1
  <2>2. CASE e \in [regular : {FALSE}, declared : {0}, size : {0}]
    BY <2>2
  <2>. QED  BY <2>1, <2>2 DEF Entry
<1>4. unpacked' \in [files : Nat, total : Nat, disk : Nat, ok : BOOLEAN] /\ CountsTheDisk'
  <2>1. CASE unpacked' = [unpacked EXCEPT !.ok = FALSE]
    BY <1>2, <2>1 DEF CountsTheDisk
  <2>2. CASE ~(~e.regular \/ unpacked.files + 1 > MaxFiles \/ e.declared > MaxFileBytes
               \/ unpacked.total >= MaxUnpackedBytes)
    <3> DEFINE left == MaxUnpackedBytes - unpacked.total
               written == IF e.size <= left THEN e.size ELSE left + 1
    <3>1. unpacked' = [files |-> unpacked.files + 1, total |-> unpacked.total + written,
                       disk |-> unpacked.disk + written, ok |-> written <= left]
      BY <2>2 DEF Extract
    <3>2. left \in Nat /\ written \in Nat /\ written <= left + 1 /\ left + unpacked.total = MaxUnpackedBytes
      BY <1>2, <1>3, <2>2, FetchAssumption
    <3>3. unpacked.files + 1 <= MaxFiles
      BY <1>2, <2>2, FetchAssumption
    <3> HIDE DEF left, written
    <3>4. /\ unpacked'.files = unpacked.files + 1 /\ unpacked'.total = unpacked.total + written
          /\ unpacked'.disk = unpacked.disk + written /\ unpacked'.ok = (written <= left)
          /\ unpacked.files + 1 \in Nat /\ unpacked.total + written \in Nat /\ unpacked.disk + written \in Nat
      BY <1>2, <3>1, <3>2
    <3>5. unpacked' \in [files : Nat, total : Nat, disk : Nat, ok : BOOLEAN]
      BY <3>1, <3>4
    <3>6. CountsTheDisk'
      <4>1. /\ unpacked.disk = unpacked.total /\ unpacked.total \in Nat
            /\ ~(unpacked.total >= MaxUnpackedBytes)
        BY <1>2, <2>2 DEF CountsTheDisk
      <4>2. unpacked'.disk = unpacked'.total /\ unpacked'.total <= MaxUnpackedBytes + 1
        BY <3>2, <3>4, <4>1, FetchAssumption
      <4>3. unpacked'.ok => written <= left
        BY <3>4
      <4>4. written <= left => unpacked'.total <= MaxUnpackedBytes
        BY <3>2, <3>4, <4>1, FetchAssumption
      <4>. QED  BY <3>3, <3>4, <4>2, <4>3, <4>4 DEF CountsTheDisk
    <3>. QED  BY <3>5, <3>6
  <2>. QED  BY <2>1, <2>2 DEF Extract
<1>5. FcTypeOK'
  BY <1>1, <1>4 DEF FcInv, FcTypeOK
<1>6. Asks' /\ HashesTheDisk' /\ FetchedIsWanted' /\ NeverOverLimit'
  BY <1>1 DEF FcInv, Asks, HashesTheDisk, FetchedIsWanted, NeverOverLimit
<1>. QED  BY <1>4, <1>5, <1>6 DEF FcInv

(* In every behaviour, the file that is fetched is the one that is wanted, *)
(* and the disk takes no more than the limits and one byte.                *)
THEOREM FetchInvariant == FcSpec => []FcInv
<1>1. ASSUME FcInv, UNCHANGED fcvars PROVE FcInv'
  BY <1>1 DEF fcvars, FcInv, FcTypeOK, Asks, HashesTheDisk, FetchedIsWanted, NeverOverLimit, CountsTheDisk
<1>2. ASSUME FcInv, FetchStops \/ FetchDropped PROVE FcInv'
  <2>1. /\ UNCHANGED <<serves, source, attempt, disk, hashed, unpacked>>
        /\ dropped' \in BOOLEAN /\ fpc' \in {"failed", fpc} /\ fpc' # "fetched"
    BY <1>2 DEF FetchStops, FetchDropped, FcInv, FcTypeOK
  <2>. QED  BY <1>2, <2>1 DEF FcInv, FcTypeOK, Asks, HashesTheDisk, FetchedIsWanted, NeverOverLimit, CountsTheDisk
<1>3. ASSUME FcInv, Unreachable \/ Missing \/ ConnectionBreaks PROVE FcInv'
  BY <1>3, AsksAgain DEF Unreachable, Missing, ConnectionBreaks
<1>4. FcInv /\ [FcNext]_fcvars => FcInv'
  BY <1>1, <1>2, <1>3, AnswersKeepsInv, ReceiveKeepsInv, VerifyKeepsInv, UnpackKeepsInv DEF FcNext, Fetching
<1>. QED  BY <1>4, FcInvInit, PTL DEF FcSpec

-----------------------------------------------------------------------------
(* The roles of an installed model.                                        *)

Roles == Own \cup Shipped \cup Beside

CpTypeOK ==
    /\ present \subseteq Roles /\ manifest \subseteq Roles /\ torn \in BOOLEAN
    /\ puller \in [Puller -> [pc : {"idle", "reading", "fetching", "writing"}, missing : SUBSET Beside,
                              added : SUBSET Roles, doc : SUBSET Roles]]

(* What a puller has read names only files that were there and stay; what  *)
(* it adds is there or is yet to be fetched, and is there when it writes.  *)
PullersFit ==
    \A p \in Puller :
        /\ puller[p].pc \in {"fetching", "writing"} =>
              /\ Own \subseteq puller[p].doc /\ puller[p].doc \subseteq present
              /\ puller[p].added \subseteq present \cup puller[p].missing
        /\ puller[p].pc = "writing" => puller[p].missing = {}

CpInv == CpTypeOK /\ PullersFit /\ ManifestNamesWhatIsThere /\ OwnRolesStay

LEMMA CpInvInit == CpInit => CpInv
<1> SUFFICES ASSUME CpInit PROVE CpInv
  OBVIOUS
<1>1. PICK s \in SUBSET (Shipped \cup Beside) : present = Own \cup s
  BY DEF CpInit
<1>2. PICK t \in SUBSET (present \ Own) : manifest = Own \cup t
  BY DEF CpInit
<1>3. puller = [p \in Puller |-> Pulled] /\ torn = FALSE
  BY DEF CpInit
<1>4. CpTypeOK
  BY <1>1, <1>2, <1>3 DEF CpTypeOK, Roles, Pulled
<1>5. PullersFit
  BY <1>3 DEF PullersFit, Pulled
<1>6. ManifestNamesWhatIsThere /\ OwnRolesStay
  BY <1>1, <1>2 DEF ManifestNamesWhatIsThere, OwnRolesStay
<1>. QED  BY <1>4, <1>5, <1>6 DEF CpInv

(* Files are added, and one puller does something that fits.               *)
LEMMA PullerMovesOn ==
    ASSUME CpInv, NEW p \in Puller, NEW r, puller' = [puller EXCEPT ![p] = r],
           r \in [pc : {"idle", "reading", "fetching", "writing"}, missing : SUBSET Beside,
                  added : SUBSET Roles, doc : SUBSET Roles],
           present \subseteq present', present' \subseteq Roles,
           r.pc \in {"fetching", "writing"} =>
              Own \subseteq r.doc /\ r.doc \subseteq present' /\ r.added \subseteq present' \cup r.missing,
           r.pc = "writing" => r.missing = {},
           manifest' \subseteq Roles, torn' \in BOOLEAN,
           ~torn' => Own \subseteq manifest' /\ manifest' \subseteq present'
    PROVE  CpInv'
<1>1. CpTypeOK'
  BY DEF CpInv, CpTypeOK
<1>2. PullersFit'
  <2> SUFFICES ASSUME NEW q \in Puller
               PROVE  /\ puller'[q].pc \in {"fetching", "writing"} =>
                            /\ Own \subseteq puller'[q].doc /\ puller'[q].doc \subseteq present'
                            /\ puller'[q].added \subseteq present' \cup puller'[q].missing
                      /\ puller'[q].pc = "writing" => puller'[q].missing = {}
    BY DEF PullersFit
  <2>1. CASE q = p
    <3>1. puller'[q] = r
      BY <2>1 DEF CpInv, CpTypeOK
    <3>. QED  BY <3>1
  <2>2. CASE q # p
    <3>1. puller'[q] = puller[q]
      BY <2>2 DEF CpInv, CpTypeOK
    <3>2. /\ puller[q].pc \in {"fetching", "writing"} =>
                /\ Own \subseteq puller[q].doc /\ puller[q].doc \subseteq present
                /\ puller[q].added \subseteq present \cup puller[q].missing
          /\ puller[q].pc = "writing" => puller[q].missing = {}
      BY DEF CpInv, PullersFit
    <3>. QED  BY <3>1, <3>2
  <2>. QED  BY <2>1, <2>2
<1>. QED  BY <1>1, <1>2 DEF CpInv, ManifestNamesWhatIsThere, OwnRolesStay

(* In every behaviour, what the manifest names is there.                   *)
THEOREM CompletionInvariant == CpSpec => []CpInv
<1> DEFINE Pulls == [pc : {"idle", "reading", "fetching", "writing"}, missing : SUBSET Beside,
                     added : SUBSET Roles, doc : SUBSET Roles]
<1>1. ASSUME CpInv, UNCHANGED cpvars PROVE CpInv'
  BY <1>1 DEF cpvars, CpInv, CpTypeOK, PullersFit, ManifestNamesWhatIsThere, OwnRolesStay
<1>2. ASSUME CpInv, NEW p \in Puller
      PROVE  /\ puller[p] \in Pulls /\ present \subseteq Roles /\ manifest \subseteq Roles /\ torn \in BOOLEAN
             /\ ~torn => Own \subseteq manifest /\ manifest \subseteq present
             /\ puller[p].pc \in {"fetching", "writing"} =>
                   /\ Own \subseteq puller[p].doc /\ puller[p].doc \subseteq present
                   /\ puller[p].added \subseteq present \cup puller[p].missing
             /\ puller[p].pc = "writing" => puller[p].missing = {}
  BY <1>2 DEF CpInv, CpTypeOK, PullersFit, ManifestNamesWhatIsThere, OwnRolesStay
<1>3. ASSUME CpInv, NEW p \in Puller, FindMissing(p) PROVE CpInv'
  <2> DEFINE r == [Pulled EXCEPT !.pc = "reading", !.missing = Beside \ present]
  <2>1. r \in Pulls /\ r.pc = "reading"
    BY DEF Pulled
  <2>2. puller' = [puller EXCEPT ![p] = r] /\ UNCHANGED <<present, manifest, torn>>
    BY <1>3 DEF FindMissing, PullerIs
  <2> HIDE DEF r
  <2>. QED  BY <1>2, <1>3, <2>1, <2>2, PullerMovesOn
<1>4. Pulled \in Pulls /\ Pulled.pc = "idle"
  BY DEF Pulled
<1>5. ASSUME CpInv, NEW p \in Puller, ReadRoles(p) PROVE CpInv'
  <2> DEFINE missing == puller[p].missing
             added == RolesToAdd(missing, manifest)
             r == [pc |-> "fetching", missing |-> missing, added |-> added, doc |-> manifest]
  <2>1. added \subseteq Roles /\ added \subseteq present \cup missing
    BY DEF RolesToAdd, Roles
  <2>2. UNCHANGED <<present, manifest, torn>>
    BY <1>5 DEF ReadRoles
  <2>3. CASE puller' = [puller EXCEPT ![p] = Pulled]
    BY <1>2, <1>4, <1>5, <2>2, <2>3, PullerMovesOn
  <2>4. CASE ~torn /\ puller' = [puller EXCEPT ![p] = r]
    <3>1. r \in Pulls /\ r.pc = "fetching" /\ r.doc = manifest /\ r.added = added /\ r.missing = missing
      BY <1>2, <1>5, <2>1
    <3> HIDE DEF r, added, missing
    <3>. QED  BY <1>2, <1>5, <2>1, <2>2, <2>4, <3>1, PullerMovesOn
  <2>. QED  BY <1>5, <2>3, <2>4 DEF ReadRoles, PullerIs
<1>6. ASSUME CpInv, NEW p \in Puller, NEW f \in Beside, FetchBeside(p, f) PROVE CpInv'
  <2> DEFINE r == [puller[p] EXCEPT !.missing = @ \ {f}]
  <2>1. /\ puller[p].pc = "fetching" /\ present' = present \cup {f} /\ UNCHANGED <<manifest, torn>>
        /\ puller' = [puller EXCEPT ![p] = r]
    BY <1>6 DEF FetchBeside, PullerIs
  <2>2. /\ r \in Pulls /\ r.pc = "fetching" /\ r.doc = puller[p].doc /\ r.added = puller[p].added
        /\ r.missing = puller[p].missing \ {f}
    BY <1>2, <1>6, <2>1
  <2>3. present' \subseteq Roles
    BY <1>2, <1>6, <2>1 DEF Roles
  <2> HIDE DEF r
  <2>4. r.doc \subseteq present' /\ r.added \subseteq present' \cup r.missing
    BY <1>2, <1>6, <2>1, <2>2
  <2>. QED  BY <1>2, <1>6, <2>1, <2>2, <2>3, <2>4, PullerMovesOn
<1>7. ASSUME CpInv, NEW p \in Puller, PullEnds(p) PROVE CpInv'
  BY <1>2, <1>4, <1>7, PullerMovesOn DEF PullEnds, PullerIs
<1>8. ASSUME CpInv, NEW p \in Puller, OpenManifest(p) PROVE CpInv'
  <2> DEFINE r == [puller[p] EXCEPT !.pc = "writing"]
  <2>1. /\ puller[p].pc = "fetching" /\ puller[p].missing = {} /\ torn' = TRUE /\ UNCHANGED <<present, manifest>>
        /\ puller' = [puller EXCEPT ![p] = r]
    BY <1>8 DEF OpenManifest, PullerIs
  <2>2. /\ r \in Pulls /\ r.pc = "writing" /\ r.doc = puller[p].doc /\ r.added = puller[p].added
        /\ r.missing = puller[p].missing
    BY <1>2, <1>8, <2>1
  <2> HIDE DEF r
  <2>. QED  BY <1>2, <1>8, <2>1, <2>2, PullerMovesOn
<1>9. ASSUME CpInv, NEW p \in Puller, WriteRoles(p) PROVE CpInv'
  <2>1. /\ puller[p].pc = "writing" /\ manifest' = puller[p].doc \cup puller[p].added /\ torn' = FALSE
        /\ UNCHANGED present /\ puller' = [puller EXCEPT ![p] = Pulled]
    BY <1>9 DEF WriteRoles, PullerIs
  <2>2. manifest' \subseteq Roles /\ Own \subseteq manifest' /\ manifest' \subseteq present
    BY <1>2, <1>9, <2>1
  <2>. QED  BY <1>2, <1>4, <1>9, <2>1, <2>2, PullerMovesOn
<1>10. CpInv /\ [CpNext]_cpvars => CpInv'
  BY <1>1, <1>3, <1>5, <1>6, <1>7, <1>8, <1>9 DEF CpNext
<1>. QED  BY <1>10, CpInvInit, PTL DEF CpSpec

(* remote.go 33, download.go 265 and 421, unpack.go 193, complete.go 26    *)
(* and 62: the registry's parts together.  Whatever sources serve and      *)
(* break, whoever pulls, downloads, cancels, removes and is killed, what   *)
(* is unpacked is the file that was asked for, the disk keeps the limits,  *)
(* a manifest names files that are there and keeps the operator's roles,   *)
(* and one download works on a model, in a slot of its own.                *)
THEOREM RegistryModelsAreWhole == FcSpec /\ CpSpec /\ DlSpec => []ModelsAreWhole
<1>1. ASSUME FcInv PROVE FetchedIsWanted /\ NeverOverLimit /\ UnpackedIsBounded
  <2>1. UnpackedIsBounded
    BY <1>1, FetchAssumption DEF FcInv, FcTypeOK, CountsTheDisk, UnpackedIsBounded
  <2>. QED  BY <1>1, <2>1 DEF FcInv
<1>2. CpInv => ManifestNamesWhatIsThere /\ OwnRolesStay
  BY DEF CpInv
<1>3. FcInv /\ CpInv /\ OneDownloadPerModel /\ SlotsExact /\ CancelledIsReported => ModelsAreWhole
  BY <1>1, <1>2 DEF ModelsAreWhole
<1>. QED  BY <1>3, FetchInvariant, CompletionInvariant, DownloadsAreSingle, PTL

-----------------------------------------------------------------------------
(* The settings of an application, and the file of the keys.               *)

MgTypeOK ==
    /\ file \in Settings /\ chosen \in Settings /\ trying \in Settings /\ settled \in Settings
    /\ started \in [Feature -> SUBSET Built] /\ onDisk \subseteq Built
    /\ announced \in BOOLEAN /\ changed \in BOOLEAN /\ told \in 0 .. 2 /\ patches \in 0 .. Patches
    /\ mpc \in {"down", "serving", "saving", "saved"}

(* What is saved is what is chosen, up to the Update under way.            *)
SavedIsChosen ==
    /\ mpc \in {"serving", "saving"} => file = settled
    /\ mpc = "saved" => file = trying
    /\ mpc = "serving" => trying = settled
    /\ mpc \in {"serving", "saving", "saved"} => chosen = settled

(* Announced is what is needed, unless Changed is to be called yet.        *)
AnnouncedIsNeeded ==
    mpc # "down" => /\ announced => told > 0
                    /\ ~changed => announced = NeedsRestart(chosen, started, onDisk)

MgInv == MgTypeOK /\ SavedIsChosen /\ AnnouncedIsNeeded /\ SettingsAreWhole

Texts == Seq(NamedKeys) \cup {Garbled}
Steps == {"idle", "saving", "writing", "renaming", "init", "initwriting", "loading", "ok", "error", "gone"}
Processes == [at : Steps, doc : Seq(NamedKeys), fd : Nat \cup {None}, keys : SUBSET Secret, drops : BOOLEAN]

FilesOK ==
    /\ text \in Seq(Texts) /\ inode \in [{"path", "tmp"} -> Nat \cup {None}]
    /\ \A f \in {"path", "tmp"} : inode[f] # None => inode[f] \in 1 .. Len(text)
    /\ inode["path"] # None => inode["path"] # inode["tmp"]

KeyTypeOK ==
    /\ FilesOK /\ cmd \in [Command -> Processes]
    /\ owed \subseteq Secret /\ maybe \subseteq Secret /\ excused \in BOOLEAN

(* What a command is going to write is fit to be written.                  *)
DocFits(r) ==
    /\ NoTwins(r.doc)
    /\ r.at \in {"writing", "initwriting"} => r.fd \in 1 .. Len(text)
    /\ r.at \in {"init", "initwriting", "loading"} => KeysIn(r.doc) = r.keys

(* The text of the file has the keys there are, give or take those that    *)
(* some command was about to change.                                       *)
KeysFit == Readable /\ owed \ maybe \subseteq KeysIn(FileText) /\ KeysIn(FileText) \subseteq owed \cup maybe

(* A command that runs alone: it saves what it read, with its change.      *)
SaveFits(r) ==
    /\ r.at \in {"saving", "writing", "renaming"} /\ r.keys \subseteq maybe
    /\ KeysIn(r.doc) = IF r.drops THEN KeysIn(FileText) \ r.keys ELSE KeysIn(FileText) \cup r.keys
    /\ r.at \in {"writing", "renaming"} => inode["tmp"] # None
    /\ r.at = "writing" => r.fd = inode["tmp"] /\ text[r.fd] = <<>>
    /\ r.at = "renaming" => text[inode["tmp"]] = r.doc

KeyInv ==
    /\ KeyTypeOK /\ OneNameOneKey /\ \A c \in Command : DocFits(cmd[c])
    /\ ~excused => /\ KeysFit
                   /\ \A c \in Command : Running(c) => SaveFits(cmd[c]) /\ \A d \in Command \ {c} : ~Running(d)

(* Starting settles everything: what is off is not started, what has its   *)
(* files is started as it is wanted, and what lacks them is missing.       *)
LEMMA StartSettles == ASSUME NEW s, NEW d PROVE NeedsRestart(s, PlanOf(s, d), d) = FALSE
<1> SUFFICES ASSUME NEW f \in Feature PROVE State(s, PlanOf(s, d), d, f) # "restart"
  BY DEF NeedsRestart
<1>1. PlanOf(s, d)[f] = IF f \in {"vad", "realtime"} /\ ~(Wants(s)[f] \subseteq d) THEN {} ELSE Wants(s)[f]
  BY DEF PlanOf
<1>2. CASE Wants(s)[f] = {}
  <2>1. PlanOf(s, d)[f] = {}
    BY <1>1, <1>2
  <2>. QED  BY <1>2, <2>1 DEF State
<1>3. CASE Wants(s)[f] # {} /\ ~(Wants(s)[f] \subseteq d)
  BY <1>3 DEF State
<1>4. CASE Wants(s)[f] # {} /\ Wants(s)[f] \subseteq d
  <2>1. PlanOf(s, d)[f] = Wants(s)[f]
    BY <1>1, <1>4
  <2>. QED  BY <1>4, <2>1 DEF State
<1>. QED  BY <1>2, <1>3, <1>4

LEMMA NoSettingsAre == NoSettings \in Settings
BY DEF NoSettings, Settings

(* The plan of some settings is one.                                       *)
LEMMA PlansAre == ASSUME NEW s \in Settings, NEW d PROVE PlanOf(s, d) \in [Feature -> SUBSET Built]
<1>1. ASSUME NEW n \in AsrName \cup StreamName \cup {VadName, DiarName} \cup TseName PROVE Build(s, n) \in Built
  <2>1. (s.coreml /\ n \in HasBuild) \in BOOLEAN
    OBVIOUS
  <2>. QED  BY <2>1 DEF Build, Built
<1>2. s.asr \in AsrName \cup {NoName} /\ s.stream \in StreamName \cup {NoName}
  BY DEF Settings
<1>3. ASSUME NEW f \in Feature PROVE Wants(s)[f] \subseteq Built
  <2> DEFINE names == CASE f = "vad"           -> {VadName}
                        [] f = "transcription" -> {s.asr} \ {NoName}
                        [] f = "realtime"      -> {s.stream} \ {NoName}
                        [] f = "diarization"   -> IF s.diarization THEN {DiarName} ELSE {}
                        [] f = "isolation"     -> IF s.isolation THEN TseName ELSE {}
  <2>1. Wants(s)[f] = {Build(s, n) : n \in names}
    BY DEF Wants
  <2>2. names \subseteq AsrName \cup StreamName \cup {VadName, DiarName} \cup TseName
    BY <1>2 DEF Feature
  <2> HIDE DEF names
  <2>. QED  BY <1>1, <2>1, <2>2
<1>4. ASSUME NEW f \in Feature
      PROVE  (IF f \in {"vad", "realtime"} /\ ~(Wants(s)[f] \subseteq d) THEN {} ELSE Wants(s)[f]) \in SUBSET Built
  BY <1>3
<1>. QED  BY <1>4 DEF PlanOf

LEMMA MgInvInit == MgInit => MgInv
<1> SUFFICES ASSUME MgInit PROVE MgInv
  OBVIOUS
<1>1. MgTypeOK
  <2>1. started \in [Feature -> SUBSET Built]
    BY NoSettingsAre, PlansAre DEF MgInit
  <2>2. onDisk \subseteq Built /\ told \in 0 .. 2 /\ patches \in 0 .. Patches
    BY ManagedAssumption DEF MgInit
  <2>. QED  BY <2>1, <2>2, NoSettingsAre DEF MgInit, MgTypeOK
<1>2. SavedIsChosen /\ SettingsAreWhole
  BY DEF MgInit, SavedIsChosen, SettingsAreWhole
<1>3. AnnouncedIsNeeded
  <2>1. announced = FALSE /\ NeedsRestart(chosen, started, onDisk) = FALSE
    BY StartSettles DEF MgInit
  <2>. QED  BY <2>1 DEF AnnouncedIsNeeded
<1>. QED  BY <1>1, <1>2, <1>3 DEF MgInv

(* Where a restart is announced, it is needed.                             *)
LEMMA AnnouncingFits ==
    ASSUME MgInv, mpc # "down", NEW s, Announces(s), chosen' = s, UNCHANGED <<started, onDisk>>
    PROVE  announced' \in BOOLEAN /\ told' \in 0 .. 2 /\ AnnouncedIsNeeded'
<1>1. announced' = NeedsRestart(s, started, onDisk) /\ announced' \in BOOLEAN
  BY DEF Announces, NeedsRestart
<1>2. announced \in BOOLEAN /\ told \in 0 .. 2
  BY DEF MgInv, MgTypeOK
<1>3. told' = IF announced' /\ ~announced /\ told < 2 THEN told + 1 ELSE told
  BY DEF Announces
<1>4. told' \in 0 .. 2
  BY <1>2, <1>3
<1>5. announced' => told' > 0
  <2>1. announced => told > 0
    BY DEF MgInv, AnnouncedIsNeeded
  <2>2. CASE announced
    BY <1>2, <1>3, <2>1, <2>2
  <2>3. CASE announced' /\ ~announced
    <3>1. told' = told + 1 \/ (told' = told /\ ~(told < 2))
      BY <1>3, <2>3
    <3>. QED  BY <1>2, <3>1
  <2>. QED  BY <2>2, <2>3
<1>. QED  BY <1>1, <1>4, <1>5 DEF AnnouncedIsNeeded

(* Settings and disk stay, and what is announced stays needed.             *)
LEMMA NothingAnnounced ==
    ASSUME MgInv, UNCHANGED <<chosen, started, announced, told>>, mpc # "down",
           changed' \/ UNCHANGED <<onDisk, changed>>
    PROVE  AnnouncedIsNeeded'
BY DEF MgInv, AnnouncedIsNeeded

(* In every behaviour, file, settings and announcement agree.              *)
THEOREM ManagedInvariant == MgSpec => []MgInv
<1>1. ASSUME MgInv, UNCHANGED mgvars PROVE MgInv'
  BY <1>1 DEF mgvars, MgInv, MgTypeOK, SavedIsChosen, AnnouncedIsNeeded, SettingsAreWhole
<1>2. ASSUME MgInv, NEW s \in Chosen, PatchSettings(s) PROVE MgInv'
  <2>1. s \in Settings
    BY ManagedAssumption
  <2>2. MgTypeOK'
    <3>1. patches' \in 0 .. Patches
      BY <1>2, ManagedAssumption DEF PatchSettings, MgInv, MgTypeOK
    <3>. QED  BY <1>2, <2>1, <3>1 DEF PatchSettings, MgInv, MgTypeOK
  <2>3. SavedIsChosen' /\ SettingsAreWhole'
    BY <1>2 DEF PatchSettings, MgInv, SavedIsChosen, SettingsAreWhole
  <2>. QED  BY <1>2, <2>2, <2>3, NothingAnnounced DEF PatchSettings, MgInv
<1>3. ASSUME MgInv, SaveFails \/ SaveRenames PROVE MgInv'
  <2>1. MgTypeOK'
    BY <1>3 DEF SaveFails, SaveRenames, MgInv, MgTypeOK
  <2>2. SavedIsChosen' /\ SettingsAreWhole'
    BY <1>3 DEF SaveFails, SaveRenames, MgInv, SavedIsChosen, SettingsAreWhole
  <2>3. AnnouncedIsNeeded'
    BY <1>3, NothingAnnounced DEF SaveFails, SaveRenames
  <2>. QED  BY <2>1, <2>2, <2>3 DEF MgInv
<1>4. ASSUME MgInv, Installs PROVE MgInv'
  <2>1. announced' \in BOOLEAN /\ told' \in 0 .. 2 /\ AnnouncedIsNeeded'
    BY <1>4, AnnouncingFits DEF Installs
  <2>2. MgTypeOK'
    BY <1>4, <2>1 DEF Installs, MgInv, MgTypeOK
  <2>3. SavedIsChosen' /\ SettingsAreWhole'
    BY <1>4 DEF Installs, MgInv, SavedIsChosen, SettingsAreWhole
  <2>. QED  BY <2>1, <2>2, <2>3 DEF MgInv
<1>5. ASSUME MgInv, Changed PROVE MgInv'
  <2>1. announced' \in BOOLEAN /\ told' \in 0 .. 2 /\ AnnouncedIsNeeded'
    BY <1>5, AnnouncingFits DEF Changed
  <2>2. MgTypeOK'
    BY <1>5, <2>1 DEF Changed, MgInv, MgTypeOK
  <2>3. SavedIsChosen' /\ SettingsAreWhole'
    BY <1>5 DEF Changed, MgInv, SavedIsChosen, SettingsAreWhole
  <2>. QED  BY <2>1, <2>2, <2>3 DEF MgInv
<1>6. ASSUME MgInv, NEW m \in Built, DiskChanges(m) PROVE MgInv'
  <2>1. MgTypeOK'
    BY <1>6 DEF DiskChanges, MgInv, MgTypeOK
  <2>2. SavedIsChosen' /\ SettingsAreWhole'
    BY <1>6 DEF DiskChanges, MgInv, SavedIsChosen, SettingsAreWhole
  <2>3. AnnouncedIsNeeded'
    BY <1>6, NothingAnnounced DEF DiskChanges
  <2>. QED  BY <2>1, <2>2, <2>3 DEF MgInv
<1>7. ASSUME MgInv, Goes PROVE MgInv'
  <2>1. MgTypeOK'
    BY <1>7 DEF Goes, MgInv, MgTypeOK
  <2>2. SavedIsChosen' /\ SettingsAreWhole' /\ AnnouncedIsNeeded'
    BY <1>7 DEF Goes, MgInv, SavedIsChosen, SettingsAreWhole, AnnouncedIsNeeded
  <2>. QED  BY <2>1, <2>2 DEF MgInv
<1>8. ASSUME MgInv, Comes PROVE MgInv'
  <2>1. file \in Settings
    BY <1>8 DEF MgInv, MgTypeOK
  <2>2. /\ mpc' = "serving" /\ file' = file /\ chosen' = file /\ settled' = file /\ trying' = file
        /\ started' = PlanOf(file, onDisk) /\ announced' = FALSE /\ told' = 0
        /\ UNCHANGED <<onDisk, changed, patches>>
    BY <1>8, <2>1 DEF Comes
  <2>3. MgTypeOK'
    <3>1. started' \in [Feature -> SUBSET Built]
      BY <2>1, <2>2, PlansAre
    <3>2. onDisk' \subseteq Built /\ changed' \in BOOLEAN /\ patches' \in 0 .. Patches
      BY <1>8, <2>2 DEF MgInv, MgTypeOK
    <3>3. announced' \in BOOLEAN /\ mpc' \in {"down", "serving", "saving", "saved"}
      BY <2>2
    <3>4. told' \in 0 .. 2
      BY <2>2
    <3>. QED  BY <2>1, <2>2, <3>1, <3>2, <3>3, <3>4 DEF MgTypeOK
  <2>4. SavedIsChosen' /\ SettingsAreWhole'
    BY <2>2 DEF SavedIsChosen, SettingsAreWhole
  <2>5. AnnouncedIsNeeded'
    <3>1. NeedsRestart(chosen', started', onDisk') = FALSE
      BY <2>2, StartSettles
    <3>. QED  BY <2>2, <3>1 DEF AnnouncedIsNeeded
  <2>. QED  BY <2>3, <2>4, <2>5 DEF MgInv
<1>9. MgInv /\ [MgNext]_mgvars => MgInv'
  BY <1>1, <1>2, <1>3, <1>4, <1>5, <1>6, <1>7, <1>8 DEF MgNext
<1>. QED  BY <1>9, MgInvInit, PTL DEF MgSpec

(* The secrets of a text.                                                  *)
LEMMA KeysAre ==
    ASSUME NEW doc \in Seq(NamedKeys)
    PROVE  /\ KeysIn(doc) \subseteq Secret
           /\ \A s : s \in KeysIn(doc) <=> \E i \in 1 .. Len(doc) : doc[i].key = s
<1>1. \A i \in 1 .. Len(doc) : doc[i] \in NamedKeys
  OBVIOUS
<1>2. \A k \in NamedKeys : k.key \in Secret
  BY DEF NamedKeys
<1>3. KeysIn(doc) = {k.key : k \in {doc[i] : i \in 1 .. Len(doc)}}
  BY DEF KeysIn, ToSet
<1>. QED  BY <1>1, <1>2, <1>3

(* No twins, place by place.                                               *)
LEMMA TwinsAre ==
    ASSUME NEW doc \in Seq(NamedKeys)
    PROVE  NoTwins(doc) <=>
              \A j, k \in 1 .. Len(doc) : j # k =>
                  doc[j].key # doc[k].key /\ (doc[j].name # doc[k].name \/ doc[j].name = NoLabel)
BY DEF NoTwins

(* A key that may be added is no twin.                                     *)
LEMMA KeyAdded ==
    ASSUME NEW doc \in Seq(NamedKeys), NoTwins(doc), NEW n \in KeyName, NEW s \in Secret, MayAdd(doc, n, s)
    PROVE  LET more == Append(doc, NamedKey(n, s)) IN
           more \in Seq(NamedKeys) /\ NoTwins(more) /\ KeysIn(more) = KeysIn(doc) \cup {s}
<1> DEFINE key == NamedKey(n, s)
           more == Append(doc, key)
           L == Len(doc)
<1>1. key \in NamedKeys /\ key.name = n /\ key.key = s
  BY DEF NamedKey, NamedKeys
<1>2. \A i \in 1 .. L : doc[i].key # s /\ (n # NoLabel => doc[i].name # n)
  <2>1. \A i \in 1 .. L : doc[i].key \in KeysIn(doc) /\ doc[i] \in ToSet(doc)
    BY KeysAre DEF ToSet
  <2>. QED  BY <2>1 DEF MayAdd
<1> HIDE DEF key
<1>3. /\ more \in Seq(NamedKeys) /\ L \in Nat /\ Len(more) = L + 1
      /\ more[L + 1] = key /\ \A i \in 1 .. L : more[i] = doc[i]
  BY <1>1
<1> HIDE DEF more, L
<1>4. NoTwins(more)
  <2> SUFFICES ASSUME NEW j \in 1 .. L + 1, NEW k \in 1 .. L + 1, j # k
               PROVE  more[j].key # more[k].key /\ (more[j].name # more[k].name \/ more[j].name = NoLabel)
    BY <1>3, TwinsAre
  <2>1. CASE j \in 1 .. L /\ k \in 1 .. L
    BY <1>3, <2>1, TwinsAre DEF L
  <2>2. CASE j = L + 1 /\ k \in 1 .. L
    BY <1>1, <1>2, <1>3, <2>2
  <2>3. CASE k = L + 1 /\ j \in 1 .. L
    BY <1>1, <1>2, <1>3, <2>3
  <2>. QED  BY <1>3, <2>1, <2>2, <2>3
<1>5. ASSUME NEW x PROVE x \in KeysIn(more) <=> x \in KeysIn(doc) \cup {s}
  <2>1. x \in KeysIn(more) <=> \E i \in 1 .. L + 1 : more[i].key = x
    BY <1>3, KeysAre
  <2>2. x \in KeysIn(doc) <=> \E i \in 1 .. L : doc[i].key = x
    BY KeysAre DEF L
  <2>3. (\E i \in 1 .. L + 1 : more[i].key = x) <=> (x = s \/ \E i \in 1 .. L : doc[i].key = x)
    BY <1>1, <1>3
  <2>. QED  BY <2>1, <2>2, <2>3
<1>. QED  BY <1>3, <1>4, <1>5 DEF more, key

LEMMA KeysJoined ==
    ASSUME NEW s \in Seq(NamedKeys), NEW t \in Seq(NamedKeys)
    PROVE  /\ s \o t \in Seq(NamedKeys) /\ Len(s \o t) = Len(s) + Len(t)
           /\ \A i \in 1 .. Len(s) : (s \o t)[i] = s[i]
           /\ \A j \in 1 .. Len(t) : (s \o t)[Len(s) + j] = t[j]
OBVIOUS

(* Where one key is taken out, the others go on.                           *)
LEMMA OneTakenOut ==
    ASSUME NEW doc \in Seq(NamedKeys), NEW i \in 1 .. Len(doc)
    PROVE  LET less == RemoveAt(doc, i) IN
           /\ less \in Seq(NamedKeys) /\ Len(less) = Len(doc) - 1
           /\ \A j \in 1 .. Len(doc) - 1 : less[j] = doc[IF j < i THEN j ELSE j + 1]
<1> PICK L \in Nat : L = Len(doc)
  OBVIOUS
<1> PICK a : a = SubSeq(doc, 1, i - 1)
  OBVIOUS
<1> PICK b : b = SubSeq(doc, i + 1, L)
  OBVIOUS
<1>1. a \in Seq(NamedKeys) /\ Len(a) = i - 1 /\ \A j \in 1 .. i - 1 : a[j] = doc[j]
  OBVIOUS
<1>2. b \in Seq(NamedKeys) /\ Len(b) = L - i /\ \A j \in 1 .. L - i : b[j] = doc[i + j]
  <2>1. b \in Seq(NamedKeys)
    OBVIOUS
  <2>2. Len(b) = L - i
    OBVIOUS
  <2>3. \A j \in 1 .. L - i : b[j] = doc[i + j]
    OBVIOUS
  <2>. QED  BY <2>1, <2>2, <2>3
<1> PICK less : less = a \o b
  OBVIOUS
<1>3. less = RemoveAt(doc, i)
  BY DEF RemoveAt
<1>4. /\ less \in Seq(NamedKeys) /\ Len(less) = Len(a) + Len(b)
      /\ \A j \in 1 .. Len(a) : less[j] = a[j]
      /\ \A j \in 1 .. Len(b) : less[Len(a) + j] = b[j]
  <2>1. a \in Seq(NamedKeys) /\ b \in Seq(NamedKeys)
    BY <1>1, <1>2
  <2>2. /\ a \o b \in Seq(NamedKeys) /\ Len(a \o b) = Len(a) + Len(b)
        /\ \A j \in 1 .. Len(a) : (a \o b)[j] = a[j]
        /\ \A j \in 1 .. Len(b) : (a \o b)[Len(a) + j] = b[j]
    BY ONLY <2>1, KeysJoined
  <2>. QED  BY ONLY <2>2, less = a \o b
<1>5. ASSUME NEW j \in 1 .. i - 1 PROVE less[j] = doc[j]
  <2>1. less[j] = a[j]
    BY <1>1, <1>4
  <2>. QED  BY <1>1, <2>1
<1>6. ASSUME NEW j \in i .. L - 1 PROVE less[j] = doc[j + 1]
  <2>1. j - (i - 1) \in 1 .. L - i /\ i + (j - (i - 1)) = j + 1 /\ (i - 1) + (j - (i - 1)) = j
    OBVIOUS
  <2>2. less[j] = b[j - (i - 1)]
    <3>1. Len(a) = i - 1 /\ Len(b) = L - i
      BY <1>1, <1>2
    <3>2. less[(i - 1) + (j - (i - 1))] = b[j - (i - 1)]
      BY ONLY <1>4, <2>1, <3>1
    <3>. QED  BY <2>1, <3>2
  <2>. QED  BY <1>2, <2>1, <2>2
<1>7. Len(less) = L - 1
  <2>1. (i - 1) + (L - i) = L - 1
    OBVIOUS
  <2>. QED  BY <1>1, <1>2, <1>4, <2>1
<1>8. ASSUME NEW j \in 1 .. L - 1 PROVE less[j] = doc[IF j < i THEN j ELSE j + 1]
  <2>1. CASE j < i
    <3>1. j \in 1 .. i - 1
      BY ONLY <2>1, i \in Nat, L \in Nat, j \in 1 .. L - 1
    <3>2. less[j] = doc[j]
      BY <1>5, <3>1
    <3>. QED  BY ONLY <2>1, <3>2
  <2>2. CASE ~(j < i)
    <3>1. j \in i .. L - 1
      BY ONLY <2>2, i \in Nat, L \in Nat, j \in 1 .. L - 1
    <3>2. less[j] = doc[j + 1]
      BY <1>6, <3>1
    <3>. QED  BY ONLY <2>2, <3>2
  <2>. QED  BY <2>1, <2>2
<1>. QED  BY <1>3, <1>4, <1>7, <1>8

(* The first of some places.                                               *)
LEMMA FirstOfSome ==
    ASSUME NEW T, NEW b \in Nat, T \subseteq 1 .. b, T # {}
    PROVE  \E i \in T : \A j \in T : i <= j
<1> DEFINE R == OpToRel(<, Nat)
<1>1. IsWellFoundedOn(R, Nat)
  BY NatLessThanWellFounded
<1>2. T \subseteq Nat
  OBVIOUS
<1>3. PICK i \in T : \A j \in T : <<j, i>> \notin R
  <2> HIDE DEF R
  <2>. QED  BY <1>1, <1>2, WFMin
<1>4. ASSUME NEW j \in T PROVE i <= j
  <2>1. i \in Nat /\ j \in Nat
    BY <1>2
  <2>2. j < i => <<j, i>> \in R
    BY <2>1 DEF OpToRel
  <2>3. ~(j < i)
    BY <1>3, <2>2
  <2> HIDE DEF R
  <2>. QED  BY ONLY <2>1, <2>3
<1>. QED  BY <1>4

(* Removing a key removes that key.                                        *)
LEMMA KeyRemoved ==
    ASSUME NEW doc \in Seq(NamedKeys), NoTwins(doc), NEW x
    PROVE  Without(doc, x) \in Seq(NamedKeys) /\ NoTwins(Without(doc, x)) /\ KeysIn(Without(doc, x)) \subseteq KeysIn(doc)
<1> DEFINE hit == {i \in DOMAIN doc : doc[i].name = x \/ doc[i].key = x}
<1> PICK L \in Nat : L = Len(doc)
  OBVIOUS
<1>1. hit \subseteq 1 .. L
  OBVIOUS
<1>2. CASE hit = {}
  BY <1>2 DEF Without
<1>3. CASE hit # {}
  <2> PICK i : i = CHOOSE k \in hit : \A j \in hit : k <= j
    OBVIOUS
  <2>1. i \in hit
    <3> HIDE DEF hit
    <3>1. \E k \in hit : \A j \in hit : k <= j
      BY <1>1, <1>3, FirstOfSome
    <3>. QED  BY <3>1
  <2>2. i \in 1 .. L
    BY <1>1, <2>1
  <2> PICK less : less = RemoveAt(doc, i)
    OBVIOUS
  <2>3. Without(doc, x) = less
    BY <1>3 DEF Without
  <2> HIDE DEF hit
  <2>4. /\ less \in Seq(NamedKeys) /\ Len(less) = L - 1
        /\ \A j \in 1 .. L - 1 : less[j] = doc[IF j < i THEN j ELSE j + 1]
    BY <2>2, OneTakenOut, ZenonT(60)
  <2> DEFINE at(j) == IF j < i THEN j ELSE j + 1
  <2>5. \A j \in 1 .. L - 1 : at(j) \in 1 .. L /\ less[j] = doc[at(j)]
    BY <2>2, <2>4
  <2>6. \A j, k \in 1 .. L - 1 : j # k => at(j) # at(k)
    BY <2>2
  <2> HIDE DEF at
  <2>7. NoTwins(less)
    <3> SUFFICES ASSUME NEW j \in 1 .. L - 1, NEW k \in 1 .. L - 1, j # k
                 PROVE  less[j].key # less[k].key /\ (less[j].name # less[k].name \/ less[j].name = NoLabel)
      BY <2>4, TwinsAre
    <3>1. \A m, n \in 1 .. L : m # n =>
             doc[m].key # doc[n].key /\ (doc[m].name # doc[n].name \/ doc[m].name = NoLabel)
      BY TwinsAre
    <3>. QED  BY <2>5, <2>6, <3>1
  <2>8. KeysIn(less) \subseteq KeysIn(doc)
    <3>1. ASSUME NEW s \in KeysIn(less) PROVE s \in KeysIn(doc)
      <4>1. PICK j \in 1 .. L - 1 : less[j].key = s
        <5>1. less \in Seq(NamedKeys) /\ Len(less) = L - 1 /\ s \in KeysIn(less)
          BY <2>4, <3>1
        <5>2. \E j \in 1 .. Len(less) : less[j].key = s
          BY ONLY <5>1, KeysAre
        <5>. QED  BY <5>1, <5>2
      <4>2. at(j) \in 1 .. L /\ doc[at(j)].key = s
        BY <2>5, <4>1
      <4>. QED  BY <4>2, KeysAre
    <3>. QED  BY <3>1
  <2>. QED  BY <2>3, <2>4, <2>7, <2>8
<1>. QED  BY <1>2, <1>3

LEMMA KeysRemoved ==
    ASSUME NEW doc \in Seq(NamedKeys), NoTwins(doc), NEW left \in Removals(doc)
    PROVE  left \in Seq(NamedKeys) /\ NoTwins(left) /\ KeysIn(left) \subseteq KeysIn(doc)
<1>1. CASE \E x \in KeyName \cup Secret : left = Without(doc, x)
  BY <1>1, KeyRemoved
<1>2. CASE \E x, y \in KeyName : left = Without(Without(doc, x), y)
  <2> PICK x, y \in KeyName : left = Without(Without(doc, x), y)
    BY <1>2
  <2> PICK once : once = Without(doc, x)
    OBVIOUS
  <2>1. once \in Seq(NamedKeys) /\ NoTwins(once) /\ KeysIn(once) \subseteq KeysIn(doc)
    BY KeyRemoved
  <2>2. left = Without(once, y)
    OBVIOUS
  <2>3. left \in Seq(NamedKeys) /\ NoTwins(left) /\ KeysIn(left) \subseteq KeysIn(once)
    BY <2>1, <2>2, KeyRemoved
  <2>. QED  BY <2>1, <2>3
<1>. QED  BY <1>1, <1>2 DEF Removals

(* The first file init writes.                                             *)
LEMMA FirstKeys ==
    ASSUME NEW a \in Secret, NEW u \in Secret, a # u
    PROVE  LET doc == <<NamedKey("admin", a), NamedKey("user", u)>> IN
           doc \in Seq(NamedKeys) /\ NoTwins(doc) /\ KeysIn(doc) = {a, u}
<1> DEFINE p == NamedKey("admin", a)
           q == NamedKey("user", u)
<1>1. p \in NamedKeys /\ q \in NamedKeys /\ p.key = a /\ q.key = u /\ p.name # q.name
  BY DEF NamedKey, NamedKeys
<1> HIDE DEF p, q
<1> PICK doc : doc = <<p, q>>
  OBVIOUS
<1>2. doc \in Seq(NamedKeys) /\ Len(doc) = 2 /\ doc[1] = p /\ doc[2] = q
  BY <1>1
<1>3. NoTwins(doc)
  <2> SUFFICES ASSUME NEW j \in 1 .. 2, NEW k \in 1 .. 2, j # k
               PROVE  doc[j].key # doc[k].key /\ doc[j].name # doc[k].name
    BY <1>2, TwinsAre
  <2>1. (j = 1 /\ k = 2) \/ (j = 2 /\ k = 1)
    OBVIOUS
  <2>. QED  BY <1>1, <1>2, <2>1
<1>4. ASSUME NEW x PROVE x \in KeysIn(doc) <=> x \in {a, u}
  <2>1. x \in KeysIn(doc) <=> \E i \in 1 .. 2 : doc[i].key = x
    BY <1>2, KeysAre
  <2>. QED  BY <1>1, <1>2, <2>1
<1>. QED  BY <1>2, <1>3, <1>4 DEF p, q

Rests == {"idle", "ok", "error", "gone"}

(* What can be read is the text the name leads to.                         *)
LEMMA ReadableIs ==
    ASSUME FilesOK
    PROVE  Readable <=> inode["path"] # None /\ text[inode["path"]] # Garbled
<1>1. CASE inode["path"] = None
  BY <1>1 DEF Readable, FileText
<1>2. CASE inode["path"] # None
  <2>1. FileText = text[inode["path"]]
    BY <1>2 DEF FileText
  <2>2. text[inode["path"]] \in Texts
    BY <1>2 DEF FilesOK
  <2>3. FileText # None
    BY <2>1, <2>2, KeyAssumption DEF Texts
  <2>. QED  BY <1>2, <2>1, <2>3 DEF Readable
<1>. QED  BY <1>1, <1>2

LEMMA ReadIs ==
    ASSUME KeyInv, Readable
    PROVE  FileText \in Seq(NamedKeys) /\ NoTwins(FileText)
<1>1. inode["path"] # None /\ text[inode["path"]] # Garbled /\ FileText = text[inode["path"]]
  BY ReadableIs DEF KeyInv, KeyTypeOK, FileText
<1>2. inode["path"] \in 1 .. Len(text) /\ text \in Seq(Texts)
  BY <1>1 DEF KeyInv, KeyTypeOK, FilesOK
<1>3. text[inode["path"]] \in Texts /\ inode["path"] \in DOMAIN text
  BY <1>2
<1>. QED  BY <1>1, <1>3 DEF Texts, KeyInv, OneNameOneKey

LEMMA KeyInvInit == KeyInit => KeyInv
<1> SUFFICES ASSUME KeyInit PROVE KeyInv
  OBVIOUS
<1> PICK t \in Originals :
          /\ inode = [f \in {"path", "tmp"} |-> IF f = "path" /\ t # None THEN 1 ELSE None]
          /\ text = IF t = None THEN <<>> ELSE <<t>>
          /\ owed = IF t = None THEN {} ELSE KeysIn(t)
          /\ excused = (t = None)
  BY DEF KeyInit
<1>1. cmd = [c \in Command |-> Idle] /\ maybe = {}
  BY DEF KeyInit
<1>2. Idle \in Processes /\ Idle.at = "idle" /\ Idle.doc = <<>>
  BY DEF Idle, Processes, Steps
<1>3. inode["path"] = (IF t # None THEN 1 ELSE None) /\ inode["tmp"] = None
  OBVIOUS
<1>4. t # None => t \in Seq(NamedKeys) /\ NoTwins(t)
  BY KeyAssumption
<1>5. FilesOK
  <2>1. CASE t = None
    BY <1>3, <2>1 DEF FilesOK
  <2>2. CASE t # None
    <3>1. text = <<t>> /\ t \in Texts
      BY <1>4, <2>2 DEF Texts
    <3>2. text \in Seq(Texts) /\ Len(text) = 1
      BY <3>1
    <3>3. 1 # None
      BY KeyAssumption
    <3>. QED  BY <1>3, <2>2, <3>2, <3>3 DEF FilesOK
  <2>. QED  BY <2>1, <2>2
<1>6. KeyTypeOK
  <2>1. owed \subseteq Secret
    BY <1>4, KeysAre
  <2>. QED  BY <1>1, <1>2, <1>5, <2>1 DEF KeyTypeOK
<1>7. OneNameOneKey
  <2>1. CASE t = None
    BY <2>1 DEF OneNameOneKey
  <2>2. CASE t # None
    <3>1. \A i \in DOMAIN text : text[i] = t
      BY <2>2
    <3>. QED  BY <1>4, <2>2, <3>1 DEF OneNameOneKey
  <2>. QED  BY <2>1, <2>2
<1>8. \A c \in Command : DocFits(cmd[c]) /\ ~Running(c)
  BY <1>1, <1>2 DEF DocFits, NoTwins, Running
<1>9. ~excused => KeysFit
  <2> SUFFICES ASSUME t # None PROVE KeysFit
    OBVIOUS
  <2>1. inode["path"] = 1 /\ text[1] = t
    BY <1>3
  <2>2. Readable /\ FileText = t
    <3>1. 1 # None /\ t # Garbled
      BY <1>4, KeyAssumption
    <3>. QED  BY <1>5, <2>1, <3>1, ReadableIs DEF FileText
  <2>. QED  BY <1>1, <2>2 DEF KeysFit
<1>. QED  BY <1>6, <1>7, <1>8, <1>9 DEF KeyInv

(* One command moves on, and where it is answered for, it is alone.        *)
LEMMA CommandMovesOn ==
    ASSUME KeyInv, NEW c \in Command,
           cmd' \in [Command -> Processes], \A d \in Command \ {c} : cmd'[d] = cmd[d],
           FilesOK', Len(text') >= Len(text), OneNameOneKey', DocFits(cmd[c])',
           owed' \subseteq Secret, maybe' \subseteq Secret, excused' \in BOOLEAN,
           ~excused' => /\ KeysFit' /\ (cmd'[c].at \notin Rests => SaveFits(cmd[c])')
                        /\ \A d \in Command \ {c} : cmd[d].at \in Rests
    PROVE  KeyInv'
<1>1. KeyTypeOK'
  BY DEF KeyTypeOK
<1>2. ASSUME NEW d \in Command PROVE DocFits(cmd[d])'
  <2>1. CASE d = c
    BY <2>1
  <2>2. CASE d # c
    <3>1. cmd'[d] = cmd[d] /\ DocFits(cmd[d])
      BY <2>2 DEF KeyInv
    <3>2. Len(text) \in Nat /\ Len(text') \in Nat
      BY <1>1 DEF KeyInv, KeyTypeOK, FilesOK
    <3>3. \A n \in 1 .. Len(text) : n \in 1 .. Len(text')
      BY <3>2
    <3>. QED  BY <3>1, <3>3 DEF DocFits
  <2>. QED  BY <2>1, <2>2
<1>3. ASSUME ~excused'
      PROVE  KeysFit' /\ \A d \in Command : Running(d)' => SaveFits(cmd[d])' /\ \A e \in Command \ {d} : ~Running(e)'
  <2>1. \A d \in Command \ {c} : ~Running(d)'
    BY <1>3 DEF Running, Rests
  <2>2. Running(c)' => SaveFits(cmd[c])'
    BY <1>3 DEF Running, Rests
  <2>. QED  BY <1>3, <2>1, <2>2
<1>. QED  BY <1>1, <1>2, <1>3 DEF KeyInv

(* A command ends with nothing done, or with nothing more to do.           *)
LEMMA OneQuits ==
    ASSUME KeyInv, NEW c \in Command, NEW how \in {"ok", "error", "gone"}, Quits(c, how),
           UNCHANGED <<inode, text, owed, maybe, excused>>
    PROVE  KeyInv'
<1>1. cmd' = [cmd EXCEPT ![c].at = how] /\ cmd \in [Command -> Processes]
  BY DEF Quits, KeyInv, KeyTypeOK
<1>2. cmd' \in [Command -> Processes] /\ cmd'[c].at = how /\ cmd'[c].doc = cmd[c].doc
  BY <1>1 DEF Processes, Steps
<1>3. \A d \in Command \ {c} : cmd'[d] = cmd[d]
  BY <1>1
<1>4. FilesOK' /\ OneNameOneKey' /\ FileText' = FileText
  BY DEF KeyInv, KeyTypeOK, FilesOK, OneNameOneKey, FileText
<1>5. KeyTypeOK'
  BY <1>2, <1>4 DEF KeyInv, KeyTypeOK
<1>6. ASSUME NEW d \in Command PROVE DocFits(cmd[d])'
  BY <1>2, <1>3 DEF KeyInv, DocFits
<1>7. ASSUME ~excused', NEW d \in Command, Running(d)'
      PROVE  SaveFits(cmd[d])' /\ \A e \in Command \ {d} : ~Running(e)'
  <2>1. d # c /\ cmd'[d] = cmd[d] /\ Running(d) /\ ~excused
    BY <1>2, <1>3, <1>7 DEF Running
  <2>2. SaveFits(cmd[d]) /\ \A e \in Command \ {d} : ~Running(e)
    BY <2>1 DEF KeyInv
  <2>3. SaveFits(cmd[d])'
    BY <1>4, <2>1, <2>2 DEF SaveFits
  <2>4. ASSUME NEW e \in Command \ {d} PROVE ~Running(e)'
    BY <1>2, <1>3, <2>2 DEF Running
  <2>. QED  BY <2>3, <2>4
<1>8. ~excused' => KeysFit'
  BY <1>4 DEF KeyInv, KeysFit, Readable
<1>. QED  BY <1>4, <1>5, <1>6, <1>7, <1>8 DEF KeyInv

(* A save that is begun.                                                   *)
LEMMA SavingKeepsInv ==
    ASSUME KeyInv, NEW c \in Command, cmd[c].at = "idle", Readable, NEW doc \in Seq(NamedKeys), NoTwins(doc),
           NEW ks \in SUBSET Secret, NEW drops \in BOOLEAN, Saves(c, doc, ks, drops),
           KeysIn(doc) = IF drops THEN KeysIn(FileText) \ ks ELSE KeysIn(FileText) \cup ks,
           UNCHANGED <<inode, text, owed>>
    PROVE  KeyInv'
<1> DEFINE r == [at |-> "saving", doc |-> doc, fd |-> None, keys |-> ks, drops |-> drops]
<1>1. cmd' = [cmd EXCEPT ![c] = r] /\ cmd \in [Command -> Processes] /\ maybe' = maybe \cup ks
  BY DEF Saves, KeyInv, KeyTypeOK
<1>2. excused' = (excused \/ \E d \in Command : Running(d)) /\ excused \in BOOLEAN
  BY DEF Saves, KeyInv, KeyTypeOK
<1>3. r \in Processes
  BY DEF Processes, Steps
<1>4. cmd' \in [Command -> Processes] /\ cmd'[c] = r /\ \A d \in Command \ {c} : cmd'[d] = cmd[d]
  BY <1>1, <1>3
<1>5. FilesOK' /\ OneNameOneKey' /\ FileText' = FileText
  BY DEF KeyInv, KeyTypeOK, FilesOK, OneNameOneKey, FileText
<1>6. DocFits(cmd[c])'
  BY <1>4 DEF DocFits
<1>7. owed' \subseteq Secret /\ maybe' \subseteq Secret /\ excused' \in BOOLEAN
  BY <1>1, <1>2 DEF KeyInv, KeyTypeOK
<1>8. ASSUME ~excused'
      PROVE  KeysFit' /\ SaveFits(cmd[c])' /\ \A d \in Command \ {c} : cmd[d].at \in Rests
  <2>1. ~excused /\ \A d \in Command : ~Running(d)
    BY <1>2, <1>8
  <2>2. KeysFit'
    BY <1>1, <1>5, <2>1 DEF KeyInv, KeysFit, Readable
  <2>3. SaveFits(cmd[c])'
    BY <1>1, <1>4, <1>5 DEF SaveFits
  <2>4. \A d \in Command \ {c} : cmd[d].at \in Rests
    BY <2>1 DEF Running, Rests
  <2>. QED  BY <2>2, <2>3, <2>4
<1>9. Len(text') >= Len(text)
  <2>1. Len(text) \in Nat /\ text' = text
    BY DEF KeyInv, KeyTypeOK, FilesOK
  <2>. QED  BY <2>1
<1>. QED  BY <1>4, <1>5, <1>6, <1>7, <1>8, <1>9, CommandMovesOn

LEMMA IssueKeepsInv == ASSUME KeyInv, NEW c \in Command, Issue(c) PROVE KeyInv'
<1> PICK n \in KeyName, s \in Secret :
          IF Readable /\ MayAdd(FileText, n, s)
          THEN Saves(c, Append(FileText, NamedKey(n, s)), {s}, FALSE)
          ELSE Quits(c, "error") /\ UNCHANGED <<maybe, excused>>
  BY DEF Issue
<1>1. cmd[c].at = "idle" /\ UNCHANGED <<inode, text, owed>>
  BY DEF Issue
<1>2. CASE Readable /\ MayAdd(FileText, n, s)
  <2>1. FileText \in Seq(NamedKeys) /\ NoTwins(FileText)
    BY <1>2, ReadIs
  <2> PICK doc : doc = Append(FileText, NamedKey(n, s))
    OBVIOUS
  <2>2. doc \in Seq(NamedKeys) /\ NoTwins(doc) /\ KeysIn(doc) = KeysIn(FileText) \cup {s}
    BY <1>2, <2>1, KeyAdded
  <2>3. Saves(c, doc, {s}, FALSE) /\ {s} \in SUBSET Secret
    BY <1>2
  <2>. QED  BY <1>1, <1>2, <2>2, <2>3, SavingKeepsInv
<1>3. CASE ~(Readable /\ MayAdd(FileText, n, s))
  BY <1>1, <1>3, OneQuits
<1>. QED  BY <1>2, <1>3

LEMMA RemoveKeepsInv == ASSUME KeyInv, NEW c \in Command, RemoveFrom(c) PROVE KeyInv'
<1>1. cmd[c].at = "idle" /\ UNCHANGED <<inode, text, owed>>
  BY DEF RemoveFrom
<1>2. CASE Quits(c, "error") /\ UNCHANGED <<maybe, excused>>
  BY <1>1, <1>2, OneQuits
<1>3. ASSUME Readable, NEW left \in Removals(FileText), Saves(c, left, KeysIn(FileText) \ KeysIn(left), TRUE)
      PROVE  KeyInv'
  <2>1. FileText \in Seq(NamedKeys) /\ NoTwins(FileText)
    BY <1>3, ReadIs
  <2>2. left \in Seq(NamedKeys) /\ NoTwins(left) /\ KeysIn(left) \subseteq KeysIn(FileText)
    BY <2>1, KeysRemoved
  <2> PICK ks : ks = KeysIn(FileText) \ KeysIn(left)
    OBVIOUS
  <2>3. ks \in SUBSET Secret /\ KeysIn(left) = KeysIn(FileText) \ ks
    BY <2>1, <2>2, KeysAre
  <2>. QED  BY <1>1, <1>3, <2>2, <2>3, SavingKeepsInv
<1>. QED  BY <1>2, <1>3 DEF RemoveFrom

(* A file that is opened: it is empty, and the others are as they were.    *)
LEMMA OpenedFile ==
    ASSUME KeyInv, NEW c \in Command, NEW f \in {"path", "tmp"}, NEW next \in Steps, Opened(c, f, next)
    PROVE  /\ FilesOK' /\ OneNameOneKey' /\ Len(text') >= Len(text)
           /\ inode'[f] \in 1 .. Len(text') /\ inode'[f] # None /\ text'[inode'[f]] = <<>>
           /\ \A g \in {"path", "tmp"} \ {f} : inode'[g] = inode[g] /\ (inode[g] # None => text'[inode[g]] = text[inode[g]])
           /\ cmd' \in [Command -> Processes] /\ \A d \in Command \ {c} : cmd'[d] = cmd[d]
           /\ cmd'[c].at = next /\ cmd'[c].fd = inode'[f]
           /\ cmd'[c].doc = cmd[c].doc /\ cmd'[c].keys = cmd[c].keys /\ cmd'[c].drops = cmd[c].drops
<1> PICK i : i = IF inode[f] = None THEN Len(text) + 1 ELSE inode[f]
  OBVIOUS
<1>1. /\ inode' = [inode EXCEPT ![f] = i]
      /\ text' = IF inode[f] = None THEN Append(text, <<>>) ELSE [text EXCEPT ![i] = <<>>]
      /\ cmd' = [cmd EXCEPT ![c].at = next, ![c].fd = i]
  BY DEF Opened
<1>2. FilesOK /\ OneNameOneKey /\ cmd \in [Command -> Processes]
  BY DEF KeyInv, KeyTypeOK
<1> PICK L \in Nat : L = Len(text)
  BY <1>2 DEF FilesOK
<1>3. <<>> \in Texts /\ text \in Seq(Texts)
  BY <1>2 DEF Texts, FilesOK
<1> PICK M \in Nat : M = IF inode[f] = None THEN L + 1 ELSE L
  OBVIOUS
<1>4. i \in 1 .. M /\ M >= L
  BY <1>2 DEF FilesOK
<1>5. /\ text' \in Seq(Texts) /\ Len(text') = M /\ text'[i] = <<>>
      /\ \A j \in 1 .. L : j # i => text'[j] = text[j]
  <2>1. CASE inode[f] = None
    BY <1>1, <1>3, <2>1
  <2>2. CASE inode[f] # None
    <3>1. text' = [text EXCEPT ![i] = <<>>] /\ i \in 1 .. L
      BY <1>1, <1>4, <2>2
    <3>. QED  BY <1>3, <2>2, <3>1
  <2>. QED  BY <2>1, <2>2
<1>6. inode' \in [{"path", "tmp"} -> Nat \cup {None}] /\ inode'[f] = i /\ i # None
  <2>1. i \in Nat /\ i # None
    BY <1>4, KeyAssumption
  <2>. QED  BY <1>1, <1>2, <2>1 DEF FilesOK
<1>7. ASSUME NEW g \in {"path", "tmp"} \ {f}
      PROVE  inode'[g] = inode[g] /\ (inode[g] # None => inode[g] \in 1 .. L /\ inode[g] # i /\ text'[inode[g]] = text[inode[g]])
  <2>1. inode'[g] = inode[g]
    BY <1>1, <1>2 DEF FilesOK
  <2>2. ASSUME inode[g] # None PROVE inode[g] \in 1 .. L /\ inode[g] # i
    <3>1. inode[g] \in 1 .. L
      BY <1>2, <2>2 DEF FilesOK
    <3>2. CASE inode[f] = None
      BY <3>1, <3>2
    <3>3. CASE inode[f] # None
      BY <1>2, <2>2, <3>3 DEF FilesOK
    <3>. QED  BY <3>1, <3>2, <3>3
  <2>. QED  BY <1>5, <2>1, <2>2
<1>8. FilesOK'
  <2>1. ASSUME NEW g \in {"path", "tmp"}, inode'[g] # None PROVE inode'[g] \in 1 .. Len(text')
    <3>1. CASE g = f
      BY <1>4, <1>5, <1>6, <3>1
    <3>2. CASE g # f
      <4>1. inode'[g] \in 1 .. L
        BY <1>7, <2>1, <3>2
      <4>. QED  BY <1>4, <1>5, <4>1
    <3>. QED  BY <3>1, <3>2
  <2>2. inode'["path"] # None => inode'["path"] # inode'["tmp"]
    BY <1>6, <1>7
  <2>. QED  BY <1>5, <1>6, <2>1, <2>2 DEF FilesOK
<1>9. OneNameOneKey'
  <2>1. ASSUME NEW j \in 1 .. M PROVE text'[j] # Garbled => NoTwins(text'[j])
    <3>1. CASE j = i
      BY <1>5, <3>1 DEF NoTwins
    <3>2. CASE j # i
      <4>1. j \in 1 .. L
        BY <1>1, <3>2
      <4>. QED  BY <1>2, <1>3, <1>5, <3>2, <4>1 DEF OneNameOneKey
    <3>. QED  BY <3>1, <3>2
  <2>2. DOMAIN text' = 1 .. M
    BY <1>5
  <2>. QED  BY <2>1, <2>2 DEF OneNameOneKey
<1>10. cmd[c] \in Processes /\ i \in Nat \cup {None}
  BY <1>2, <1>4
<1>11. /\ cmd' \in [Command -> Processes] /\ \A d \in Command \ {c} : cmd'[d] = cmd[d]
       /\ cmd'[c].at = next /\ cmd'[c].fd = i
       /\ cmd'[c].doc = cmd[c].doc /\ cmd'[c].keys = cmd[c].keys /\ cmd'[c].drops = cmd[c].drops
  BY <1>1, <1>2, <1>10 DEF Processes
<1>12. Len(text') >= Len(text)
  BY <1>4, <1>5
<1>13. inode'[f] \in 1 .. Len(text') /\ text'[inode'[f]] = <<>>
  BY <1>4, <1>5, <1>6
<1>. QED  BY <1>6, <1>7, <1>8, <1>9, <1>11, <1>12, <1>13

(* What is not excused is a save that runs alone.                          *)
LEMMA RunsAlone ==
    ASSUME KeyInv, NEW c \in Command, cmd[c].at \notin Rests, ~excused
    PROVE  KeysFit /\ SaveFits(cmd[c]) /\ \A d \in Command \ {c} : cmd[d].at \in Rests
<1>1. Running(c)
  BY DEF Running, Rests
<1>2. KeysFit /\ SaveFits(cmd[c]) /\ \A d \in Command \ {c} : ~Running(d)
  BY <1>1 DEF KeyInv
<1>. QED  BY <1>2 DEF Running, Rests

LEMMA OpenSaveKeepsInv == ASSUME KeyInv, NEW c \in Command, OpenSave(c) PROVE KeyInv'
<1>1. cmd[c].at = "saving" /\ Opened(c, "tmp", "writing") /\ UNCHANGED <<owed, maybe, excused>>
  BY DEF OpenSave, SaveThrough
<1>2. /\ FilesOK' /\ OneNameOneKey' /\ Len(text') >= Len(text)
      /\ inode'["tmp"] \in 1 .. Len(text') /\ inode'["tmp"] # None /\ text'[inode'["tmp"]] = <<>>
      /\ inode'["path"] = inode["path"] /\ (inode["path"] # None => text'[inode["path"]] = text[inode["path"]])
      /\ cmd' \in [Command -> Processes] /\ \A d \in Command \ {c} : cmd'[d] = cmd[d]
      /\ cmd'[c].at = "writing" /\ cmd'[c].fd = inode'["tmp"]
      /\ cmd'[c].doc = cmd[c].doc /\ cmd'[c].keys = cmd[c].keys /\ cmd'[c].drops = cmd[c].drops
  <2>1. "tmp" \in {"path", "tmp"} /\ "path" \in {"path", "tmp"} \ {"tmp"} /\ "writing" \in Steps
    BY DEF Steps
  <2>. QED  BY <1>1, <2>1, OpenedFile
<1>3. DocFits(cmd[c])'
  BY <1>2 DEF KeyInv, DocFits
<1>4. ASSUME ~excused'
      PROVE  KeysFit' /\ SaveFits(cmd[c])' /\ \A d \in Command \ {c} : cmd[d].at \in Rests
  <2>1. KeysFit /\ SaveFits(cmd[c]) /\ \A d \in Command \ {c} : cmd[d].at \in Rests
    BY <1>1, <1>4, RunsAlone DEF Rests
  <2>2. FileText' = FileText
    BY <1>2 DEF FileText
  <2>3. KeysFit'
    BY <1>1, <2>1, <2>2 DEF KeysFit, Readable
  <2>4. SaveFits(cmd[c])'
    BY <1>1, <1>2, <2>1, <2>2 DEF SaveFits
  <2>. QED  BY <2>1, <2>3, <2>4
<1>5. owed' \subseteq Secret /\ maybe' \subseteq Secret /\ excused' \in BOOLEAN
  BY <1>1 DEF KeyInv, KeyTypeOK
<1>. QED  BY <1>2, <1>3, <1>4, <1>5, CommandMovesOn

LEMMA OpenInitKeepsInv == ASSUME KeyInv, NEW c \in Command, OpenInit(c) PROVE KeyInv'
<1>1. cmd[c].at = "init" /\ Opened(c, "path", "initwriting") /\ UNCHANGED <<owed, maybe, excused>>
  BY DEF OpenInit
<1>2. /\ FilesOK' /\ OneNameOneKey' /\ Len(text') >= Len(text)
      /\ inode'["path"] \in 1 .. Len(text')
      /\ cmd' \in [Command -> Processes] /\ \A d \in Command \ {c} : cmd'[d] = cmd[d]
      /\ cmd'[c].at = "initwriting" /\ cmd'[c].fd = inode'["path"]
      /\ cmd'[c].doc = cmd[c].doc /\ cmd'[c].keys = cmd[c].keys
  <2>1. "path" \in {"path", "tmp"} /\ "initwriting" \in Steps
    BY DEF Steps
  <2>. QED  BY <1>1, <2>1, OpenedFile
<1>3. DocFits(cmd[c])'
  BY <1>1, <1>2 DEF KeyInv, DocFits
<1>4. excused'
  <2>1. ASSUME ~excused PROVE FALSE
    BY <1>1, <2>1, RunsAlone DEF Rests, SaveFits
  <2>. QED  BY <1>1, <2>1
<1>5. owed' \subseteq Secret /\ maybe' \subseteq Secret /\ excused' \in BOOLEAN
  BY <1>1 DEF KeyInv, KeyTypeOK
<1>. QED  BY <1>2, <1>3, <1>4, <1>5, CommandMovesOn

(* A text is written over.                                                 *)
LEMMA TextWritten ==
    ASSUME KeyInv, NEW i \in 1 .. Len(text), NEW x \in Texts, x # Garbled => NoTwins(x),
           text' = [text EXCEPT ![i] = x], inode' = inode
    PROVE  /\ FilesOK' /\ OneNameOneKey' /\ Len(text') = Len(text) /\ Len(text') >= Len(text)
           /\ text'[i] = x /\ \A j \in 1 .. Len(text) : j # i => text'[j] = text[j]
<1>1. FilesOK /\ OneNameOneKey /\ text \in Seq(Texts) /\ Len(text) \in Nat
  BY DEF KeyInv, KeyTypeOK, FilesOK
<1>2. /\ text' \in Seq(Texts) /\ Len(text') = Len(text) /\ text'[i] = x
      /\ \A j \in 1 .. Len(text) : j # i => text'[j] = text[j]
  BY <1>1
<1>3. FilesOK'
  BY <1>1, <1>2 DEF FilesOK
<1>4. OneNameOneKey'
  <2>1. ASSUME NEW j \in 1 .. Len(text) PROVE text'[j] # Garbled => NoTwins(text'[j])
    <3>1. CASE j = i
      BY <1>2, <3>1
    <3>2. CASE j # i
      BY <1>1, <1>2, <3>2 DEF OneNameOneKey
    <3>. QED  BY <3>1, <3>2
  <2>2. DOMAIN text' = 1 .. Len(text)
    BY <1>2
  <2>. QED  BY <2>1, <2>2 DEF OneNameOneKey
<1>. QED  BY <1>1, <1>2, <1>3, <1>4

LEMMA WriteSaveKeepsInv == ASSUME KeyInv, NEW c \in Command, WriteSave(c) PROVE KeyInv'
<1> PICK i : i = cmd[c].fd
  OBVIOUS
<1> PICK x : x = Written(c)
  OBVIOUS
<1> PICK how : how = IF cmd[c].at = "writing" THEN "renaming" ELSE "loading"
  OBVIOUS
<1>1. /\ cmd[c].at \in {"writing", "initwriting"} /\ text' = [text EXCEPT ![i] = x] /\ inode' = inode
      /\ cmd' = [cmd EXCEPT ![c].at = how] /\ UNCHANGED <<owed, maybe, excused>>
  BY DEF WriteSave, Quits
<1>2. i \in 1 .. Len(text) /\ NoTwins(cmd[c].doc) /\ cmd \in [Command -> Processes] /\ cmd[c] \in Processes
  BY <1>1 DEF KeyInv, KeyTypeOK, DocFits
<1>3. x \in {Garbled, cmd[c].doc} /\ x \in Texts
  BY <1>2 DEF Written, Texts, Processes
<1>4. x # Garbled => NoTwins(x)
  BY <1>2, <1>3
<1>5. /\ FilesOK' /\ OneNameOneKey' /\ Len(text') = Len(text) /\ Len(text') >= Len(text)
      /\ text'[i] = x /\ \A j \in 1 .. Len(text) : j # i => text'[j] = text[j]
  BY <1>1, <1>2, <1>3, <1>4, TextWritten, ZenonT(60)
<1>6. /\ cmd' \in [Command -> Processes] /\ \A d \in Command \ {c} : cmd'[d] = cmd[d]
      /\ cmd'[c].at = how /\ cmd'[c].fd = i /\ cmd'[c].doc = cmd[c].doc /\ cmd'[c].keys = cmd[c].keys
      /\ cmd'[c].drops = cmd[c].drops
  <2>1. how \in Steps
    BY DEF Steps
  <2>. QED  BY <1>1, <1>2, <2>1 DEF Processes
<1>7. DocFits(cmd[c])'
  BY <1>1, <1>2, <1>6 DEF KeyInv, DocFits
<1>8. ASSUME ~excused'
      PROVE  KeysFit' /\ SaveFits(cmd[c])' /\ \A d \in Command \ {c} : cmd[d].at \in Rests
  <2>1. KeysFit /\ SaveFits(cmd[c]) /\ \A d \in Command \ {c} : cmd[d].at \in Rests
    BY <1>1, <1>8, RunsAlone DEF Rests
  <2>2. cmd[c].at = "writing" /\ i = inode["tmp"] /\ inode["tmp"] # None /\ text[i] = <<>> /\ how = "renaming"
    BY <1>1, <2>1 DEF SaveFits
  <2>3. inode["path"] # None /\ inode["path"] \in 1 .. Len(text) /\ inode["path"] # i
    BY <2>1, <2>2, ReadableIs DEF KeysFit, KeyInv, KeyTypeOK, FilesOK
  <2>4. FileText' = FileText
    BY <1>1, <1>5, <2>3 DEF FileText
  <2>5. x = cmd[c].doc
    <3>1. <<>> \in Seq(NamedKeys) /\ <<>> # Garbled /\ Len(<<>>) = 0
      <4>1. <<>> \in Seq(NamedKeys) /\ Len(<<>>) = 0
        OBVIOUS
      <4>. QED  BY <4>1, KeyAssumption
    <3>2. Len(cmd[c].doc) \in Nat
      BY <1>2 DEF Processes
    <3>3. ~(Len(<<>>) > Len(cmd[c].doc))
      BY <3>1, <3>2
    <3>. QED  BY <2>2, <3>1, <3>3 DEF Written
  <2>6. KeysFit'
    BY <1>1, <2>1, <2>4 DEF KeysFit, Readable
  <2>7. SaveFits(cmd[c])'
    BY <1>1, <1>5, <1>6, <2>1, <2>2, <2>4, <2>5 DEF SaveFits
  <2>. QED  BY <2>1, <2>6, <2>7
<1>9. owed' \subseteq Secret /\ maybe' \subseteq Secret /\ excused' \in BOOLEAN
  BY <1>1 DEF KeyInv, KeyTypeOK
<1>. QED  BY <1>5, <1>6, <1>7, <1>8, <1>9, CommandMovesOn

LEMMA WriteCutKeepsInv == ASSUME KeyInv, NEW c \in Command, WriteCut(c) PROVE KeyInv'
<1> PICK i : i = cmd[c].fd
  OBVIOUS
<1> PICK how \in {"error", "gone"} : Quits(c, how)
  BY DEF WriteCut
<1>1. /\ cmd[c].at \in {"writing", "initwriting"} /\ text' = [text EXCEPT ![i] = Garbled] /\ inode' = inode
      /\ cmd' = [cmd EXCEPT ![c].at = how] /\ UNCHANGED <<owed, maybe, excused>>
  BY DEF WriteCut, Quits
<1>2. i \in 1 .. Len(text) /\ NoTwins(cmd[c].doc) /\ cmd \in [Command -> Processes] /\ cmd[c] \in Processes
  BY <1>1 DEF KeyInv, KeyTypeOK, DocFits
<1>3. Garbled \in Texts
  BY DEF Texts
<1>5. /\ FilesOK' /\ OneNameOneKey' /\ Len(text') = Len(text) /\ Len(text') >= Len(text)
      /\ \A j \in 1 .. Len(text) : j # i => text'[j] = text[j]
  BY <1>1, <1>2, <1>3, TextWritten
<1>6. /\ cmd' \in [Command -> Processes] /\ \A d \in Command \ {c} : cmd'[d] = cmd[d]
      /\ cmd'[c].at = how /\ cmd'[c].doc = cmd[c].doc
  <2>1. how \in Steps
    BY DEF Steps
  <2>. QED  BY <1>1, <1>2, <2>1 DEF Processes
<1>7. DocFits(cmd[c])'
  BY <1>2, <1>6 DEF DocFits
<1>8. ASSUME ~excused'
      PROVE  KeysFit' /\ cmd'[c].at \in Rests /\ \A d \in Command \ {c} : cmd[d].at \in Rests
  <2>1. KeysFit /\ SaveFits(cmd[c]) /\ \A d \in Command \ {c} : cmd[d].at \in Rests
    BY <1>1, <1>8, RunsAlone DEF Rests
  <2>2. i = inode["tmp"]
    BY <1>1, <2>1 DEF SaveFits
  <2>3. inode["path"] # None /\ inode["path"] \in 1 .. Len(text) /\ inode["path"] # i
    BY <2>1, <2>2, ReadableIs DEF KeysFit, KeyInv, KeyTypeOK, FilesOK
  <2>4. FileText' = FileText
    BY <1>1, <1>5, <2>3 DEF FileText
  <2>. QED  BY <1>1, <1>6, <2>1, <2>4 DEF KeysFit, Readable, Rests
<1>9. owed' \subseteq Secret /\ maybe' \subseteq Secret /\ excused' \in BOOLEAN
  BY <1>1 DEF KeyInv, KeyTypeOK
<1>. QED  BY <1>5, <1>6, <1>7, <1>8, <1>9, CommandMovesOn

LEMMA RenameSaveKeepsInv == ASSUME KeyInv, NEW c \in Command, RenameSave(c) PROVE KeyInv'
<1>1. cmd[c].at = "renaming" /\ UNCHANGED <<text, served, excused>>
  BY DEF RenameSave
<1>2. CASE inode["tmp"] = None
  BY <1>1, <1>2, OneQuits DEF RenameSave
<1>3. CASE inode["tmp"] # None
  <2>1. /\ inode' = [path |-> inode["tmp"], tmp |-> None] /\ cmd' = [cmd EXCEPT ![c].at = "ok"]
        /\ owed' = IF cmd[c].drops THEN owed \ cmd[c].keys ELSE owed \cup cmd[c].keys
        /\ maybe' = maybe \ cmd[c].keys
    BY <1>3 DEF RenameSave, Quits
  <2>2. FilesOK /\ OneNameOneKey /\ cmd \in [Command -> Processes] /\ cmd[c] \in Processes
    BY DEF KeyInv, KeyTypeOK
  <2>3. /\ cmd' \in [Command -> Processes] /\ \A d \in Command \ {c} : cmd'[d] = cmd[d]
        /\ cmd'[c].at = "ok" /\ cmd'[c].doc = cmd[c].doc
    BY <2>1, <2>2 DEF Processes, Steps
  <2>4. inode'["path"] = inode["tmp"] /\ inode'["tmp"] = None /\ inode' \in [{"path", "tmp"} -> Nat \cup {None}]
    <3>1. inode["tmp"] \in Nat \cup {None}
      BY <2>2 DEF FilesOK
    <3>2. inode' = [f \in {"path", "tmp"} |-> IF f = "path" THEN inode["tmp"] ELSE None]
      BY <2>1
    <3>. QED  BY <3>1, <3>2
  <2>5. FilesOK' /\ OneNameOneKey'
    <3>1. ASSUME NEW f \in {"path", "tmp"}, inode'[f] # None PROVE inode'[f] \in 1 .. Len(text')
      BY <1>1, <2>2, <2>4, <3>1 DEF FilesOK
    <3>2. text' \in Seq(Texts)
      BY <1>1, <2>2 DEF FilesOK
    <3>. QED  BY <1>1, <2>2, <2>4, <3>1, <3>2 DEF FilesOK, OneNameOneKey
  <2>6. DocFits(cmd[c])'
    BY <2>3 DEF KeyInv, DocFits
  <2>7. owed' \subseteq Secret /\ maybe' \subseteq Secret /\ excused' \in BOOLEAN
    BY <1>1, <2>1, <2>2 DEF KeyInv, KeyTypeOK, Processes
  <2>8. Len(text') >= Len(text)
    BY <1>1, <2>2 DEF FilesOK
  <2>9. ASSUME ~excused'
        PROVE  KeysFit' /\ \A d \in Command \ {c} : cmd[d].at \in Rests
    <3>1. KeysFit /\ SaveFits(cmd[c]) /\ \A d \in Command \ {c} : cmd[d].at \in Rests
      BY <1>1, <2>9, RunsAlone DEF Rests
    <3> PICK doc : doc = cmd[c].doc
      OBVIOUS
    <3> PICK ks : ks = cmd[c].keys
      OBVIOUS
    <3>2. doc \in Seq(NamedKeys) /\ text[inode["tmp"]] = doc
      BY <1>1, <2>2, <3>1 DEF SaveFits, Processes
    <3>3. FileText' = doc
      BY <1>1, <1>3, <2>4, <3>2 DEF FileText
    <3>4. Readable'
      BY <3>2, <3>3, KeyAssumption DEF Readable
    <3>5. owed \ maybe \subseteq KeysIn(FileText) /\ KeysIn(FileText) \subseteq owed \cup maybe
      BY <3>1 DEF KeysFit
    <3>6. CASE cmd[c].drops
      <4>1. KeysIn(doc) = KeysIn(FileText) \ ks /\ owed' = owed \ ks /\ maybe' = maybe \ ks
        BY <2>1, <3>1, <3>6 DEF SaveFits
      <4>. QED  BY <3>1, <3>3, <3>4, <3>5, <4>1 DEF KeysFit
    <3>7. CASE ~cmd[c].drops
      <4>1. KeysIn(doc) = KeysIn(FileText) \cup ks /\ owed' = owed \cup ks /\ maybe' = maybe \ ks
        BY <2>1, <3>1, <3>7 DEF SaveFits
      <4>. QED  BY <3>1, <3>3, <3>4, <3>5, <4>1 DEF KeysFit
    <3>. QED  BY <3>6, <3>7
  <2>10. cmd'[c].at \in Rests
    BY <2>3 DEF Rests
  <2>. QED  BY <2>3, <2>5, <2>6, <2>7, <2>8, <2>9, <2>10, CommandMovesOn
<1>. QED  BY <1>2, <1>3

LEMMA InitFileKeepsInv == ASSUME KeyInv, NEW c \in Command, InitFile(c) PROVE KeyInv'
<1>1. cmd[c].at = "idle" /\ UNCHANGED <<inode, text, owed>>
  BY DEF InitFile
<1>2. CASE Quits(c, "error") /\ UNCHANGED <<maybe, excused>>
  BY <1>1, <1>2, OneQuits
<1>3. ASSUME NEW a \in Secret, NEW u \in Secret, a # u, maybe' = maybe \cup owed \cup {a, u}, excused' = TRUE,
             cmd' = [cmd EXCEPT ![c] = [at |-> "init", doc |-> <<NamedKey("admin", a), NamedKey("user", u)>>,
                                        fd |-> None, keys |-> {a, u}, drops |-> FALSE]]
      PROVE  KeyInv'
  <2> PICK doc : doc = <<NamedKey("admin", a), NamedKey("user", u)>>
    OBVIOUS
  <2>1. doc \in Seq(NamedKeys) /\ NoTwins(doc) /\ KeysIn(doc) = {a, u}
    BY <1>3, FirstKeys
  <2> DEFINE r == [at |-> "init", doc |-> doc, fd |-> None, keys |-> {a, u}, drops |-> FALSE]
  <2>2. r \in Processes /\ cmd \in [Command -> Processes]
    BY <1>3, <2>1 DEF Processes, Steps, KeyInv, KeyTypeOK
  <2>3. cmd' \in [Command -> Processes] /\ cmd'[c] = r /\ \A d \in Command \ {c} : cmd'[d] = cmd[d]
    BY <1>3, <2>2
  <2>4. DocFits(cmd[c])'
    BY <2>1, <2>3 DEF DocFits
  <2>5. FilesOK' /\ OneNameOneKey' /\ Len(text') >= Len(text)
    <3>1. Len(text) \in Nat /\ text' = text /\ inode' = inode
      BY <1>1 DEF KeyInv, KeyTypeOK, FilesOK
    <3>2. Len(text') >= Len(text)
      BY <3>1
    <3>. QED  BY <3>1, <3>2 DEF KeyInv, KeyTypeOK, FilesOK, OneNameOneKey
  <2>6. owed' \subseteq Secret /\ maybe' \subseteq Secret /\ excused' \in BOOLEAN
    BY <1>1, <1>3 DEF KeyInv, KeyTypeOK
  <2>. QED  BY <1>3, <2>3, <2>4, <2>5, <2>6, CommandMovesOn
<1>. QED  BY <1>1, <1>2, <1>3 DEF InitFile

LEMMA LoadInitKeepsInv == ASSUME KeyInv, NEW c \in Command, LoadInit(c) PROVE KeyInv'
<1>1. cmd[c].at = "loading" /\ UNCHANGED <<inode, text>>
  BY DEF LoadInit
<1> PICK how \in {"ok", "error"} :
          /\ Quits(c, how)
          /\ IF how = "ok" /\ Readable /\ \A d \in Command \ {c} : ~Running(d) /\ cmd[d].fd # inode["path"]
             THEN owed' = cmd[c].keys /\ maybe' = {} /\ excused' = (FileText # cmd[c].doc)
             ELSE UNCHANGED <<owed, maybe, excused>>
  BY DEF LoadInit
<1>2. CASE UNCHANGED <<owed, maybe, excused>>
  BY <1>1, <1>2, OneQuits
<1>3. ASSUME Readable, \A d \in Command \ {c} : ~Running(d),
             owed' = cmd[c].keys, maybe' = {}, excused' = (FileText # cmd[c].doc)
      PROVE  KeyInv'
  <2>1. cmd' = [cmd EXCEPT ![c].at = how] /\ cmd \in [Command -> Processes] /\ cmd[c] \in Processes
    BY DEF Quits, KeyInv, KeyTypeOK
  <2>2. /\ cmd' \in [Command -> Processes] /\ \A d \in Command \ {c} : cmd'[d] = cmd[d]
        /\ cmd'[c].at = how /\ cmd'[c].doc = cmd[c].doc
    BY <2>1 DEF Processes, Steps
  <2>3. FilesOK' /\ OneNameOneKey' /\ Len(text') >= Len(text) /\ FileText' = FileText
    <3>1. Len(text) \in Nat /\ text' = text /\ inode' = inode
      BY <1>1 DEF KeyInv, KeyTypeOK, FilesOK
    <3>2. Len(text') >= Len(text)
      BY <3>1
    <3>. QED  BY <3>1, <3>2 DEF KeyInv, KeyTypeOK, FilesOK, OneNameOneKey, FileText
  <2>4. DocFits(cmd[c])'
    BY <2>2 DEF KeyInv, DocFits
  <2>5. owed' \subseteq Secret /\ maybe' \subseteq Secret /\ excused' \in BOOLEAN
    BY <1>3, <2>1 DEF Processes
  <2>6. ASSUME ~excused' PROVE KeysFit'
    <3>1. FileText = cmd[c].doc /\ KeysIn(cmd[c].doc) = cmd[c].keys
      BY <1>1, <1>3, <2>6 DEF KeyInv, DocFits
    <3>. QED  BY <1>3, <2>3, <3>1 DEF KeysFit, Readable
  <2>7. \A d \in Command \ {c} : cmd[d].at \in Rests
    BY <1>3 DEF Running, Rests
  <2>8. cmd'[c].at \in Rests
    BY <2>2 DEF Rests
  <2>. QED  BY <2>2, <2>3, <2>4, <2>5, <2>6, <2>7, <2>8, CommandMovesOn
<1>. QED  BY <1>2, <1>3

(* In every behaviour, the texts have no twins, and a save that runs alone *)
(* leaves the keys there are.                                              *)
THEOREM KeyFileInvariant == KeySpec => []KeyInv
<1>1. ASSUME KeyInv, UNCHANGED <<inode, text, cmd, owed, maybe, excused>> PROVE KeyInv'
  BY <1>1 DEF KeyInv, KeyTypeOK, FilesOK, OneNameOneKey, DocFits, KeysFit, Readable, FileText, Running, SaveFits
<1>2. ASSUME KeyInv, UNCHANGED keyvars \/ RestartServer PROVE KeyInv'
  BY <1>1, <1>2 DEF keyvars, RestartServer
<1>3. ASSUME KeyInv, NEW c \in Command, KillCommand(c) PROVE KeyInv'
  BY <1>3, OneQuits DEF KillCommand
<1>4. KeyInv /\ [KeyNext]_keyvars => KeyInv'
  BY <1>2, <1>3, IssueKeepsInv, RemoveKeepsInv, InitFileKeepsInv, OpenSaveKeepsInv, WriteSaveKeepsInv,
     WriteCutKeepsInv, RenameSaveKeepsInv, OpenInitKeepsInv, LoadInitKeepsInv DEF KeyNext
<1>. QED  BY <1>4, KeyInvInit, PTL DEF KeySpec

(* controller.go 114, settings.go 82, keys.go 146-147 and edit.go 114-116: *)
(* whatever an application chooses, downloads and restarts, and whatever   *)
(* commands are interrupted wherever, a save is whole or not at all, a     *)
(* restart that is needed is announced and settles, the keys that were     *)
(* printed are in the file, and no name leads to two of them.              *)
THEOREM SettingsAndKeysOutlast == MgSpec /\ KeySpec => []SettingsOutlast
<1>1. RestartSettles
  BY StartSettles DEF RestartSettles
<1>2. ASSUME MgInv PROVE RestartIsAnnounced /\ SettingsAreWhole
  <2>1. RestartIsAnnounced
    BY <1>2 DEF MgInv, AnnouncedIsNeeded, RestartIsAnnounced
  <2>. QED  BY <1>2, <2>1 DEF MgInv
<1>3. ASSUME KeyInv PROVE KeysAreKept /\ OneNameOneKey
  <2>1. ASSUME ~excused
        PROVE  /\ Readable
               /\ owed \ maybe \subseteq KeysIn(FileText) /\ KeysIn(FileText) \subseteq owed \cup maybe
               /\ owed \ maybe # {} => Loaded.how = "up"
    <3>1. KeysFit
      BY <1>3, <2>1 DEF KeyInv
    <3>2. FileText \in Seq(NamedKeys)
      BY <1>3, <3>1, ReadIs DEF KeysFit
    <3>3. ASSUME owed \ maybe # {} PROVE Loaded.how = "up"
      <4>1. PICK s : s \in KeysIn(FileText)
        BY <3>1, <3>3 DEF KeysFit
      <4>2. \E i \in 1 .. Len(FileText) : FileText[i].key = s
        BY <3>2, <4>1, KeysAre
      <4>3. FileText # <<>>
        BY <4>2
      <4>. QED  BY <3>1, <4>3 DEF KeysFit, Loaded
    <3>. QED  BY <3>1, <3>3 DEF KeysFit
  <2>. QED  BY <1>3, <2>1 DEF KeyInv, KeysAreKept
<1>4. MgInv /\ KeyInv => SettingsOutlast
  BY <1>1, <1>2, <1>3 DEF SettingsOutlast
<1>. QED  BY <1>4, ManagedInvariant, KeyFileInvariant, PTL

=============================================================================
