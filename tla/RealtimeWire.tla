----------------------------- MODULE RealtimeWire -----------------------------
(***************************************************************************)
(* One connection of the realtime API (conn of internal/api/realtime/      *)
(* realtime.go, with audio.go): what the client's messages do to the       *)
(* session, and how the session's events are told.  The client's audio is  *)
(* a stream of numbered bytes cut into frames anywhere; a sample is the    *)
(* bytes it is made of.                                                    *)
(***************************************************************************)
EXTENDS Naturals, Sequences

CONSTANTS
    Locale,         \* the languages a client may ask for
    MaxBytes, MaxFrame, MaxUpdates, MaxItems

ASSUME WireAssumption == MaxFrame \in Nat

Wide == "pcm16"         \* two bytes a sample
Narrow == "g711"        \* one

NoLocale == "none"

VARIABLES
    conn,       \* stage ("asking", "open", "over"), many: the loaded model has locales, sent: bytes read, format, carry, auto, lang
    wsess,      \* the session: opened, auto and lang as it has them
    sampled,      \* history: the samples since the sample stream last began anew
    since,      \* history: the first byte of it
    stated,     \* history: format, auto and lang as last told, and whether an update stopped half way
    updates,    \* bound
    sending,    \* what emit has yet to write of the event it is at
    lastItem,   \* conn.lastItem
    items,      \* the items the session has finished
    chain       \* history: <<item, previous item>> of every message that names both

wirevars == <<conn, wsess, sampled, since, stated, updates, sending, lastItem, items, chain>>

WireInit ==
    /\ \E many \in BOOLEAN : conn = [stage |-> "asking", many |-> many, sent |-> 0, format |-> Wide,
                                     carry |-> <<>>, auto |-> TRUE, lang |-> NoLocale]
    /\ wsess = [opened |-> FALSE, auto |-> TRUE, lang |-> NoLocale]
    /\ stated = [format |-> Wide, auto |-> TRUE, lang |-> NoLocale, partly |-> FALSE]
    /\ sampled = <<>> /\ since = 1 /\ updates = 0
    /\ sending = <<>> /\ lastItem = 0 /\ items = 0 /\ chain = <<>>

Reading == conn.stage = "open"

(* connect: a request for another model or another purpose is answered     *)
(* before there is a socket.                                               *)
Connect(model, intent) ==
    /\ conn.stage = "asking"
    /\ conn' = [conn EXCEPT !.stage =
         IF intent \in {"", "transcription"} /\ model \in {"", "loaded"} THEN "open" ELSE "over"]
    /\ UNCHANGED <<wsess, sampled, since, stated, updates, sending, lastItem, items, chain>>

-----------------------------------------------------------------------------
(* ensureSession: with the parameters as they are now.                     *)
EnsureSession == wsess' = IF wsess.opened THEN wsess
                          ELSE [opened |-> TRUE, auto |-> conn.auto, lang |-> conn.lang]

(* Open refuses: the connection ends.                                      *)
SessionRefused ==
    /\ Reading /\ ~wsess.opened
    /\ conn' = [conn EXCEPT !.stage = "over"]
    /\ UNCHANGED <<wsess, sampled, since, stated, updates, sending, lastItem, items, chain>>

Width(f) == IF f = Wide THEN 2 ELSE 1

Samples(raw, f) == [i \in 1..(Len(raw) \div Width(f)) |-> SubSeq(raw, Width(f) * (i - 1) + 1, Width(f) * i)]
Rest(raw, f) == SubSeq(raw, Width(f) * (Len(raw) \div Width(f)) + 1, Len(raw))

(* Mutant: every frame starts with a whole sample.                         *)
AppendFrame(n) ==
    LET raw == [i \in 1..n |-> conn.sent + i] IN
    /\ Reading /\ conn.sent + n <= MaxBytes
    /\ EnsureSession
    /\ sampled' = sampled \o Samples(raw, conn.format)
    /\ conn' = [conn EXCEPT !.sent = @ + n, !.carry = Rest(raw, conn.format)]
    /\ UNCHANGED <<since, stated, updates, sending, lastItem, items, chain>>

(* appendAudio of n bytes.                                                 *)
AppendWire(n) ==
    LET raw == conn.carry \o [i \in 1..n |-> conn.sent + i] IN
    /\ Reading /\ conn.sent + n <= MaxBytes
    /\ EnsureSession
    /\ sampled' = sampled \o Samples(raw, conn.format)
    /\ conn' = [conn EXCEPT !.sent = @ + n, !.carry = Rest(raw, conn.format)]
    /\ UNCHANGED <<since, stated, updates, sending, lastItem, items, chain>>

(* The sample stream begins anew with the next byte.                       *)
Anew == sampled' = <<>> /\ since' = conn.sent + 1

CommitWire ==
    /\ Reading /\ EnsureSession
    /\ UNCHANGED <<conn, sampled, since, stated, updates, sending, lastItem, items, chain>>

ClearWire ==
    /\ Reading /\ Anew
    /\ conn' = [conn EXCEPT !.carry = <<>>]
    /\ UNCHANGED <<wsess, stated, updates, sending, lastItem, items, chain>>

-----------------------------------------------------------------------------
(* Mutant: a running stream is not told of the language.                   *)
SpeakUntold(l) == UNCHANGED wsess

(* setLanguage.  A model with locales takes one of them, and a stream that *)
(* runs is told; with any other language, as without one, nothing changes. *)
(* For a model with one language whatever is asked for is written down,    *)
(* and the stream is not told.                                             *)
Speak(l) == wsess' = IF wsess.opened /\ conn.many THEN [wsess EXCEPT !.lang = l] ELSE wsess

(* turn_detection: fixed once there is a session.                          *)
Turns(auto) == IF auto # conn.auto /\ wsess.opened THEN conn.auto ELSE auto

(* updateSession.  Each part may be absent: a format (or one that is not   *)
(* served, which ends the update), a model (another than the loaded one    *)
(* ends it), a language and the turn detection.                            *)
UpdateFormat(f) ==
    IF f = "absent" THEN UNCHANGED <<sampled, since>> ELSE Anew

UpdateRefused ==
    /\ Reading /\ updates < MaxUpdates /\ updates' = updates + 1
    /\ UNCHANGED <<conn, wsess, sampled, since, stated, sending, lastItem, items, chain>>

UpdateStops(f) ==
    /\ Reading /\ updates < MaxUpdates /\ updates' = updates + 1
    /\ UpdateFormat(f)
    /\ conn' = IF f = "absent" THEN conn ELSE [conn EXCEPT !.format = f, !.carry = <<>>]
    /\ stated' = [stated EXCEPT !.partly = TRUE]
    /\ UNCHANGED <<wsess, sending, lastItem, items, chain>>

UpdateSession(f, lang, auto) ==
    LET speaks == lang \in Locale IN
    /\ Reading /\ updates < MaxUpdates /\ updates' = updates + 1
    /\ UpdateFormat(f)
    /\ IF speaks THEN Speak(lang) ELSE UNCHANGED wsess
    /\ conn' = [conn EXCEPT !.format = IF f = "absent" THEN @ ELSE f,
                            !.carry = IF f = "absent" THEN @ ELSE <<>>,
                            !.lang = IF speaks THEN lang ELSE @,
                            !.auto = IF auto = "absent" THEN @ ELSE Turns(auto = "on")]
    /\ stated' = [format |-> conn'.format, auto |-> conn'.auto, lang |-> conn'.lang, partly |-> FALSE]
    /\ UNCHANGED <<sending, lastItem, items, chain>>

-----------------------------------------------------------------------------
(* The session finishes an item; emit writes three messages, each of which *)
(* may be the one the connection breaks at.                                *)
FinalArrives ==
    /\ Reading /\ wsess.opened /\ sending = <<>> /\ items < MaxItems
    /\ items' = items + 1 /\ sending' = <<"committed", "created", "completed">>
    /\ UNCHANGED <<conn, wsess, sampled, since, stated, updates, lastItem, chain>>

(* Mutant: the item is the last one as soon as it is committed.            *)
SendEagerly ==
    /\ Reading /\ sending # <<>> /\ sending' = Tail(sending)
    /\ chain' = IF Head(sending) = "completed" THEN chain ELSE Append(chain, <<items, lastItem>>)
    /\ lastItem' = items
    /\ UNCHANGED <<conn, wsess, sampled, since, stated, updates, items>>

Send ==
    /\ Reading /\ sending # <<>> /\ sending' = Tail(sending)
    /\ chain' = IF Head(sending) = "completed" THEN chain ELSE Append(chain, <<items, lastItem>>)
    /\ lastItem' = IF Head(sending) = "created" THEN items ELSE lastItem
    /\ UNCHANGED <<conn, wsess, sampled, since, stated, updates, items>>

(* The socket breaks, the session ends or fails.                           *)
WireEnds ==
    /\ Reading /\ conn' = [conn EXCEPT !.stage = "over"]
    /\ UNCHANGED <<wsess, sampled, since, stated, updates, sending, lastItem, items, chain>>

WireNext ==
    \/ \E model \in {"", "loaded", "other"}, intent \in {"", "transcription", "conversation"} : Connect(model, intent)
    \/ \E n \in 1..MaxFrame : AppendWire(n)
    \/ CommitWire \/ ClearWire \/ SessionRefused \/ UpdateRefused
    \/ \E f \in {"absent", Wide, Narrow} : UpdateStops(f)
    \/ \E f \in {"absent", Wide, Narrow}, lang \in Locale \cup {NoLocale}, auto \in {"absent", "on", "off"} :
          UpdateSession(f, lang, auto)
    \/ FinalArrives \/ Send \/ WireEnds

WireSpec == WireInit /\ [][WireNext]_wirevars

-----------------------------------------------------------------------------
(* The watch over the connection (keepalive, read and busy), on its own: a *)
(* ping is answered by a pong that only the read loop collects, and the    *)
(* read loop does not read while it acts on a message.  Time passes in     *)
(* units of the write timeout; ages are kept instead of instants and stop  *)
(* at their bounds.                                                        *)

CONSTANTS PingEvery, PingTimeout, GracePeriod     \* pingInterval, writeTimeout, sessionGrace

ASSUME KeepaliveAssumption ==
    /\ PingTimeout \in Nat \ {0} /\ PingEvery \in Nat /\ GracePeriod \in Nat
    /\ PingTimeout < PingEvery

Never == PingTimeout + 1                \* the age of a ping that is not out

VARIABLES
    handling,   \* conn.handling
    idle,       \* time since conn.lastRead, at most PingEvery
    opened,     \* conn.opened
    uptime,     \* time since the connection began, at most GracePeriod + 1
    ticker,     \* time since the last tick; a tick that is due waits
    ping,       \* the age of the ping that is out, or Never
    pong,       \* the answer to it is on its way to the read loop
    peer,       \* "there" or "gone"
    quiet,      \* history: time since the peer went and the read loop is idle
    cut         \* "no", "unused" or "unanswered"

kavars == <<handling, idle, opened, uptime, ticker, ping, pong, peer, quiet, cut>>

QuietBound == 2 * PingEvery + PingTimeout

KaInit ==
    /\ handling = FALSE /\ opened = FALSE /\ pong = FALSE
    /\ idle = 0 /\ uptime = 0 /\ ticker = 0 /\ quiet = 0
    /\ ping = Never /\ peer = "there" /\ cut = "no"

PeerBusy == handling \/ idle < PingEvery

-----------------------------------------------------------------------------
(* read.                                                                   *)
ReadMessage ==
    /\ cut = "no" /\ peer = "there" /\ ~handling
    /\ handling' = TRUE /\ idle' = 0
    /\ UNCHANGED <<opened, uptime, ticker, ping, pong, peer, quiet, cut>>

(* Some messages open the session.                                         *)
HandlingEnds ==
    /\ handling /\ handling' = FALSE
    /\ opened' \in {opened, TRUE}
    /\ UNCHANGED <<idle, uptime, ticker, ping, pong, peer, quiet, cut>>

(* The read loop collects the pong.                                        *)
PongRead ==
    /\ cut = "no" /\ pong /\ ~handling
    /\ pong' = FALSE /\ ping' = Never
    /\ UNCHANGED <<handling, idle, opened, uptime, ticker, peer, quiet, cut>>

PeerGoes ==
    /\ peer = "there" /\ peer' = "gone"
    /\ UNCHANGED <<handling, idle, opened, uptime, ticker, ping, pong, quiet, cut>>

(* keepalive.                                                              *)
TickDue == cut = "no" /\ ping = Never /\ ticker >= PingEvery

Ticks ==
    /\ TickDue /\ ticker' = 0
    /\ IF ~opened /\ uptime > GracePeriod
       THEN cut' = "unused" /\ UNCHANGED <<ping, pong>>
       ELSE /\ UNCHANGED cut
            /\ IF PeerBusy THEN UNCHANGED <<ping, pong>>
                           ELSE ping' = 0 /\ pong' = (peer = "there")
    /\ UNCHANGED <<handling, idle, opened, uptime, peer, quiet>>

TimedOut == cut = "no" /\ ping = PingTimeout /\ ~(pong /\ ~handling)

(* Mutant: an unanswered ping is believed at once.                         *)
PingBelieved ==
    /\ TimedOut
    /\ ping' = Never /\ pong' = FALSE /\ cut' = "unanswered"
    /\ UNCHANGED <<handling, idle, opened, uptime, ticker, peer, quiet>>

(* Mutant: never.                                                          *)
PingForgotten ==
    /\ TimedOut
    /\ ping' = Never /\ pong' = FALSE
    /\ UNCHANGED <<handling, idle, opened, uptime, ticker, peer, quiet, cut>>

PingTimesOut ==
    /\ TimedOut
    /\ ping' = Never /\ pong' = FALSE
    /\ cut' = IF PeerBusy THEN cut ELSE "unanswered"
    /\ UNCHANGED <<handling, idle, opened, uptime, ticker, peer, quiet>>

(* A unit of time: nobody is that late.                                    *)
TimePasses ==
    /\ cut = "no" /\ ~TickDue /\ ~TimedOut /\ ~(pong /\ ~handling)
    /\ idle' = IF idle < PingEvery THEN idle + 1 ELSE idle
    /\ uptime' = IF uptime <= GracePeriod THEN uptime + 1 ELSE uptime
    /\ ticker' = IF ticker < PingEvery THEN ticker + 1 ELSE ticker
    /\ ping' = IF ping = Never THEN Never ELSE ping + 1
    /\ quiet' = IF peer = "there" \/ handling THEN 0
                ELSE IF quiet <= QuietBound THEN quiet + 1 ELSE quiet
    /\ UNCHANGED <<handling, opened, pong, peer, cut>>

KaNext == ReadMessage \/ HandlingEnds \/ PongRead \/ PeerGoes \/ Ticks \/ PingTimesOut \/ TimePasses

KaSpec == KaInit /\ [][KaNext]_kavars

-----------------------------------------------------------------------------
(* Properties.                                                             *)

(* "A frame boundary has nothing to do with a sample boundary"             *)
(* (realtime.go:380): since the stream last began, every byte is in one    *)
(* sample, in its place, or waits for the rest of it; none of another      *)
(* format's is.                                                            *)
AudioIsWhole ==
    LET w == Width(conn.format)
        whole == Len(sampled) * w
    IN  /\ \A i \in DOMAIN sampled : sampled[i] = [k \in 1..w |-> since + (i - 1) * w + k - 1]
        /\ conn.carry = [k \in 1..(conn.sent + 1 - since - whole) |-> since + whole + k - 1]
        /\ Len(conn.carry) < w

(* What the session object said last is what holds, for the connection and *)
(* for the session that runs: "the session parameters it is about to send  *)
(* would arrive too late to be honoured" (realtime.go:406).  Two things    *)
(* are not so.  An update that was refused for its model has changed the   *)
(* format all the same; and the language that is stated of a model with    *)
(* only one is what the client asked for last, which a stream that runs    *)
(* was not told (realtime.go:733): it keeps what it was opened with.       *)
StatedIsSo ==
    /\ stated.partly \/ stated.format = conn.format
    /\ stated.auto = conn.auto /\ stated.lang = conn.lang
    /\ wsess.opened => wsess.auto = conn.auto /\ (conn.many => wsess.lang = conn.lang)

(* The items of a conversation are one chain: each message that creates    *)
(* one names the item that was created before it, both messages the same.  *)
ItemsAreChained == \A i \in DOMAIN chain : chain[i][2] = chain[i][1] - 1

(* "Only silence counts" (realtime.go:645): a peer that answers is never   *)
(* taken for dead, however long the read loop is held up by a recogniser   *)
(* that lags behind, although it cannot read the pong meanwhile.           *)
OnlyTheDeadAreCut == cut = "unanswered" => peer = "gone"

(* A peer that has gone without closing is noticed in two ticks and a      *)
(* timeout after the read loop has dealt with what it had sent.            *)
TheDeadAreNoticed == cut = "no" => quiet <= QuietBound

(* A realtime connection says what it does: its audio arrives whole, what  *)
(* it states is in force, and it is cut exactly when its client is gone    *)
(* (api/realtime/realtime.go).                                             *)
TalkIsWhole == AudioIsWhole /\ StatedIsSo /\ ItemsAreChained /\ OnlyTheDeadAreCut /\ TheDeadAreNoticed
=============================================================================
