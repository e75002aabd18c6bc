----------------------------- MODULE RateLimiter -----------------------------
(***************************************************************************)
(* The token bucket of one API key (internal/httpx/ratelimit.go).  Time is *)
(* counted in ticks; Token small parts make a token, and a rate is so many *)
(* parts a tick.                                                           *)
(***************************************************************************)
EXTENDS Naturals, Integers, Sequences

CONSTANTS Rates,        \* the rates to look at, in parts per tick
          Token,        \* parts in a token
          Second,       \* ticks in a second
          Horizon       \* bound: how long it is watched

ASSUME RateAssumption ==
    Rates \subseteq Nat \ {0} /\ Token \in Nat \ {0} /\ Second \in Nat \ {0} /\ Horizon \in Nat

VARIABLES
    rate,       \* the key's allowance
    now,
    bucket,     \* nil (no bucket yet), or tokens and when they were counted
    admitted    \* history: when requests were admitted

rlvars == <<rate, now, bucket, admitted>>

burstFactor == 2
Capacity == rate * Second * burstFactor

NoBucket == [seen |-> FALSE, tokens |-> 0, last |-> 0]

RlInit == rate \in Rates /\ now = 0 /\ bucket = NoBucket /\ admitted = <<>>

Least(a, b) == IF a < b THEN a ELSE b
Ceil(a, b) == (a + b - 1) \div b

(* Mutant: what was not used is kept for later, however much.              *)
RefilledWithoutEnd == IF ~bucket.seen THEN Capacity ELSE bucket.tokens + (now - bucket.last) * rate

(* What is in the bucket now.                                              *)
Refilled == IF ~bucket.seen THEN Capacity
            ELSE Least(Capacity, bucket.tokens + (now - bucket.last) * rate)

(* Mutant: rounded down.                                                   *)
WaitShort(tokens) == (Token - tokens) \div rate

(* How long to wait for a whole token.                                     *)
Wait(tokens) == Ceil(Token - tokens, rate)

AllowRequest ==
    /\ bucket' = [seen |-> TRUE, last |-> now, tokens |-> IF Refilled < Token THEN Refilled ELSE Refilled - Token]
    /\ admitted' = IF Refilled < Token THEN admitted ELSE Append(admitted, now)
    /\ UNCHANGED <<rate, now>>

ClockTicks == now < Horizon /\ now' = now + 1 /\ UNCHANGED <<rate, bucket, admitted>>

RlNext == AllowRequest \/ ClockTicks

RlSpec == RlInit /\ [][RlNext]_rlvars

-----------------------------------------------------------------------------
(* Properties.                                                             *)

(* In no stretch of time are more requests admitted than its rate and one  *)
(* burst allow (ratelimit.go:14).                                          *)
RateIsKept ==
    \A i, j \in 1..Len(admitted) :
        i <= j => (j - i + 1) * Token <= Capacity + (admitted[j] - admitted[i]) * rate

(* "Advising a wait that is a hair too short guarantees the retry is       *)
(* refused too" (ratelimit.go:75): where the bucket can hold a token, a    *)
(* client that waits as long as it was told, alone, is admitted then, and  *)
(* not a tick earlier.                                                     *)
WaitSuffices ==
    (bucket.seen /\ Refilled < Token /\ Capacity >= Token) =>
        /\ Least(Capacity, Refilled + Wait(Refilled) * rate) >= Token
        /\ Refilled + (Wait(Refilled) - 1) * rate < Token

(* Below half a request a second two seconds' worth is no token: the       *)
(* configuration takes such a rate (load.go:146), and the key is refused   *)
(* for ever, whatever wait it is told each time (ratelimit.go:57, 74-78).  *)
TooSlowIsNever == Capacity < Token => admitted = <<>>

(* A key gets what it was given, no more and no less: never above its rate *)
(* and burst, after the wait it was told of it is let in, unless its burst *)
(* is less than a request: then it never is.                               *)
RateIsFair == RateIsKept /\ WaitSuffices /\ TooSlowIsNever
=============================================================================
