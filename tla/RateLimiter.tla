----------------------------- MODULE RateLimiter ------------------------------
(***************************************************************************)
(* The limiter in front of a group of routes: a map from client addresses  *)
(* to token buckets, swept now and then of the clients that have been idle *)
(* for long.  A bucket's tokens are brought up to date when it is used.    *)
(* The unit of time is what it takes to earn one token.                    *)
(***************************************************************************)
EXTENDS Integers

CONSTANTS
  Clients,    \* addresses
  Burst,      \* the size of a bucket
  TTL,        \* limiterIdleTTL
  MaxStall,   \* the longest a request waits for the limiter's lock
  MaxTime     \* bound on the clock

\* A minute refills a bucket of any of the router's groups, and the limiter forgets
\* after ten.
ASSUME RateLimiterConstants ==
  /\ Burst \in Nat \ {0} /\ MaxStall \in Nat /\ MaxTime \in Nat
  /\ TTL \in Nat /\ TTL >= Burst + MaxStall

VARIABLES now, buckets, lastSweep, boots

limiter == <<buckets, lastSweep, boots>>

Nobody == [c \in {} |-> 0]

LimiterInit == now = 0 /\ buckets = Nobody /\ lastSweep = 0 /\ boots = 0

\* The tokens a bucket holds, brought up to date.
Held(b) == IF b.tokens + (now - b.last) < Burst THEN b.tokens + (now - b.last) ELSE Burst

Level(c) == IF c \in DOMAIN buckets THEN Held(buckets[c]) ELSE Burst

SweepIsDue(t) == t - lastSweep > TTL

\* Mutant: a sweep forgets every client.
SweptOfAll(t) == IF SweepIsDue(t) THEN Nobody ELSE buckets

\* The map after the sweep that a request of time t makes.
Swept(t) ==
  [c \in {d \in DOMAIN buckets : ~(SweepIsDue(t) /\ t - buckets[d].seen > TTL)} |-> buckets[c]]

\* The bucket a request of client c finds or gets.
Bucket(c, t) ==
  IF c \in DOMAIN Swept(t) THEN [buckets[c] EXCEPT !.seen = t]
                           ELSE [tokens |-> Burst, last |-> now, seen |-> t]

Taken(b) == IF Held(b) >= 1 THEN [b EXCEPT !.tokens = Held(b) - 1, !.last = now] ELSE b

\* A request of client c that has read the clock at t and now has the lock.
Admit(c, t, passes) ==
  /\ passes = (Held(Bucket(c, t)) >= 1)
  /\ buckets' = [d \in DOMAIN Swept(t) \cup {c} |->
                   IF d = c THEN Taken(Bucket(c, t)) ELSE Swept(t)[d]]
  /\ lastSweep' = IF SweepIsDue(t) THEN t ELSE lastSweep
  /\ UNCHANGED boots

\* The process starts anew.
LimiterRestart ==
  /\ buckets' = Nobody /\ lastSweep' = now
  /\ boots' = boots + 1
=============================================================================
