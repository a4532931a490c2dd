--------------------------- MODULE ShareLinks_proofs ---------------------------
(***************************************************************************)
(* Theorems about ShareLinks, for any clients, requests, links, limits and *)
(* validities, and any burst, idle time and stall the limiter allows.      *)
(***************************************************************************)
EXTENDS ShareLinks, FiniteSetTheorems, TLAPS

(***************************************************************************)
(* Types.                                                                  *)
(***************************************************************************)

Steps == {"idle", "waiting", "reading", "counting"}
Asked == [pc : Steps, link : Links \cup {NoLink}, t : Nat, late : BOOLEAN]
Bucketful == [tokens : 0 .. Burst, last : Nat, seen : Nat]

\* A request past the limiter asks for a link.
Known == \A r \in Requests : req[r].pc \in {"reading", "counting"} => req[r].link \in Links

LEMMA IdleIsAsked == Idle \in Asked
BY DEF Idle, Asked, Steps

\* What Admit makes of the buckets.
LEMMA AdmitTypes ==
  ASSUME TypeOK, NEW c \in Clients, NEW t \in Nat, NEW passes \in BOOLEAN, Admit(c, t, passes)
  PROVE  /\ DOMAIN buckets' \subseteq Clients
         /\ buckets' \in [DOMAIN buckets' -> Bucketful]
         /\ lastSweep' \in Nat /\ boots' \in Nat
<1>1. Burst \in Nat \ {0} /\ now \in Nat /\ buckets \in [DOMAIN buckets -> Bucketful]
  BY RateLimiterConstants DEF TypeOK, Bucketful
<1>2. /\ DOMAIN Swept(t) \subseteq DOMAIN buckets
      /\ \A d \in DOMAIN Swept(t) : Swept(t)[d] = buckets[d]
  BY DEF Swept
<1>3. Bucket(c, t) \in Bucketful
  <2>1. CASE c \in DOMAIN Swept(t)
    <3>1. buckets[c] \in Bucketful
      BY <2>1, <1>1, <1>2
    <3> QED BY <3>1, <2>1 DEF Bucket, Bucketful
  <2>2. CASE c \notin DOMAIN Swept(t)
    <3>1. Bucket(c, t) = [tokens |-> Burst, last |-> now, seen |-> t]
      BY <2>2 DEF Bucket
    <3>2. Burst \in 0 .. Burst
      BY <1>1
    <3> QED BY <3>1, <3>2, <1>1 DEF Bucketful
  <2> QED BY <2>1, <2>2
<1>4. ASSUME NEW b \in Bucketful PROVE Taken(b) \in Bucketful
  <2>1. CASE Held(b) >= 1
    <3>1. Held(b) - 1 \in 0 .. Burst
      BY <2>1, <1>1 DEF Held, Bucketful
    <3> QED BY <3>1, <2>1, <1>1 DEF Taken, Bucketful
  <2>2. CASE ~(Held(b) >= 1)
    BY <2>2 DEF Taken
  <2> QED BY <2>1, <2>2
<1>5. DOMAIN buckets' = DOMAIN Swept(t) \cup {c}
  BY DEF Admit
<1>6. ASSUME NEW d \in DOMAIN buckets' PROVE buckets'[d] \in Bucketful
  <2>1. CASE d = c
    BY <2>1, <1>3, <1>4, <1>5 DEF Admit
  <2>2. CASE d # c
    <3>1. buckets'[d] = Swept(t)[d] /\ d \in DOMAIN Swept(t)
      BY <2>2, <1>5 DEF Admit
    <3> QED BY <3>1, <1>1, <1>2
  <2> QED BY <2>1, <2>2
<1>7. DOMAIN buckets' \subseteq Clients
  BY <1>5, <1>2 DEF TypeOK
<1>8. buckets' \in [DOMAIN buckets' -> Bucketful]
  <2>1. buckets' = [d \in DOMAIN buckets' |-> buckets'[d]]
    BY <1>5 DEF Admit
  <2> QED BY <2>1, <1>6
<1>9. lastSweep' \in Nat /\ boots' \in Nat
  BY DEF TypeOK, Admit
<1> QED BY <1>7, <1>8, <1>9

LEMMA OwnerTypes ==
  ASSUME TypeOK, Owner
  PROVE  TypeOK'
<1> USE DEF TypeOK
<1>q. ASSUME links' \in [Links -> Rows], entry' \in BOOLEAN, creating' \in BOOLEAN,
             UNCHANGED <<now, limiter, req, shown, missed, faults>>
      PROVE  TypeOK'
  BY <1>q DEF limiter
<1>1. CASE CheckOwner
  BY <1>1, <1>q DEF CheckOwner
<1>2. CASE Insert
  <2>1. ASSUME NEW max \in Limits, NEW d \in Validities, NEW secret \in Secrets
        PROVE  Row(max, d, secret) \in Rows
    <3>1. /\ now \in Nat /\ d \in Nat /\ Never \in Nat /\ secret \in BOOLEAN
          /\ max \in Limits \cup {Unlimited}
      BY ShareLinksConstants, RateLimiterConstants DEF Never
    <3>2. (IF d = 0 THEN Never ELSE now + d) \in Nat
      BY <3>1
    <3> HIDE DEF TypeOK
    <3> QED BY <3>1, <3>2 DEF Row, Rows
  <2>2. links' \in [Links -> Rows]
    BY <1>2, <2>1 DEF Insert
  <2> QED BY <2>2, <1>2, <1>q DEF Insert
<1>3. CASE DeleteEntry
  <2>1. ASSUME NEW l \in Links PROVE [links[l] EXCEPT !.row = "gone"] \in Rows
    BY DEF Rows
  <2>2. links' \in [Links -> Rows]
    BY <2>1, <1>3 DEF DeleteEntry
  <2> QED BY <2>2, <1>3, <1>q DEF DeleteEntry
<1>4. ASSUME NEW l \in Links, RevokeShareLink(l) \/ DeleteShareLink(l) PROVE TypeOK'
  <2>1. [links[l] EXCEPT !.row = "gone"] \in Rows /\ [links[l] EXCEPT !.revoked = TRUE] \in Rows
    BY DEF Rows
  <2>2. links' \in [Links -> Rows]
    BY <2>1, <1>4 DEF RevokeShareLink, DeleteShareLink
  <2> QED BY <2>2, <1>4, <1>q DEF RevokeShareLink, DeleteShareLink
<1> QED BY <1>1, <1>2, <1>3, <1>4 DEF Owner

LEMMA ViewTypes ==
  ASSUME TypeOK, Known, Views
  PROVE  TypeOK'
<1>1. /\ req \in [Requests -> Asked] /\ now \in Nat /\ links \in [Links -> Rows]
      /\ shown \in [Links -> Nat] /\ missed \in [Links -> Nat] /\ faults \in 0 .. MaxFaults
  BY RateLimiterConstants DEF TypeOK, Asked, Steps
<1>q. ASSUME req' \in [Requests -> Asked], UNCHANGED <<now, limiter, links, entry, creating, shown, missed, faults>>
      PROVE  TypeOK'
  BY <1>q DEF TypeOK, limiter, Asked, Steps
<1>2. ASSUME NEW r \in Requests, NEW l \in Links \cup {NoLink}, Arrive(r, l) PROVE TypeOK'
  <2>1. (l # NoLink /\ Closed(l)) \in BOOLEAN
    OBVIOUS
  <2>2. [pc |-> "waiting", link |-> l, t |-> now, late |-> l # NoLink /\ Closed(l)] \in Asked
    BY <2>1, <1>1 DEF Asked, Steps
  <2>3. req' \in [Requests -> Asked]
    BY <2>2, <1>2, <1>1 DEF Arrive
  <2> QED BY <2>3, <1>2, <1>q DEF Arrive
<1>3. ASSUME NEW r \in Requests, NEW c \in Clients, PassLimiter(r, c) PROVE TypeOK'
  <2>1. PICK passes \in BOOLEAN :
          /\ Admit(c, req[r].t, passes)
          /\ req' = [req EXCEPT ![r] = IF passes /\ req[r].link # NoLink
                                      THEN [req[r] EXCEPT !.pc = "reading", !.t = 0] ELSE Idle]
    BY <1>3 DEF PassLimiter
  <2>2. req[r] \in Asked /\ req[r].t \in Nat
    BY <1>1 DEF Asked
  <2>3. [req[r] EXCEPT !.pc = "reading", !.t = 0] \in Asked
    BY <2>2 DEF Asked, Steps
  <2>4. req' \in [Requests -> Asked]
    BY <2>1, <2>3, <1>1, IdleIsAsked
  <2>5. /\ DOMAIN buckets' \subseteq Clients
        /\ buckets' \in [DOMAIN buckets' -> Bucketful]
        /\ lastSweep' \in Nat /\ boots' \in Nat
    BY <2>1, <2>2, AdmitTypes
  <2>6. UNCHANGED <<now, links, entry, creating, shown, missed, faults>>
    BY <1>3 DEF PassLimiter
  <2> QED BY <2>4, <2>5, <2>6 DEF TypeOK, Bucketful, Asked, Steps
<1>4. ASSUME NEW r \in Requests, Read(r) PROVE TypeOK'
  <2>1. [req[r] EXCEPT !.pc = "counting"] \in Asked
    BY <1>1 DEF Asked, Steps
  <2>2. req' \in [Requests -> Asked]
    BY <2>1, <1>4, <1>1, IdleIsAsked DEF Read
  <2> QED BY <2>2, <1>4, <1>q DEF Read
<1>5. ASSUME NEW r \in Requests, Count(r), req[r].link \in Links PROVE TypeOK'
  <2> DEFINE l == req[r].link
  <2>1. links[l].views + 1 \in Nat
    BY <1>5, <1>1 DEF Rows
  <2>2. [links[l] EXCEPT !.views = links[l].views + 1] \in Rows
    BY <2>1, <1>5, <1>1 DEF Rows
  <2>3. Counted(l, links[l].views + 1) \in [Links -> Rows]
    BY <2>2, <1>5, <1>1 DEF Counted
  <2>4. links' \in [Links -> Rows] /\ shown' \in [Links -> Nat] /\ missed' \in [Links -> Nat]
    BY <2>3, <1>5, <1>1 DEF Count
  <2>5. faults' \in 0 .. MaxFaults
    BY <1>5, <1>1, ShareLinksConstants DEF Count, Fault
  <2>6. req' \in [Requests -> Asked]
    BY <1>5, <1>1, IdleIsAsked DEF Count
  <2> QED BY <2>4, <2>5, <2>6, <1>5 DEF TypeOK, limiter, Count, Asked, Steps
<1>6. ASSUME NEW r \in Requests, Count(r) PROVE req[r].link \in Links
  BY <1>6 DEF Count, Known
<1> QED BY <1>2, <1>3, <1>4, <1>5, <1>6 DEF Views

LEMMA KnownStep ==
  ASSUME TypeOK, Known, Next
  PROVE  Known'
<1> SUFFICES ASSUME NEW r \in Requests, req'[r].pc \in {"reading", "counting"}
             PROVE  req'[r].link \in Links
  BY DEF Known
<1>1. req \in [Requests -> Asked] /\ Idle.pc = "idle"
  BY DEF TypeOK, Asked, Steps, Idle
<1>2. req[r] \in Asked
  BY <1>1
<1>3. CASE UNCHANGED req
  BY <1>3 DEF Known
<1>4. CASE Owner
  BY <1>3, <1>4 DEF Owner, CheckOwner, Insert, DeleteEntry, RevokeShareLink, DeleteShareLink
<1>5. CASE Tick
  BY <1>3, <1>5 DEF Tick, shares
<1>6. CASE Restart
  BY <1>6, <1>1 DEF Restart
<1>7. ASSUME NEW q \in Requests, q # r, req'[r] = req[r] PROVE req'[r].link \in Links
  BY <1>7 DEF Known
<1>8. ASSUME NEW q \in Requests, NEW l \in Links \cup {NoLink}, Arrive(q, l) PROVE req'[r].link \in Links
  BY <1>8, <1>7, <1>1 DEF Arrive
<1>9. ASSUME NEW q \in Requests, NEW c \in Clients, PassLimiter(q, c) PROVE req'[r].link \in Links
  <2>1. CASE q = r
    BY <2>1, <1>9, <1>1, <1>2 DEF PassLimiter, Asked
  <2>2. CASE q # r
    BY <2>2, <1>9, <1>7, <1>1 DEF PassLimiter
  <2> QED BY <2>1, <2>2
<1>10. ASSUME NEW q \in Requests, Read(q) PROVE req'[r].link \in Links
  <2>1. CASE q = r
    BY <2>1, <1>10, <1>1, <1>2 DEF Read, Asked, Known
  <2>2. CASE q # r
    BY <2>2, <1>10, <1>7, <1>1 DEF Read
  <2> QED BY <2>1, <2>2
<1>11. ASSUME NEW q \in Requests, Count(q) PROVE req'[r].link \in Links
  BY <1>11, <1>7, <1>1 DEF Count
<1> QED BY <1>4, <1>5, <1>6, <1>8, <1>9, <1>10, <1>11 DEF Next, Views

LEMMA TypesStep ==
  ASSUME TypeOK, Known, [Next]_vars
  PROVE  TypeOK' /\ Known'
<1>1. CASE Owner \/ Views
  BY <1>1, OwnerTypes, ViewTypes, KnownStep DEF Next
<1>2. CASE Tick
  <2>1. now' \in 0 .. MaxTime
    BY <1>2, RateLimiterConstants DEF Tick, TypeOK
  <2>2. TypeOK'
    BY <2>1, <1>2 DEF Tick, TypeOK, limiter, shares
  <2> QED BY <2>2, <1>2, KnownStep DEF Next
<1>3. CASE Restart
  <2>1. /\ DOMAIN buckets' = {} /\ buckets' \in [{} -> Bucketful]
        /\ lastSweep' \in Nat /\ boots' \in Nat
    BY <1>3, RateLimiterConstants DEF Restart, LimiterRestart, Nobody, TypeOK
  <2>2. faults' \in 0 .. MaxFaults
    BY <1>3, ShareLinksConstants DEF Restart, Fault, TypeOK
  <2>3. req' \in [Requests -> Asked]
    BY <1>3, IdleIsAsked DEF Restart
  <2>4. TypeOK'
    BY <2>1, <2>2, <2>3, <1>3 DEF TypeOK, Restart, Bucketful, Asked, Steps
  <2> QED BY <2>4, <1>3, KnownStep DEF Next
<1>4. CASE UNCHANGED vars
  BY <1>4 DEF vars, limiter, shares, TypeOK, Known
<1> QED BY <1>1, <1>2, <1>3, <1>4 DEF Next

LEMMA TypesInit ==
  ASSUME Init
  PROVE  TypeOK /\ Known
<1>1. NoRow \in Rows
  BY RateLimiterConstants DEF NoRow, Rows, Never
<1>2. DOMAIN buckets = {} /\ buckets \in [{} -> Bucketful]
  BY DEF Init, LimiterInit, Nobody
<1>3. 0 \in 0 .. MaxTime /\ 0 \in 0 .. MaxFaults
  BY RateLimiterConstants, ShareLinksConstants
<1>4. links \in [Links -> Rows] /\ req \in [Requests -> Asked]
  BY <1>1, IdleIsAsked DEF Init
<1>5. TypeOK
  BY <1>2, <1>3, <1>4 DEF Init, LimiterInit, TypeOK, Bucketful, Asked, Steps
<1>6. Known
  BY DEF Init, Known, Idle
<1> QED BY <1>5, <1>6

\* Buckets hold at most Burst tokens, rows and requests have their fields, whatever
\* clients, owners and failures do (share_links.go, ratelimit.go).
THEOREM Types == Spec => []TypeOK
<1>1. Init => TypeOK /\ Known
  BY TypesInit
<1>2. (TypeOK /\ Known) /\ [Next]_vars => (TypeOK /\ Known)'
  BY TypesStep
<1> QED BY <1>1, <1>2, PTL DEF Spec

-----------------------------------------------------------------------------
(***************************************************************************)
(* The limiter.  A bucket a sweep removes is full: the request that last   *)
(* used it waited at most MaxStall for the lock, the one that sweeps read  *)
(* the clock before now, and TTL outlasts a refill and a stall.            *)
(***************************************************************************)

Recent ==
  /\ \A c \in DOMAIN buckets :
       buckets[c].last <= now /\ buckets[c].seen >= buckets[c].last - MaxStall
  /\ \A r \in Requests : req[r].pc = "waiting" => req[r].t <= now /\ now <= req[r].t + MaxStall

LEMMA SweptIsFull ==
  ASSUME TypeOK, Recent, NEW t \in Nat, t <= now, NEW d \in DOMAIN buckets, d \notin DOMAIN Swept(t)
  PROVE  Held(buckets[d]) = Burst
<1>1. buckets[d] \in Bucketful /\ now \in Nat
  BY RateLimiterConstants DEF TypeOK, Bucketful
<1>2. t - buckets[d].seen > TTL
  BY DEF Swept
<1>3. buckets[d].seen >= buckets[d].last - MaxStall
  BY DEF Recent
<1>4. now - buckets[d].last > Burst
  BY <1>1, <1>2, <1>3, RateLimiterConstants DEF Bucketful
<1> QED BY <1>1, <1>4, RateLimiterConstants DEF Held, Bucketful

\* What a request does to the levels of its client and of the others.
LEMMA AdmitLevels ==
  ASSUME TypeOK, Recent, NEW c \in Clients, NEW t \in Nat, t <= now, NEW passes \in BOOLEAN,
         Admit(c, t, passes), now' = now
  PROVE  /\ passes => Level(c) >= 1 /\ Level(c)' = Level(c) - 1
         /\ ~passes => Level(c)' = Level(c)
         /\ \A d \in Clients \ {c} : Level(d)' = Level(d)
<1>1. /\ now \in Nat /\ Burst \in Nat \ {0} /\ buckets \in [DOMAIN buckets -> Bucketful]
  BY RateLimiterConstants DEF TypeOK, Bucketful
<1>2. /\ DOMAIN Swept(t) \subseteq DOMAIN buckets
      /\ \A d \in DOMAIN Swept(t) : Swept(t)[d] = buckets[d]
  BY DEF Swept
<1>3. DOMAIN buckets' = DOMAIN Swept(t) \cup {c} /\ buckets'[c] = Taken(Bucket(c, t))
      /\ \A d \in DOMAIN Swept(t) \ {c} : buckets'[d] = buckets[d]
  BY <1>2 DEF Admit
<1>4. Held(Bucket(c, t)) = Level(c) /\ Bucket(c, t) \in Bucketful
  <2>1. CASE c \in DOMAIN Swept(t)
    <3>1. buckets[c] \in Bucketful /\ c \in DOMAIN buckets
      BY <2>1, <1>1, <1>2
    <3>2. Bucket(c, t) = [buckets[c] EXCEPT !.seen = t]
      BY <2>1 DEF Bucket
    <3>3. Bucket(c, t) \in Bucketful
      BY <3>1, <3>2 DEF Bucketful
    <3>4. Bucket(c, t).tokens = buckets[c].tokens /\ Bucket(c, t).last = buckets[c].last
      BY <3>1, <3>2 DEF Bucketful
    <3> QED BY <3>1, <3>3, <3>4 DEF Held, Level
  <2>2. CASE c \notin DOMAIN Swept(t)
    <3>1. Bucket(c, t) = [tokens |-> Burst, last |-> now, seen |-> t]
      BY <2>2 DEF Bucket
    <3>2. Bucket(c, t) \in Bucketful
      BY <3>1, <1>1 DEF Bucketful
    <3>3. Held(Bucket(c, t)) = Burst
      BY <3>1, <1>1 DEF Held
    <3>4. Level(c) = Burst
      BY <2>2, SweptIsFull DEF Level
    <3> QED BY <3>2, <3>3, <3>4
  <2> QED BY <2>1, <2>2
<1>5. passes => Held(Bucket(c, t)) >= 1
  BY Zenon DEF Admit
<1>6. ASSUME NEW b \in Bucketful PROVE Held(b)' = Held(b)
  BY <1>6 DEF Held
<1>7. Level(c)' = Held(Taken(Bucket(c, t)))
  <2>1. Level(c)' = Held(buckets[c])'
    BY <1>3 DEF Level
  <2> QED BY <2>1, <1>3 DEF Held
<1>8. ASSUME NEW d \in Clients \ {c} PROVE Level(d)' = Level(d)
  <2>1. CASE d \in DOMAIN Swept(t)
    BY <2>1, <1>2, <1>3 DEF Level, Held
  <2>2. CASE d \notin DOMAIN Swept(t)
    <3>1. Level(d)' = Burst
      BY <2>2, <1>3 DEF Level
    <3>2. Level(d) = Burst
      BY <2>2, SweptIsFull DEF Level
    <3> QED BY <3>1, <3>2
  <2> QED BY <2>1, <2>2
<1>9. ASSUME passes PROVE Level(c) >= 1 /\ Level(c)' = Level(c) - 1
  <2>1. Held(Bucket(c, t)) >= 1
    BY <1>9, <1>5
  <2>2. Taken(Bucket(c, t)).tokens = Held(Bucket(c, t)) - 1 /\ Taken(Bucket(c, t)).last = now
    BY <2>1, <1>4 DEF Taken, Bucketful
  <2>3. Held(Bucket(c, t)) <= Burst /\ Held(Bucket(c, t)) \in Int
    BY <1>1, <1>4 DEF Held, Bucketful
  <2>4. Held(Taken(Bucket(c, t))) = Held(Bucket(c, t)) - 1
    BY <2>2, <2>3, <1>1 DEF Held
  <2> QED BY <2>1, <2>4, <1>4, <1>7
<1>10. ASSUME ~passes PROVE Level(c)' = Level(c)
  <2>1. Taken(Bucket(c, t)) = Bucket(c, t)
    BY <1>10 DEF Taken, Admit
  <2> QED BY <2>1, <1>4, <1>7
<1>11. passes => Level(c) >= 1 /\ Level(c)' = Level(c) - 1
  BY <1>9
<1>12. ~passes => Level(c)' = Level(c)
  BY <1>10
<1>13. \A d \in Clients \ {c} : Level(d)' = Level(d)
  BY <1>8
<1> QED BY <1>11, <1>12, <1>13

LEMMA RecentStep ==
  ASSUME TypeOK, TypeOK', Recent, [Next]_vars
  PROVE  Recent'
<1>1. /\ now \in Nat /\ Burst \in Nat \ {0} /\ buckets \in [DOMAIN buckets -> Bucketful]
      /\ req \in [Requests -> Asked] /\ MaxStall \in Nat
  BY RateLimiterConstants DEF TypeOK, Bucketful, Asked, Steps
<1>2. CASE UNCHANGED <<now, limiter, req>>
  BY <1>2 DEF Recent, limiter
<1>3. CASE Owner
  BY <1>2, <1>3 DEF Owner, CheckOwner, Insert, DeleteEntry, RevokeShareLink, DeleteShareLink
<1>4. CASE Tick
  <2>1. now' = now + 1 /\ buckets' = buckets /\ req' = req
    BY <1>4 DEF Tick, limiter, shares
  <2>2. ASSUME NEW c \in DOMAIN buckets'
        PROVE  buckets'[c].last <= now' /\ buckets'[c].seen >= buckets'[c].last - MaxStall
    <3>1. buckets[c].last \in Nat
      BY <2>1, <2>2, <1>1 DEF Bucketful
    <3> QED BY <3>1, <2>1, <2>2, <1>1 DEF Recent
  <2>3. ASSUME NEW r \in Requests, req'[r].pc = "waiting"
        PROVE  req'[r].t <= now' /\ now' <= req'[r].t + MaxStall
    <3>1. req[r].t \in Nat
      BY <1>1 DEF Asked
    <3> QED BY <3>1, <2>1, <2>3, <1>1, <1>4 DEF Recent, Tick
  <2> QED BY <2>2, <2>3 DEF Recent
<1>5. CASE Restart
  <2>1. DOMAIN buckets' = {} /\ \A r \in Requests : req'[r].pc = "idle"
    BY <1>5 DEF Restart, LimiterRestart, Nobody, Idle
  <2> QED BY <2>1 DEF Recent
<1>6. ASSUME NEW r \in Requests, NEW l \in Links \cup {NoLink}, Arrive(r, l) PROVE Recent'
  <2>1. /\ req'[r].t = now /\ now' = now /\ buckets' = buckets
        /\ \A q \in Requests \ {r} : req'[q] = req[q]
    BY <1>6, <1>1 DEF Arrive, limiter
  <2>2. ASSUME NEW q \in Requests, req'[q].pc = "waiting"
        PROVE  req'[q].t <= now' /\ now' <= req'[q].t + MaxStall
    <3>1. CASE q = r
      BY <3>1, <2>1, <1>1
    <3>2. CASE q # r
      BY <3>2, <2>1, <2>2 DEF Recent
    <3> QED BY <3>1, <3>2
  <2>3. \A c \in DOMAIN buckets' :
          buckets'[c].last <= now' /\ buckets'[c].seen >= buckets'[c].last - MaxStall
    BY <2>1 DEF Recent
  <2> QED BY <2>2, <2>3 DEF Recent
<1>7. ASSUME NEW r \in Requests, NEW c \in Clients, PassLimiter(r, c) PROVE Recent'
  <2> DEFINE t == req[r].t
  <2>1. PICK passes \in BOOLEAN :
          /\ Admit(c, t, passes)
          /\ req' = [req EXCEPT ![r] = IF passes /\ req[r].link # NoLink
                                      THEN [req[r] EXCEPT !.pc = "reading", !.t = 0] ELSE Idle]
    BY <1>7 DEF PassLimiter
  <2>2. t \in Nat /\ t <= now /\ now <= t + MaxStall /\ now' = now
    BY <1>7, <1>1 DEF PassLimiter, Recent, Asked
  <2>3. /\ req'[r].pc # "waiting"
        /\ \A q \in Requests \ {r} : req'[q] = req[q]
    BY <2>1, <1>1 DEF Idle, Asked
  <2>4. ASSUME NEW q \in Requests, req'[q].pc = "waiting"
        PROVE  req'[q].t <= now' /\ now' <= req'[q].t + MaxStall
    BY <2>2, <2>3, <2>4 DEF Recent
  <2>5. ASSUME NEW d \in DOMAIN buckets'
        PROVE  buckets'[d].last <= now' /\ buckets'[d].seen >= buckets'[d].last - MaxStall
    <3>1. /\ buckets'[d] = IF d = c THEN Taken(Bucket(c, t)) ELSE Swept(t)[d]
          /\ d # c => d \in DOMAIN Swept(t)
      BY <2>1 DEF Admit
    <3>2. CASE d # c
      <4>1. d \in DOMAIN buckets /\ buckets'[d] = buckets[d]
        BY <3>1, <3>2 DEF Swept
      <4> QED BY <4>1, <2>2 DEF Recent
    <3>3. CASE d = c
      <4>1. Bucket(c, t) \in [tokens : 0 .. Burst, last : Nat, seen : {t}]
            /\ Bucket(c, t).last <= now
        <5>1. CASE c \in DOMAIN Swept(t)
          <6>1. c \in DOMAIN buckets /\ buckets[c] \in Bucketful /\ buckets[c].last <= now
            BY <5>1, <1>1 DEF Swept, Recent
          <6> QED BY <6>1, <5>1 DEF Bucket, Bucketful
        <5>2. CASE c \notin DOMAIN Swept(t)
          <6>1. Bucket(c, t) = [tokens |-> Burst, last |-> now, seen |-> t]
            BY <5>2 DEF Bucket
          <6> QED BY <6>1, <1>1
        <5> QED BY <5>1, <5>2
      <4>2. /\ Taken(Bucket(c, t)).seen = t
            /\ Taken(Bucket(c, t)).last \in {now, Bucket(c, t).last}
        BY <4>1 DEF Taken
      <4>3. Taken(Bucket(c, t)).last <= now /\ Taken(Bucket(c, t)).last \in Nat
        BY <4>1, <4>2, <1>1
      <4> QED BY <4>2, <4>3, <3>1, <3>3, <2>2, <1>1
    <3> QED BY <3>2, <3>3
  <2> QED BY <2>4, <2>5 DEF Recent
<1>8. ASSUME NEW r \in Requests, Read(r) \/ Count(r) PROVE Recent'
  <2>1. /\ req'[r].pc # "waiting" /\ now' = now /\ buckets' = buckets
        /\ \A q \in Requests \ {r} : req'[q] = req[q]
    BY <1>8, <1>1 DEF Read, Count, Idle, Asked, limiter
  <2> QED BY <2>1 DEF Recent
<1>9. CASE UNCHANGED vars
  BY <1>2, <1>9 DEF vars, shares
<1> QED BY <1>3, <1>4, <1>5, <1>6, <1>7, <1>8, <1>9 DEF Next, Views

LEMMA BucketsStep ==
  ASSUME TypeOK, Recent, [Next]_vars
  PROVE  [Buckets!Next]_<<[c \in Clients |-> Level(c)], boots>>
<1> DEFINE levels == [c \in Clients |-> Level(c)]
<1>1. /\ now \in Nat /\ Burst \in Nat \ {0} /\ buckets \in [DOMAIN buckets -> Bucketful]
      /\ req \in [Requests -> Asked]
  BY RateLimiterConstants DEF TypeOK, Bucketful, Asked, Steps
<1>2. CASE UNCHANGED <<now, limiter>>
  <2>1. levels' = levels /\ boots' = boots
    BY <1>2 DEF limiter, Level, Held
  <2> QED BY <2>1
<1>3. CASE Owner
  BY <1>2, <1>3 DEF Owner, CheckOwner, Insert, DeleteEntry, RevokeShareLink, DeleteShareLink
<1>4. CASE Tick
  <2>1. now' = now + 1 /\ buckets' = buckets /\ boots' = boots
    BY <1>4 DEF Tick, limiter
  <2>2. ASSUME NEW c \in Clients
        PROVE  Level(c)' = IF Level(c) < Burst THEN Level(c) + 1 ELSE Burst
    <3>1. CASE c \in DOMAIN buckets
      <4>1. Level(c) = Held(buckets[c]) /\ buckets[c] \in Bucketful
        BY <3>1, <1>1 DEF Level
      <4>2. Level(c)' = IF buckets[c].tokens + (now + 1 - buckets[c].last) < Burst
                          THEN buckets[c].tokens + (now + 1 - buckets[c].last) ELSE Burst
        <5>1. Level(c)' = Held(buckets[c])'
          BY <3>1, <2>1, Zenon DEF Level
        <5>2. Held(buckets[c])' = IF buckets[c].tokens + (now + 1 - buckets[c].last) < Burst
                          THEN buckets[c].tokens + (now + 1 - buckets[c].last) ELSE Burst
          BY <2>1, <4>1, <1>1 DEF Held, Bucketful
        <5> QED BY <5>1, <5>2
      <4> QED BY <4>1, <4>2, <1>1 DEF Held, Bucketful
    <3>2. CASE c \notin DOMAIN buckets
      BY <3>2, <2>1, <1>1 DEF Level
    <3> QED BY <3>1, <3>2
  <2>3. levels' = [c \in Clients |-> IF levels[c] < Burst THEN levels[c] + 1 ELSE Burst]
    BY <2>2
  <2>4. Buckets!Refill
    BY <2>1, <2>3 DEF Buckets!Refill
  <2> QED BY <2>4 DEF Buckets!Next
<1>5. CASE Restart
  <2>1. levels' = [c \in Clients |-> Burst] /\ boots' = boots + 1
    BY <1>5 DEF Restart, LimiterRestart, Nobody, Level
  <2> QED BY <2>1 DEF Buckets!Next, Buckets!Restart, Buckets!Full
<1>6. ASSUME NEW r \in Requests, NEW c \in Clients, PassLimiter(r, c)
      PROVE  Buckets!Next \/ (levels' = levels /\ boots' = boots)
  <2> DEFINE t == req[r].t
  <2>1. PICK passes \in BOOLEAN : Admit(c, t, passes)
    BY <1>6 DEF PassLimiter
  <2>2. t \in Nat /\ t <= now /\ now' = now
    BY <1>6, <1>1 DEF PassLimiter, Recent, Asked
  <2>3. /\ passes => Level(c) >= 1 /\ Level(c)' = Level(c) - 1
        /\ ~passes => Level(c)' = Level(c)
        /\ \A d \in Clients \ {c} : Level(d)' = Level(d)
    BY <2>1, <2>2, AdmitLevels
  <2>4. boots' = boots
    BY <2>1 DEF Admit
  <2>5. CASE passes
    <3>1. \A d \in Clients : Level(d)' = IF d = c THEN Level(d) - 1 ELSE Level(d)
      BY <2>3, <2>5
    <3>2. levels' = [levels EXCEPT ![c] = levels[c] - 1] /\ levels[c] >= 1
      BY <2>3, <2>5, <3>1
    <3>3. Buckets!Pass(c)
      BY <3>2, <2>4 DEF Buckets!Pass
    <3> QED BY <3>3 DEF Buckets!Next
  <2>6. CASE ~passes
    <3>1. \A d \in Clients : Level(d)' = Level(d)
      BY <2>3, <2>6
    <3> QED BY <3>1, <2>4
  <2> QED BY <2>5, <2>6
<1>7. CASE Views
  <2>1. CASE \E r \in Requests, c \in Clients : PassLimiter(r, c)
    BY <2>1, <1>6
  <2>2. CASE \E r \in Requests : (\E l \in Links \cup {NoLink} : Arrive(r, l)) \/ Read(r) \/ Count(r)
    BY <2>2, <1>2 DEF Arrive, Read, Count
  <2> QED BY <2>1, <2>2, <1>7 DEF Views
<1>8. CASE UNCHANGED vars
  BY <1>2, <1>8 DEF vars
<1> QED BY <1>3, <1>4, <1>5, <1>7, <1>8 DEF Next

LEMMA RecentInit ==
  ASSUME Init
  PROVE  Recent /\ Buckets!Init
<1>1. DOMAIN buckets = {}
  BY DEF Init, LimiterInit, Nobody
<1>2. Recent
  BY <1>1 DEF Init, Idle, Recent
<1>3. Buckets!Init
  BY <1>1 DEF Init, LimiterInit, Level, Buckets!Init, Buckets!Full
<1> QED BY <1>2, <1>3

\* For any burst that an idle time outlasts together with a stall, the limiter with its
\* sweeps implements buckets that nobody forgets (ratelimit.go, PerIPRateLimiter).
THEOREM LimiterImplementsBuckets == Spec => LimiterForgetsNothing
<1>1. Init => (TypeOK /\ Known) /\ Recent /\ Buckets!Init
  BY TypesInit, RecentInit
<1>2. (TypeOK /\ Known) /\ [Next]_vars => (TypeOK /\ Known)'
  BY TypesStep
<1>3. TypeOK /\ TypeOK' /\ Recent /\ [Next]_vars => Recent'
  BY RecentStep
<1>4. TypeOK /\ Recent /\ [Next]_vars => [Buckets!Next]_<<[c \in Clients |-> Level(c)], boots>>
  BY BucketsStep
<1> QED BY <1>1, <1>2, <1>3, <1>4, PTL DEF Spec, LimiterForgetsNothing, Buckets!Spec

-----------------------------------------------------------------------------
(***************************************************************************)
(* Closed links.  What closes a link is never undone: its limit and expiry *)
(* are fixed, its views only grow, a row that is gone stays gone, and a    *)
(* link whose token was given out is not made again.                       *)
(***************************************************************************)

\* A request asks for a link that was made, and one that asks late finds it closed.
Refused(r) ==
  /\ \A l \in Links : req[r].link = l => links[l].row # "none" /\ (req[r].late => Closed(l))
  /\ req[r].late => req[r].pc \in {"waiting", "reading"} /\ req[r].link \in Links
LateIsRefused == \A r \in Requests : Refused(r)

LEMMA ClosedForGood ==
  ASSUME TypeOK, Known, [Next]_vars, NEW l \in Links, links[l].row # "none"
  PROVE  links'[l].row # "none" /\ (Closed(l) => Closed(l)')
<1>1. /\ now \in Nat /\ links \in [Links -> Rows] /\ links[l] \in Rows /\ req \in [Requests -> Asked]
      /\ Limits \cup {Unlimited} \subseteq Int
  BY RateLimiterConstants, ShareLinksConstants DEF TypeOK, Asked, Steps, Unlimited
<1>2. ASSUME links'[l] = links[l], now' = now \/ now' = now + 1 PROVE links'[l].row # "none" /\ (Closed(l) => Closed(l)')
  BY <1>1, <1>2 DEF Closed, Rows
<1>3. ASSUME links'[l] \in Rows, now' = now, links'[l].row = links[l].row \/ links'[l].row = "gone",
             links'[l].max = links[l].max, links'[l].expires = links[l].expires,
             links[l].revoked => links'[l].revoked,
             links'[l].views >= links[l].views
      PROVE  links'[l].row # "none" /\ (Closed(l) => Closed(l)')
  <2>1. links[l].max \in Int /\ links[l].views \in Nat /\ links'[l].views \in Nat
    BY <1>1, <1>3 DEF Rows
  <2>2. links[l].revoked => Closed(l)'
    BY <1>3 DEF Closed
  <2>3. links[l].row # "there" => Closed(l)'
    BY <1>3 DEF Closed
  <2>4. now > links[l].expires => Closed(l)'
    BY <1>3 DEF Closed
  <2>5. links[l].max # Unlimited /\ links[l].views >= links[l].max => Closed(l)'
    BY <2>1, <1>3 DEF Closed
  <2>6. Closed(l) => Closed(l)'
    BY <2>2, <2>3, <2>4, <2>5 DEF Closed
  <2> QED BY <2>6, <1>3
<1>4. CASE Insert
  BY <1>1, <1>2, <1>4 DEF Insert
<1>5. CASE DeleteEntry
  <2>1. /\ now' = now
        /\ links'[l] = IF links[l].row = "there" THEN [links[l] EXCEPT !.row = "gone"] ELSE links[l]
    BY <1>5 DEF DeleteEntry
  <2>2. CASE links[l].row = "there"
    <3>1. links'[l] = [links[l] EXCEPT !.row = "gone"]
      BY <2>1, <2>2
    <3> QED BY <3>1, <2>1, <1>1, <1>3 DEF Rows
  <2> QED BY <2>1, <2>2, <1>2
<1>6. ASSUME NEW k \in Links, RevokeShareLink(k) PROVE links'[l].row # "none" /\ (Closed(l) => Closed(l)')
  <2>1. links'[l] = (IF k = l THEN [links[l] EXCEPT !.revoked = TRUE] ELSE links[l]) /\ now' = now
    BY <1>6, <1>1 DEF RevokeShareLink
  <2>2. CASE k = l
    <3>1. links'[l] = [links[l] EXCEPT !.revoked = TRUE]
      BY <2>1, <2>2
    <3>2. links'[l].revoked /\ links'[l] \in Rows
      BY <3>1, <1>1 DEF Rows
    <3>3. /\ links'[l].row = links[l].row /\ links'[l].max = links[l].max
          /\ links'[l].expires = links[l].expires /\ links'[l].views = links[l].views
      BY <3>1, <1>1 DEF Rows
    <3>4. links'[l].views >= links[l].views
      BY <3>3, <1>1 DEF Rows
    <3> QED BY <3>2, <3>3, <3>4, <2>1, <1>3
  <2> QED BY <2>1, <2>2, <1>2
<1>7. ASSUME NEW k \in Links, DeleteShareLink(k) PROVE links'[l].row # "none" /\ (Closed(l) => Closed(l)')
  <2>1. links'[l] = (IF k = l THEN [links[l] EXCEPT !.row = "gone"] ELSE links[l]) /\ now' = now
    BY <1>7, <1>1 DEF DeleteShareLink
  <2>2. CASE k = l
    <3>1. links'[l] = [links[l] EXCEPT !.row = "gone"]
      BY <2>1, <2>2
    <3> QED BY <3>1, <2>1, <1>1, <1>3 DEF Rows
  <2> QED BY <2>1, <2>2, <1>2
<1>8. ASSUME NEW r \in Requests, Count(r) PROVE links'[l].row # "none" /\ (Closed(l) => Closed(l)')
  <2> DEFINE k == req[r].link
  <2>1. k \in Links /\ now' = now
    BY <1>8 DEF Count, Known
  <2>2. links' = links \/ links' = [links EXCEPT ![k].views = links[k].views + 1]
    BY <1>8 DEF Count, Counted
  <2>3. CASE links'[l] = links[l]
    BY <2>1, <2>3, <1>2
  <2>4. CASE links'[l] # links[l]
    <3>1. links'[l] = [links[l] EXCEPT !.views = links[l].views + 1]
      BY <2>1, <2>2, <2>4, <1>1
    <3>2. links[l].views \in Nat /\ links[l].views + 1 \in Nat
      BY <1>1 DEF Rows
    <3> QED BY <3>1, <3>2, <2>1, <1>1, <1>3 DEF Rows
  <2> QED BY <2>3, <2>4
<1>9. CASE UNCHANGED links /\ (now' = now \/ now' = now + 1)
  BY <1>9, <1>2
<1>10. CASE CheckOwner \/ Tick \/ Restart \/ UNCHANGED vars
  BY <1>9, <1>10 DEF CheckOwner, Tick, shares, Restart, vars
<1>11. ASSUME NEW r \in Requests,
              Read(r) \/ (\E k \in Links \cup {NoLink} : Arrive(r, k)) \/ (\E c \in Clients : PassLimiter(r, c))
       PROVE  links'[l].row # "none" /\ (Closed(l) => Closed(l)')
  BY <1>9, <1>11 DEF Read, Arrive, PassLimiter
<1> QED BY <1>4, <1>5, <1>6, <1>7, <1>8, <1>10, <1>11 DEF Next, Owner, Views

LEMMA LateStep ==
  ASSUME TypeOK, Known, LateIsRefused, [Next]_vars
  PROVE  LateIsRefused'
<1> SUFFICES ASSUME NEW r \in Requests PROVE Refused(r)'
  BY DEF LateIsRefused
<1>1. /\ req \in [Requests -> Asked] /\ req[r] \in Asked /\ NoLink \notin Links
      /\ Idle.link = NoLink /\ Idle.late = FALSE
  BY ShareLinksConstants DEF TypeOK, Asked, Steps, Idle
<1>2. ASSUME NEW l \in Links, links[l].row # "none"
      PROVE  links'[l].row # "none" /\ (Closed(l) => Closed(l)')
  BY <1>2, ClosedForGood
\* A request that goes on, or whose turn it is not.
<1>3. ASSUME req'[r].link = req[r].link, req'[r].late => req[r].late,
             req'[r].late => req'[r].pc \in {"waiting", "reading"}
      PROVE  Refused(r)'
  <2>1. Refused(r)
    BY DEF LateIsRefused
  <2>2. ASSUME NEW l \in Links, req'[r].link = l
        PROVE  links'[l].row # "none" /\ (req'[r].late => Closed(l)')
    BY <2>1, <2>2, <1>2, <1>3 DEF Refused
  <2>3. req'[r].late => req'[r].pc \in {"waiting", "reading"} /\ req'[r].link \in Links
    BY <2>1, <1>3 DEF Refused
  <2> QED BY <2>2, <2>3 DEF Refused
<1>4. CASE req'[r] = req[r]
  <2>1. req[r].late => req[r].pc \in {"waiting", "reading"}
    BY DEF LateIsRefused, Refused
  <2> QED BY <2>1, <1>3, <1>4
<1>5. CASE req'[r] = Idle
  BY <1>1, <1>5 DEF Refused
<1>6. CASE Owner \/ Tick \/ UNCHANGED vars
  BY <1>4, <1>6 DEF Owner, CheckOwner, Insert, DeleteEntry, RevokeShareLink, DeleteShareLink, Tick, shares, vars
<1>7. CASE Restart
  BY <1>5, <1>7 DEF Restart
<1>8. ASSUME NEW q \in Requests, Count(q) PROVE Refused(r)'
  <2>1. req'[r] = req[r] \/ req'[r] = Idle
    BY <1>1, <1>8 DEF Count
  <2> QED BY <2>1, <1>4, <1>5
<1>9. ASSUME NEW q \in Requests, NEW c \in Clients, PassLimiter(q, c) PROVE Refused(r)'
  <2>1. \/ req'[r] = req[r] \/ req'[r] = Idle
        \/ req'[r] = [req[r] EXCEPT !.pc = "reading", !.t = 0]
    BY <1>1, <1>9 DEF PassLimiter
  <2>2. CASE req'[r] = [req[r] EXCEPT !.pc = "reading", !.t = 0]
    <3>1. req'[r].link = req[r].link /\ req'[r].late = req[r].late /\ req'[r].pc = "reading"
      BY <2>2, <1>1 DEF Asked
    <3> QED BY <3>1, <1>3
  <2> QED BY <2>1, <2>2, <1>4, <1>5
<1>10. ASSUME NEW q \in Requests, Read(q) PROVE Refused(r)'
  <2>1. \/ req'[r] = req[r] \/ req'[r] = Idle
        \/ q = r /\ req'[r] = [req[r] EXCEPT !.pc = "counting"] /\ ~Closed(req[r].link)
    BY <1>1, <1>10 DEF Read
  <2>2. CASE req'[r] = [req[r] EXCEPT !.pc = "counting"] /\ ~Closed(req[r].link)
    <3>1. req'[r].link = req[r].link /\ req'[r].late = req[r].late
      BY <2>2, <1>1 DEF Asked
    <3>2. ~req[r].late
      BY <2>2 DEF LateIsRefused, Refused
    <3> QED BY <3>1, <3>2, <1>3
  <2> QED BY <2>1, <2>2, <1>4, <1>5
<1>11. ASSUME NEW q \in Requests, NEW l \in Links \cup {NoLink}, Arrive(q, l) PROVE Refused(r)'
  <2>1. req'[r] = req[r] \/ req'[r] = [pc |-> "waiting", link |-> l, t |-> now, late |-> l # NoLink /\ Closed(l)]
    BY <1>1, <1>11 DEF Arrive
  <2>2. links' = links /\ now' = now /\ (l # NoLink => links[l].row # "none")
    BY <1>11 DEF Arrive
  <2>3. CASE req'[r] = [pc |-> "waiting", link |-> l, t |-> now, late |-> l # NoLink /\ Closed(l)]
    <3>1. req'[r].link = l /\ req'[r].pc = "waiting" /\ req'[r].late = (l # NoLink /\ Closed(l))
      BY <2>3
    <3>2. l \in Links => links'[l].row # "none"
      BY <2>2, <1>1
    <3>3. Closed(l) => Closed(l)'
      BY <2>2 DEF Closed
    <3>4. (req'[r].late => Closed(l)') /\ (req'[r].late => l \in Links)
      BY <3>1, <3>3, Zenon
    <3> QED BY <3>1, <3>2, <3>4 DEF Refused
  <2> QED BY <2>1, <2>3, <1>4
<1> QED BY <1>6, <1>7, <1>8, <1>9, <1>10, <1>11 DEF Next, Views

LEMMA LateInit ==
  ASSUME Init
  PROVE  LateIsRefused
BY ShareLinksConstants DEF Init, Idle, LateIsRefused, Refused

\* For any number of requests, owners and restarts, who asks after a link is closed is
\* not shown its payload (share_links.go, GetShareLink).
THEOREM ClosedForever == Spec => []ClosedStaysClosed
<1>1. Init => (TypeOK /\ Known) /\ LateIsRefused
  BY TypesInit, LateInit
<1>2. (TypeOK /\ Known) /\ [Next]_vars => (TypeOK /\ Known)'
  BY TypesStep
<1>3. (TypeOK /\ Known) /\ LateIsRefused /\ [Next]_vars => LateIsRefused'
  BY LateStep
<1>4. LateIsRefused => ClosedStaysClosed
  BY DEF LateIsRefused, Refused, ClosedStaysClosed
<1> QED BY <1>1, <1>2, <1>3, <1>4, PTL DEF Spec

-----------------------------------------------------------------------------
(***************************************************************************)
(* Views.  The row counts what is shown, but for the counts that failed;   *)
(* a request starts to count only below the limit, so the ones that count  *)
(* together are all that can go past it.                                   *)
(***************************************************************************)

\* What was shown of a link has been counted, and nothing is known of one not made yet.
ShownIsCounted ==
  \A l \in Links :
    /\ links[l].row = "there" => shown[l] <= links[l].views + missed[l]
    /\ links[l].row = "none" =>
         /\ shown[l] = 0 /\ missed[l] = 0
         /\ \A r \in Requests : req[r].link # l

LEMMA CountingIsFinite ==
  ASSUME NEW l
  PROVE  /\ IsFiniteSet(Counting(l)) /\ Cardinality(Counting(l)) \in Nat
         /\ Cardinality(Requests) \in Nat /\ Cardinality(Counting(l)) <= Cardinality(Requests)
<1>1. Counting(l) \subseteq Requests
  BY DEF Counting
<1> QED BY <1>1, ShareLinksConstants, FS_Subset, FS_CardinalityType

LEMMA ShownStep ==
  ASSUME TypeOK, Known, LateIsRefused, LateIsRefused', ShownIsCounted, [Next]_vars
  PROVE  ShownIsCounted'
<1>1. /\ links \in [Links -> Rows] /\ shown \in [Links -> Nat] /\ missed \in [Links -> Nat]
      /\ req \in [Requests -> Asked] /\ NoLink \notin Links
  BY ShareLinksConstants DEF TypeOK, Asked, Steps
<1> SUFFICES ASSUME NEW l \in Links
             PROVE  /\ links'[l].row = "there" => shown'[l] <= links'[l].views + missed'[l]
                    /\ links'[l].row = "none" =>
                         /\ shown'[l] = 0 /\ missed'[l] = 0
                         /\ \A r \in Requests : req'[r].link # l
  BY DEF ShownIsCounted
<1>2. links[l] \in Rows /\ shown[l] \in Nat /\ missed[l] \in Nat
  BY <1>1
\* A request never asks for a link that is not made.
<1>3. ASSUME links'[l].row = "none" PROVE \A r \in Requests : req'[r].link # l
  BY <1>3 DEF LateIsRefused, Refused
<1>4. ASSUME shown'[l] = shown[l], missed'[l] = missed[l],
             links'[l].row = "there" => links[l].row = "there" /\ links'[l].views = links[l].views,
             links'[l].row = "none" => links[l].row = "none"
      PROVE  /\ links'[l].row = "there" => shown'[l] <= links'[l].views + missed'[l]
             /\ links'[l].row = "none" =>
                  /\ shown'[l] = 0 /\ missed'[l] = 0
                  /\ \A r \in Requests : req'[r].link # l
  BY <1>3, <1>4 DEF ShownIsCounted
<1>5. CASE UNCHANGED <<links, shown, missed>>
  BY <1>4, <1>5
<1>6. CASE CheckOwner \/ Tick \/ Restart \/ UNCHANGED vars
  BY <1>5, <1>6 DEF CheckOwner, Tick, shares, Restart, vars
<1>7. CASE Insert
  <2>1. shown' = shown /\ missed' = missed
    BY <1>7 DEF Insert
  <2>2. \/ links'[l] = links[l]
        \/ /\ links[l].row = "none"
           /\ links'[l].row = "there" /\ links'[l].views = 0
    BY <1>1, <1>7 DEF Insert, Row
  <2>3. CASE links'[l] = links[l]
    BY <2>1, <2>3, <1>4
  <2>4. CASE links[l].row = "none" /\ links'[l].row = "there" /\ links'[l].views = 0
    <3>1. shown[l] = 0 /\ missed[l] = 0
      BY <2>4 DEF ShownIsCounted
    <3> QED BY <3>1, <2>1, <2>4
  <2> QED BY <2>2, <2>3, <2>4
<1>8. CASE DeleteEntry
  <2>1. /\ shown' = shown /\ missed' = missed
        /\ links'[l] = IF links[l].row = "there" THEN [links[l] EXCEPT !.row = "gone"] ELSE links[l]
    BY <1>8 DEF DeleteEntry
  <2>2. CASE links[l].row = "there"
    <3>1. links'[l].row = "gone"
      BY <2>1, <2>2, <1>2 DEF Rows
    <3> QED BY <3>1
  <2> QED BY <2>1, <2>2, <1>4
<1>9. ASSUME NEW k \in Links, RevokeShareLink(k) \/ DeleteShareLink(k)
      PROVE  /\ shown'[l] = shown[l] /\ missed'[l] = missed[l]
             /\ links'[l].row = "there" => links[l].row = "there" /\ links'[l].views = links[l].views
             /\ links'[l].row = "none" => links[l].row = "none"
  <2>1. shown' = shown /\ missed' = missed
    BY <1>9 DEF RevokeShareLink, DeleteShareLink
  <2>2. CASE k = l
    <3>1. \/ links'[l] = [links[l] EXCEPT !.revoked = TRUE]
          \/ links'[l] = [links[l] EXCEPT !.row = "gone"]
      BY <2>2, <1>1, <1>9 DEF RevokeShareLink, DeleteShareLink
    <3> QED BY <3>1, <2>1, <1>2 DEF Rows
  <2>3. CASE k # l
    <3>1. links'[l] = links[l]
      BY <2>3, <1>1, <1>9 DEF RevokeShareLink, DeleteShareLink
    <3> QED BY <3>1, <2>1
  <2> QED BY <2>2, <2>3
<1>10. ASSUME NEW r \in Requests,
              Read(r) \/ (\E k \in Links \cup {NoLink} : Arrive(r, k)) \/ (\E c \in Clients : PassLimiter(r, c))
       PROVE  UNCHANGED <<links, shown, missed>>
  BY <1>10 DEF Read, Arrive, PassLimiter
<1>11. ASSUME NEW r \in Requests, Count(r)
       PROVE  /\ links'[l].row = "there" => shown'[l] <= links'[l].views + missed'[l]
              /\ links'[l].row = "none" =>
                   /\ shown'[l] = 0 /\ missed'[l] = 0
                   /\ \A q \in Requests : req'[q].link # l
  <2> DEFINE k == req[r].link
  <2>1. k \in Links
    BY <1>11 DEF Count, Known
  <2>2. /\ links' = Counted(k, links[k].views + 1) \/ links' = links
        /\ shown' = [shown EXCEPT ![k] = shown[k] + 1] \/ shown' = shown
        /\ missed' = [missed EXCEPT ![k] = missed[k] + 1] \/ missed' = missed
    BY <1>11 DEF Count
  <2>3. CASE k # l
    <3>1. links'[l] = links[l] /\ shown'[l] = shown[l] /\ missed'[l] = missed[l]
      BY <2>1, <2>2, <2>3, <1>1 DEF Counted
    <3> QED BY <3>1, <1>4
  <2>4. CASE k = l
    <3>1. links[l].row # "none" /\ (links[l].row = "there" => shown[l] <= links[l].views + missed[l])
      BY <2>4 DEF ShownIsCounted
    <3>2. links'[l].row = links[l].row
      BY <2>1, <2>2, <2>4, <1>1, <1>2 DEF Counted, Rows
    <3>3. CASE links[l].row = "there"
      <4>1. /\ links[l].views \in Nat
            /\ [links[l] EXCEPT !.views = links[l].views + 1].views = links[l].views + 1
        BY <1>2 DEF Rows
      <4>2. Counted(k, links[k].views + 1)[l].views = links[l].views + 1
        BY <4>1, <3>3, <2>4, <1>1 DEF Counted
      <4>3. \/ links'[l].views = links[l].views + 1 /\ shown'[l] = shown[l] + 1 /\ missed'[l] = missed[l]
            \/ links'[l].views = links[l].views + 1 /\ shown'[l] = shown[l] /\ missed'[l] = missed[l]
            \/ links'[l].views = links[l].views /\ shown'[l] = shown[l] + 1 /\ missed'[l] = missed[l] + 1
        BY <4>2, <2>4, <1>1, <1>11 DEF Count
      <4> QED BY <4>1, <4>3, <3>1, <3>2, <1>2
    <3> QED BY <3>1, <3>2, <3>3
  <2> QED BY <2>3, <2>4
<1> QED BY <1>4, <1>5, <1>6, <1>7, <1>8, <1>9, <1>10, <1>11 DEF Next, Owner, Views

LEMMA BoundStep ==
  ASSUME TypeOK, TypeOK', Known, ShownIsCounted, ViewsAreBounded, [Next]_vars
  PROVE  ViewsAreBounded'
<1> DEFINE N == Cardinality(Requests)
<1>1. /\ links \in [Links -> Rows] /\ shown \in [Links -> Nat] /\ missed \in [Links -> Nat]
      /\ req \in [Requests -> Asked] /\ links' \in [Links -> Rows]
      /\ shown' \in [Links -> Nat] /\ missed' \in [Links -> Nat] /\ Idle.pc = "idle"
  BY DEF TypeOK, Asked, Steps, Idle
<1> SUFFICES ASSUME NEW l \in Links, links'[l].row = "there", links'[l].max # Unlimited
             PROVE  shown'[l] + Cardinality(Counting(l)') <= links'[l].max + missed'[l] + N - 1
  BY DEF ViewsAreBounded
<1>2. /\ shown[l] \in Nat /\ missed[l] \in Nat /\ shown'[l] \in Nat /\ missed'[l] \in Nat
      /\ links'[l].max \in Nat /\ links[l] \in Rows
  <2>1. links'[l].max \in Limits \cup {Unlimited} /\ Limits \subseteq Nat \cup {Unlimited}
    BY <1>1, ShareLinksConstants DEF Rows
  <2> QED BY <2>1, <1>1
<1>3. /\ IsFiniteSet(Counting(l)) /\ Cardinality(Counting(l)) \in Nat /\ N \in Nat
      /\ Cardinality(Counting(l)) <= N
  BY CountingIsFinite
<1>4. /\ IsFiniteSet(Counting(l)') /\ Cardinality(Counting(l)') \in Nat
      /\ Cardinality(Counting(l)') <= N
  <2>1. Counting(l)' \subseteq Requests
    BY DEF Counting
  <2> QED BY <2>1, ShareLinksConstants, FS_Subset, FS_CardinalityType
<1> HIDE DEF N
\* Nothing about the link changes, and no request joins those that count.
<1>5. ASSUME links[l].row = "there", links[l].max = links'[l].max,
             shown'[l] = shown[l], missed'[l] = missed[l], Counting(l)' \subseteq Counting(l)
      PROVE  shown'[l] + Cardinality(Counting(l)') <= links'[l].max + missed'[l] + N - 1
  <2>1. Cardinality(Counting(l)') <= Cardinality(Counting(l))
    BY <1>3, <1>5, FS_Subset
  <2>2. shown[l] + Cardinality(Counting(l)) <= links[l].max + missed[l] + N - 1
    BY <1>5 DEF ViewsAreBounded, N
  <2> QED BY <2>1, <2>2, <1>2, <1>3, <1>4, <1>5
<1>6. CASE links'[l] = links[l] /\ UNCHANGED <<shown, missed>> /\ Counting(l)' \subseteq Counting(l)
  BY <1>5, <1>6
<1>7. CASE CheckOwner \/ Tick \/ Restart \/ UNCHANGED vars
  <2>1. UNCHANGED <<links, shown, missed>> /\ (req' = req \/ req' = [r \in Requests |-> Idle])
    BY <1>7 DEF CheckOwner, Tick, shares, Restart, vars
  <2>2. Counting(l)' \subseteq Counting(l)
    BY <2>1, <1>1 DEF Counting
  <2> QED BY <2>1, <2>2, <1>6
<1>8. CASE Insert
  <2>1. shown' = shown /\ missed' = missed /\ req' = req
    BY <1>8 DEF Insert
  <2>2. Counting(l)' = Counting(l)
    BY <2>1 DEF Counting
  <2>3. links'[l] = links[l] \/ links[l].row = "none"
    BY <1>1, <1>8 DEF Insert
  <2>4. CASE links[l].row = "none"
    <3>1. shown[l] = 0 /\ Counting(l) = {}
      BY <2>4 DEF ShownIsCounted, Counting
    <3>2. Cardinality(Counting(l)') = 0
      BY <3>1, <2>2, FS_EmptySet
    <3>3. shown'[l] = 0 /\ N >= 1
      <4>1. N # 0
        BY ShareLinksConstants, FS_EmptySet DEF N
      <4> QED BY <4>1, <3>1, <2>1, <1>3
    <3> QED BY <3>2, <3>3, <1>2, <1>3
  <2> QED BY <2>1, <2>2, <2>3, <2>4, <1>6
<1>9. CASE DeleteEntry
  <2>1. /\ shown' = shown /\ missed' = missed /\ req' = req
        /\ links'[l] = IF links[l].row = "there" THEN [links[l] EXCEPT !.row = "gone"] ELSE links[l]
    BY <1>9 DEF DeleteEntry
  <2>2. links[l].row # "there"
    <3>1. [links[l] EXCEPT !.row = "gone"].row = "gone"
      BY <1>2 DEF Rows
    <3> QED BY <3>1, <2>1
  <2> QED BY <2>1, <2>2
<1>10. ASSUME NEW k \in Links, RevokeShareLink(k) \/ DeleteShareLink(k)
       PROVE  /\ shown'[l] = shown[l] /\ missed'[l] = missed[l] /\ Counting(l)' = Counting(l)
              /\ links[l].row = "there" /\ links[l].max = links'[l].max
  <2>1. shown' = shown /\ missed' = missed /\ req' = req
    BY <1>10 DEF RevokeShareLink, DeleteShareLink
  <2>2. \/ links'[l] = links[l] \/ links'[l] = [links[l] EXCEPT !.revoked = TRUE]
        \/ links'[l] = [links[l] EXCEPT !.row = "gone"]
    <3>1. \/ links' = [links EXCEPT ![k] = [links[k] EXCEPT !.revoked = TRUE]]
          \/ links' = [links EXCEPT ![k] = [links[k] EXCEPT !.row = "gone"]]
      BY <1>10 DEF RevokeShareLink, DeleteShareLink
    <3> QED BY <3>1, <1>1
  <2>3. [links[l] EXCEPT !.row = "gone"].row = "gone"
    BY <1>2 DEF Rows
  <2>4. links'[l] = links[l] \/ links'[l] = [links[l] EXCEPT !.revoked = TRUE]
    BY <2>2, <2>3
  <2> QED BY <2>1, <2>4, <1>2 DEF Counting, Rows
<1>11. ASSUME NEW r \in Requests,
              (\E k \in Links \cup {NoLink} : Arrive(r, k)) \/ (\E c \in Clients : PassLimiter(r, c))
       PROVE  UNCHANGED <<links, shown, missed>> /\ Counting(l)' \subseteq Counting(l)
  <2>1. UNCHANGED <<links, shown, missed>>
    BY <1>11 DEF Arrive, PassLimiter
  <2>2. \A q \in Requests : req'[q] = req[q] \/ req'[q].pc # "counting"
    <3>1. req[r] \in Asked
      BY <1>1
    <3>2. CASE \E k \in Links \cup {NoLink} : Arrive(r, k)
      BY <3>2, <1>1 DEF Arrive
    <3>3. CASE \E c \in Clients : PassLimiter(r, c)
      <4>1. [req[r] EXCEPT !.pc = "reading", !.t = 0].pc = "reading"
        BY <3>1 DEF Asked
      <4>2. \/ req' = [req EXCEPT ![r] = [req[r] EXCEPT !.pc = "reading", !.t = 0]]
            \/ req' = [req EXCEPT ![r] = Idle]
        BY <3>3 DEF PassLimiter
      <4> QED BY <4>1, <4>2, <1>1
    <3> QED BY <3>2, <3>3, <1>11
  <2> QED BY <2>1, <2>2 DEF Counting
<1>12. ASSUME NEW r \in Requests, Read(r)
       PROVE  shown'[l] + Cardinality(Counting(l)') <= links'[l].max + missed'[l] + N - 1
  <2>1. UNCHANGED <<links, shown, missed>> /\ req[r] \in Asked
    BY <1>1, <1>12 DEF Read
  <2>2. CASE req[r].link # l \/ req' = [req EXCEPT ![r] = Idle]
    <3>1. \A q \in Requests : req'[q] = req[q] \/ req'[q].pc # "counting" \/ req'[q].link # l
      BY <2>1, <2>2, <1>1, <1>12 DEF Read, Asked
    <3>2. Counting(l)' \subseteq Counting(l)
      BY <3>1 DEF Counting
    <3> QED BY <3>2, <2>1, <1>6
  <2>3. CASE req[r].link = l /\ ~Closed(l)
    <3>1. links[l].views < links[l].max
      <4>1. links[l].views \in Nat /\ links[l].max \in Nat /\ links[l].max # Unlimited
        BY <2>1, <1>2 DEF Rows
      <4> QED BY <4>1, <2>3 DEF Closed
    <3>2. shown[l] <= links[l].views + missed[l] /\ links[l].views \in Nat
      BY <2>1, <1>2 DEF ShownIsCounted, Rows
    <3> QED BY <3>1, <3>2, <2>1, <1>2, <1>3, <1>4
  <2> QED BY <2>2, <2>3, <1>12 DEF Read
<1>13. ASSUME NEW r \in Requests, Count(r)
       PROVE  shown'[l] + Cardinality(Counting(l)') <= links'[l].max + missed'[l] + N - 1
  <2> DEFINE k == req[r].link
  <2>1. k \in Links /\ req' = [req EXCEPT ![r] = Idle] /\ req[r].pc = "counting"
    BY <1>13 DEF Count, Known
  <2>2. Counting(l)' = Counting(l) \ {r}
    BY <2>1, <1>1 DEF Counting
  <2>3. /\ links' = Counted(k, links[k].views + 1) \/ links' = links
        /\ shown' = [shown EXCEPT ![k] = shown[k] + 1] \/ shown' = shown
        /\ missed' = [missed EXCEPT ![k] = missed[k] + 1] \/ missed' = missed
    BY <1>13 DEF Count
  <2>4. links[l].row = "there" /\ links[l].max = links'[l].max
    <3>1. links'[l] = links[l] \/ links'[l] = [links[l] EXCEPT !.views = links[k].views + 1]
      BY <2>1, <2>3, <1>1 DEF Counted
    <3> QED BY <3>1, <1>2 DEF Rows
  <2>5. CASE k # l
    <3>1. shown'[l] = shown[l] /\ missed'[l] = missed[l]
      BY <2>1, <2>3, <2>5, <1>1
    <3> QED BY <3>1, <2>2, <2>4, <1>5
  <2>6. CASE k = l
    <3>1. r \in Counting(l)
      BY <2>1, <2>6 DEF Counting
    <3>2. Cardinality(Counting(l)') = Cardinality(Counting(l)) - 1
      BY <3>1, <2>2, <1>3, FS_RemoveElement
    <3>3. \/ shown'[l] = shown[l] + 1 /\ missed'[l] = missed[l]
          \/ shown'[l] = shown[l] /\ missed'[l] = missed[l]
          \/ shown'[l] = shown[l] + 1 /\ missed'[l] = missed[l] + 1
      BY <2>6, <1>1, <1>13 DEF Count
    <3>4. shown[l] + Cardinality(Counting(l)) <= links[l].max + missed[l] + N - 1
      BY <2>4 DEF ViewsAreBounded, N
    <3> QED BY <3>2, <3>3, <3>4, <2>4, <1>2, <1>3, <1>4
  <2> QED BY <2>5, <2>6
<1>14. CASE Owner
  BY <1>5, <1>7, <1>8, <1>9, <1>10, <1>14 DEF Owner
<1>15. CASE Views
  <2>1. CASE \E r \in Requests : (\E k \in Links \cup {NoLink} : Arrive(r, k)) \/ (\E c \in Clients : PassLimiter(r, c))
    BY <2>1, <1>6, <1>11
  <2>2. CASE \E r \in Requests : Read(r) \/ Count(r)
    BY <2>2, <1>12, <1>13
  <2> QED BY <2>1, <2>2, <1>15 DEF Views
<1> QED BY <1>7, <1>14, <1>15 DEF Next

LEMMA ViewsInit ==
  ASSUME Init
  PROVE  ShownIsCounted /\ ViewsAreBounded
BY ShareLinksConstants DEF Init, NoRow, Idle, ShownIsCounted, ViewsAreBounded

\* For any limit and any number of requests, a link is shown at most as often as its
\* owner allows, but for the views that were under way together and the counts that
\* failed (share_links.go, GetShareLink).
THEOREM ViewsBounded == Spec => []ViewsAreBounded
<1>1. Init => (TypeOK /\ Known) /\ LateIsRefused /\ ShownIsCounted /\ ViewsAreBounded
  BY TypesInit, LateInit, ViewsInit
<1>2. (TypeOK /\ Known) /\ [Next]_vars => (TypeOK /\ Known)'
  BY TypesStep
<1>3. (TypeOK /\ Known) /\ LateIsRefused /\ [Next]_vars => LateIsRefused'
  BY LateStep
<1>4. (TypeOK /\ Known) /\ LateIsRefused /\ LateIsRefused' /\ ShownIsCounted /\ [Next]_vars
      => ShownIsCounted'
  BY ShownStep
<1>5. TypeOK /\ TypeOK' /\ Known /\ ShownIsCounted /\ ViewsAreBounded /\ [Next]_vars
      => ViewsAreBounded'
  BY BoundStep
<1> QED BY <1>1, <1>2, <1>3, <1>4, <1>5, PTL DEF Spec
=============================================================================
