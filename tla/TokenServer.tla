----------------------------- MODULE TokenServer -----------------------------
(***************************************************************************)
(* The refresh tokens of one account on the server: the sessions table and *)
(* the handlers Refresh and Logout.  A refresh is three statements (look   *)
(* up, insert the new session, retire the presented one); other requests   *)
(* run in between.  The clients are in the modules that extend this one.   *)
(*                                                                         *)
(* Time is a counter; 0 is before every time.  Grace, TTL and AccessTTL    *)
(* are refreshGracePeriod, refreshTokenTTL and accessTokenTTL in that unit.*)
(***************************************************************************)
EXTENDS Integers, FiniteSets

CONSTANTS
  Tokens,       \* the token pairs the server can ever issue
  Slots,        \* refresh requests in flight at a time
  Grace, TTL, AccessTTL,
  MaxTime       \* bound on the clock

None == "none"

ASSUME ServerConstants ==
  /\ None \notin Tokens
  /\ Grace \in Nat /\ TTL \in Nat /\ AccessTTL \in Nat /\ MaxTime \in Nat \ {0}
  /\ Grace <= TTL

VARIABLES
  now,
  signed,     \* when the token pair was signed (0: never)
  expires,    \* sessions.expires_at (0: no row)
  retired,    \* when the refresh token was first retired (0: never)
  revoked,    \* the tokens a logout has named
  srv,        \* the refreshes in flight
  failed      \* a statement has failed

serverVars == <<now, signed, expires, retired, revoked, srv, failed>>

Free == [pc |-> "free", token |-> None, fresh |-> None]

ServerInit ==
  /\ now = 1
  /\ signed = [t \in Tokens |-> 0]
  /\ expires = [t \in Tokens |-> 0]
  /\ retired = [t \in Tokens |-> 0]
  /\ revoked = {}
  /\ srv = [s \in Slots |-> Free]
  /\ failed = FALSE

\* SELECT EXISTS of Refresh.
Live(t) == expires[t] > now

\* The signature and expiry of a refresh token, checked before the row.
Genuine(t) == signed[t] > 0 /\ now < signed[t] + TTL

\* JWTAuth: the access token of a pair.
AccessValid(t) == t \in Tokens /\ signed[t] > 0 /\ now < signed[t] + AccessTTL

Least(a, b) == IF a <= b THEN a ELSE b

\* Mutant: the grace period starts anew with every use.
RetireAtAgain(t) == now + Grace

\* Mutant: the presented token is deleted at once, as a single-use token.
RetireAtOnce(t) == 0

RetireAt(t) == Least(expires[t], now + Grace)

-----------------------------------------------------------------------------
\* A refresh request reaches the server.
Receive(s, t) ==
  /\ srv[s] = Free
  /\ srv' = [srv EXCEPT ![s] = [pc |-> "lookup", token |-> t, fresh |-> None]]

\* sessions.expires_at of a new session: the expiry signed into its refresh token.
RowUntil == now + TTL

\* issueTokens: every pair is a new one (jti), and its row is inserted.
Issue(t) ==
  /\ signed[t] = 0
  /\ signed' = [signed EXCEPT ![t] = now]
  /\ expires' = [expires EXCEPT ![t] = RowUntil]

\* Refresh, the checks.
Lookup(s) ==
  /\ srv[s].pc = "lookup"
  /\ srv' = [srv EXCEPT ![s].pc = IF Genuine(srv[s].token) /\ Live(srv[s].token)
                                    THEN "issue" ELSE "rejected"]
  /\ UNCHANGED <<now, signed, expires, retired, revoked, failed>>

\* Refresh, issueTokens.
IssueFresh(s) ==
  /\ srv[s].pc = "issue"
  /\ \E t \in Tokens :
       /\ Issue(t)
       /\ srv' = [srv EXCEPT ![s].pc = "retire", ![s].fresh = t]
  /\ UNCHANGED <<now, retired, revoked, failed>>

\* Refresh, the UPDATE of the presented token; no row if a logout was faster.
Retire(s) ==
  /\ srv[s].pc = "retire"
  /\ LET t == srv[s].token
     IN  IF expires[t] > 0
           THEN /\ expires' = [expires EXCEPT ![t] = RetireAt(t)]
                /\ retired' = [retired EXCEPT ![t] = IF @ = 0 THEN now ELSE @]
           ELSE UNCHANGED <<expires, retired>>
  /\ srv' = [srv EXCEPT ![s].pc = "ok"]
  /\ UNCHANGED <<now, signed, revoked, failed>>

\* A statement of Refresh fails: before the new session it is a 500; after it the
\* failure is only logged, and the presented token keeps its row as it was.  One
\* statement fails in a behaviour.
Fail(s) ==
  /\ ~failed
  /\ srv[s].pc \in {"lookup", "issue", "retire"}
  /\ srv' = [srv EXCEPT ![s].pc = IF srv[s].pc = "retire" THEN "ok" ELSE "error"]
  /\ failed' = TRUE
  /\ UNCHANGED <<now, signed, expires, retired, revoked>>

Answered(s) == srv[s].pc \in {"ok", "rejected", "error"}

\* Logout, the DELETE.
DeleteSession(t) ==
  /\ expires' = [expires EXCEPT ![t] = 0]
  /\ revoked' = revoked \cup {t}

\* Time passes.
Advance ==
  /\ now < MaxTime
  /\ now' = now + 1
  /\ UNCHANGED <<signed, expires, retired, revoked, srv, failed>>

ServerStep(s) == Lookup(s) \/ IssueFresh(s) \/ Retire(s)

-----------------------------------------------------------------------------
ServerTypeOK ==
  /\ now \in 1 .. MaxTime
  /\ signed \in [Tokens -> 0 .. MaxTime]
  /\ expires \in [Tokens -> 0 .. MaxTime + TTL]
  /\ retired \in [Tokens -> 0 .. MaxTime]
  /\ revoked \in SUBSET Tokens
  /\ failed \in BOOLEAN
  /\ srv \in [Slots -> [pc : {"lookup", "issue", "retire", "ok", "rejected", "error"},
                        token : Tokens, fresh : Tokens \cup {None}]
                       \cup {Free}]

\* A rotated refresh token dies when its grace period ends: no later use, by
\* however many racing clients, gives it more time.
RetiredForGood ==
  \A t \in Tokens : retired[t] > 0 => expires[t] <= retired[t] + Grace

\* Until then it is accepted, so that a client racing on it or retrying after a lost
\* answer is not logged out; only a logout or the token's own expiry ends it.
GraceHolds ==
  \A t \in Tokens \ revoked :
    Genuine(t) /\ (retired[t] = 0 \/ now < retired[t] + Grace) => Live(t)
=============================================================================
