------------------------------ MODULE ShareLinks ------------------------------
(***************************************************************************)
(* Public share links: their owner creates, revokes and removes links to   *)
(* an entry; anyone with a link asks for it, behind the rate limiter that  *)
(* it shares with the codes of the second factor.  A view is a SELECT that *)
(* checks and, after the password, an UPDATE that counts, in two           *)
(* statements; requests of any clients overlap, statements fail, clients   *)
(* hang up and the server restarts.                                        *)
(***************************************************************************)
EXTENDS RateLimiter, FiniteSets

CONSTANTS
  Requests,     \* requests that can be under way at once
  Links,
  Limits,       \* the max_views clients ask for, or Unlimited
  Validities,   \* the validities clients ask for
  Secrets,      \* whether they set a password
  MaxFaults     \* bound on failing statements, hung up clients and restarts

Unlimited == -1
NoLink == "no link"
Never == MaxTime + 1

ASSUME ShareLinksConstants ==
  /\ IsFiniteSet(Requests) /\ Requests # {} /\ NoLink \notin Links
  /\ Limits \subseteq Nat \cup {Unlimited} /\ Validities \subseteq Nat /\ Secrets \subseteq BOOLEAN
  /\ MaxFaults \in Nat

VARIABLES
  links,      \* share_links, by token
  entry,      \* the row the links point to is there
  creating,   \* a creation is past its check of the owner
  req,        \* the requests for links and for codes
  shown,      \* answers with the payload, by link
  missed,     \* those whose count failed
  faults

shares == <<links, entry, creating, req, shown, missed, faults>>
vars == <<now, limiter, shares>>

NoRow == [row |-> "none", max |-> Unlimited, views |-> 0, expires |-> Never,
          revoked |-> FALSE, secret |-> FALSE]
Idle == [pc |-> "idle", link |-> NoLink, t |-> 0, late |-> FALSE]

Init ==
  /\ LimiterInit
  /\ links = [l \in Links |-> NoRow] /\ entry = TRUE /\ creating = FALSE
  /\ req = [r \in Requests |-> Idle]
  /\ shown = [l \in Links |-> 0] /\ missed = [l \in Links |-> 0] /\ faults = 0

Fault == faults < MaxFaults /\ faults' = faults + 1

\* Nobody waits longer than MaxStall for the limiter's lock.
Tick ==
  /\ now < MaxTime
  /\ \A r \in Requests : req[r].pc = "waiting" => now < req[r].t + MaxStall
  /\ now' = now + 1
  /\ UNCHANGED <<limiter, shares>>

-----------------------------------------------------------------------------
(* The owner                                                                *)

\* createShareLink, the check of the owner.
CheckOwner ==
  /\ ~creating /\ entry
  /\ creating' = TRUE
  /\ UNCHANGED <<now, limiter, links, entry, req, shown, missed, faults>>

Row(max, validity, secret) ==
  [row |-> "there", max |-> max, views |-> 0, revoked |-> FALSE, secret |-> secret,
   expires |-> IF validity = 0 THEN Never ELSE now + validity]

\* Mutant: an entry has one link, which is made anew.
InsertRefreshes ==
  /\ creating /\ creating' = FALSE
  /\ \/ entry /\ \E l \in Links, max \in Limits, d \in Validities, secret \in Secrets :
                   /\ \A k \in Links : links[k].row = "there" => k = l
                   /\ links' = [links EXCEPT ![l] = Row(max, d, secret)]
     \/ ~entry /\ UNCHANGED links
  /\ UNCHANGED <<now, limiter, entry, req, shown, missed, faults>>

\* createShareLink, the INSERT of a row with a new token, refused when the entry is gone.
Insert ==
  /\ creating /\ creating' = FALSE
  /\ \/ entry /\ \E l \in Links, max \in Limits, d \in Validities, secret \in Secrets :
                   /\ links[l].row = "none"
                   /\ links' = [links EXCEPT ![l] = Row(max, d, secret)]
     \/ ~entry /\ UNCHANGED links
  /\ UNCHANGED <<now, limiter, entry, req, shown, missed, faults>>

RevokeShareLink(l) ==
  /\ links[l].row = "there"
  /\ links' = [links EXCEPT ![l].revoked = TRUE]
  /\ UNCHANGED <<now, limiter, entry, creating, req, shown, missed, faults>>

DeleteShareLink(l) ==
  /\ links[l].row = "there"
  /\ links' = [links EXCEPT ![l].row = "gone"]
  /\ UNCHANGED <<now, limiter, entry, creating, req, shown, missed, faults>>

\* The entry is removed for good, and with it the rows that refer to it.
DeleteEntry ==
  /\ entry /\ entry' = FALSE
  /\ links' = [l \in Links |-> IF links[l].row = "there" THEN [links[l] EXCEPT !.row = "gone"]
                                                         ELSE links[l]]
  /\ UNCHANGED <<now, limiter, creating, req, shown, missed, faults>>

-----------------------------------------------------------------------------
(* The requests                                                             *)

\* Mutant: a link that has been seen often enough opens once more.
ClosedTooLate(l) ==
  \/ links[l].row # "there"
  \/ links[l].revoked
  \/ now > links[l].expires
  \/ links[l].max # Unlimited /\ links[l].views > links[l].max

\* The refusals of GetShareLink: not found, revoked, expired, seen often enough.
Closed(l) ==
  \/ links[l].row # "there"
  \/ links[l].revoked
  \/ now > links[l].expires
  \/ links[l].max # Unlimited /\ links[l].views >= links[l].max

\* PerIPRateLimiter: the clock is read before the lock is taken.  Tokens are random: a
\* request has one that was given out.
Arrive(r, l) ==
  /\ req[r].pc = "idle"
  /\ l # NoLink => links[l].row # "none"
  /\ req' = [req EXCEPT ![r] = [pc |-> "waiting", link |-> l, t |-> now,
                                late |-> l # NoLink /\ Closed(l)]]
  /\ UNCHANGED <<now, limiter, links, entry, creating, shown, missed, faults>>

\* The limiter decides; the handlers of codes are in Accounts.
PassLimiter(r, c) ==
  /\ req[r].pc = "waiting"
  /\ \E passes \in BOOLEAN :
       /\ Admit(c, req[r].t, passes)
       /\ req' = [req EXCEPT ![r] = IF passes /\ req[r].link # NoLink
                                      THEN [req[r] EXCEPT !.pc = "reading", !.t = 0] ELSE Idle]
  /\ UNCHANGED <<now, links, entry, creating, shown, missed, faults>>

\* GetShareLink up to the count: the SELECT, the checks and the password, which may be
\* missing or wrong.
Read(r) ==
  /\ req[r].pc = "reading"
  /\ LET l == req[r].link
     IN  \/ ~Closed(l) /\ req' = [req EXCEPT ![r].pc = "counting"]
         \/ /\ Closed(l) \/ links[l].secret
            /\ req' = [req EXCEPT ![r] = Idle]
  /\ UNCHANGED <<now, limiter, links, entry, creating, shown, missed, faults>>

\* The row is gone when its link was removed in the meantime.
Counted(l, views) == IF links[l].row = "there" THEN [links EXCEPT ![l].views = views] ELSE links

\* GetShareLink, the UPDATE, whose failure is ignored, and the answer, which may not
\* arrive.
Count(r) ==
  /\ req[r].pc = "counting"
  /\ LET l == req[r].link
     IN  \/ /\ links' = Counted(l, links[l].views + 1)
            /\ shown' = [shown EXCEPT ![l] = @ + 1]
            /\ UNCHANGED <<missed, faults>>
         \/ /\ links' = Counted(l, links[l].views + 1)
            /\ Fault /\ UNCHANGED <<shown, missed>>
         \/ /\ shown' = [shown EXCEPT ![l] = @ + 1]
            /\ missed' = [missed EXCEPT ![l] = @ + 1]
            /\ Fault /\ UNCHANGED links
  /\ req' = [req EXCEPT ![r] = Idle]
  /\ UNCHANGED <<now, limiter, entry, creating>>

\* The server stops, and comes back with an empty limiter.
Restart ==
  /\ Fault
  /\ LimiterRestart
  /\ req' = [r \in Requests |-> Idle] /\ creating' = FALSE
  /\ UNCHANGED <<now, links, entry, shown, missed>>

-----------------------------------------------------------------------------
Owner ==
  \/ CheckOwner \/ Insert \/ DeleteEntry
  \/ \E l \in Links : RevokeShareLink(l) \/ DeleteShareLink(l)

Views ==
  \E r \in Requests :
    \/ \E l \in Links \cup {NoLink} : Arrive(r, l)
    \/ \E c \in Clients : PassLimiter(r, c)
    \/ Read(r) \/ Count(r)

Next == Owner \/ Views \/ Tick \/ Restart

Spec == Init /\ [][Next]_vars

-----------------------------------------------------------------------------
(* Properties                                                               *)

Rows ==
  [row : {"none", "there", "gone"}, max : Limits \cup {Unlimited}, views : Nat,
   expires : Nat, revoked : BOOLEAN, secret : BOOLEAN]

TypeOK ==
  /\ now \in 0 .. MaxTime /\ lastSweep \in Nat /\ boots \in Nat
  /\ DOMAIN buckets \subseteq Clients
  /\ buckets \in [DOMAIN buckets -> [tokens : 0 .. Burst, last : Nat, seen : Nat]]
  /\ links \in [Links -> Rows]
  /\ entry \in BOOLEAN /\ creating \in BOOLEAN /\ faults \in 0 .. MaxFaults
  /\ req \in [Requests -> [pc : {"idle", "waiting", "reading", "counting"},
                           link : Links \cup {NoLink}, t : Nat, late : BOOLEAN]]
  /\ shown \in [Links -> Nat] /\ missed \in [Links -> Nat]

\* The limiter's map, with its sweeps, buckets brought up to date late and clocks read
\* before the lock, grants what buckets that are never forgotten would: a sweep gives no
\* client a token it has not earned (ratelimit.go, PerIPRateLimiter).
Buckets == INSTANCE TokenBuckets WITH level <- [c \in Clients |-> Level(c)]
LimiterForgetsNothing == Buckets!Spec

Counting(l) == {r \in Requests : req[r].pc = "counting" /\ req[r].link = l}

\* A link is shown at most as often as its owner allows, but for the views that were
\* under way together and those whose count failed (share_links.go, GetShareLink).
ViewsAreBounded ==
  \A l \in Links :
    links[l].row = "there" /\ links[l].max # Unlimited =>
      shown[l] + Cardinality(Counting(l)) <= links[l].max + missed[l] + Cardinality(Requests) - 1

\* Who asks after a link was revoked, removed with its entry or on its own, has expired
\* or is used up gets nothing, whatever links are made later (share_links.go,
\* createShareLink).
ClosedStaysClosed ==
  \A r \in Requests : req[r].pc = "counting" => ~req[r].late
=============================================================================
