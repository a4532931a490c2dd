------------------------------ MODULE Accounts ------------------------------
(***************************************************************************)
(* The accounts of the server (handlers auth.go, totp.go and admin.go on   *)
(* the tables users, invitations, email_verification_tokens and            *)
(* totp_recovery_tokens): who may register, log in and administer.         *)
(*                                                                         *)
(* A request of several statements is a record in req and runs them one at *)
(* a time, so requests interleave in between; each statement may fail and  *)
(* end its request.  A request of one statement is one action.             *)
(*                                                                         *)
(* An account is named by its email, which is unique.  A pair of tokens is *)
(* the account and the role signed into it: refreshing signs the same      *)
(* again (module TokenServer has the rotation).  Passwords and codes are   *)
(* right or the request changes nothing; tokens and links expire at any    *)
(* time.                                                                   *)
(***************************************************************************)
EXTENDS Naturals, FiniteSets

CONSTANTS
  Emails,
  Invites,     \* the rows the invitations table can ever have
  Slots,       \* requests in flight
  MaxCalls     \* bound on the requests ever sent

None == "none"
Nobody == "nobody"
Bootstrap == "bootstrap"

ASSUME AccountsConstants ==
  /\ Nobody \notin Emails
  /\ Invites \cap {None, Bootstrap} = {}
  /\ MaxCalls \in Nat

VARIABLES
  users,       \* the users table; via: what the registration was allowed by
  invites,     \* the invitations table
  tokens,      \* the accounts and roles signed into unexpired tokens
  pending,     \* the accounts with a 2fa_pending token
  links,       \* the accounts with a verification link
  recovery,    \* the accounts with a recovery link
  req,         \* the requests in flight
  calls,
  admins,      \* history: the accounts that have ever been administrators
  config       \* SMTP_HOST is set; ADMIN_EMAIL

vars == <<users, invites, tokens, pending, links, recovery, req, calls, admins, config>>

Roles == {"user", "admin"}
Absent == [status |-> "absent", role |-> "user", totp |-> FALSE, via |-> None]
Unused == [email |-> Nobody, state |-> "unused"]
Idle == [op |-> None, at |-> None, who |-> Nobody, inv |-> None, role |-> "user",
         armed |-> FALSE]

Exists(e) == users[e].status # "absent"

\* The server is new, or has its first account, to which nobody is signed in.
First == [status |-> "active", role |-> "admin", totp |-> FALSE, via |-> Bootstrap]

Init ==
  /\ config \in [mailer : BOOLEAN, admin : Emails \cup {None}]
  /\ \/ admins = {}
     \/ \E e \in Emails : config.admin \in {None, e} /\ admins = {e}
  /\ users = [e \in Emails |-> IF e \in admins THEN First ELSE Absent]
  /\ invites = [i \in Invites |-> Unused]
  /\ tokens = {} /\ pending = {} /\ links = {} /\ recovery = {}
  /\ req = [s \in Slots |-> Idle]
  /\ calls = 0

-----------------------------------------------------------------------------
\* A request reaches the server; where: its first statement.
Counted == calls < MaxCalls /\ calls' = calls + 1
Send(s, op, where, e, i, r) ==
  /\ Counted
  /\ req[s] = Idle
  /\ req' = [req EXCEPT ![s] = [op |-> op, at |-> where, who |-> e, inv |-> i, role |-> r,
                                armed |-> op = "login" /\ users[e].totp]]
  /\ UNCHANGED <<users, invites, tokens, pending, links, recovery, admins, config>>

At(s, where) == req[s].at = where
Goes(s, where) == req' = [req EXCEPT ![s].at = where]
Ends(s) == req' = [req EXCEPT ![s] = Idle]

\* Any statement may fail, or the server die: the request ends there, what it has
\* done remains.
Fail(s) ==
  /\ req[s] # Idle
  /\ Ends(s)
  /\ UNCHANGED <<users, invites, tokens, pending, links, recovery, calls, admins, config>>

-----------------------------------------------------------------------------
\* Register.
AskRegister(s, e, i) ==
  /\ i # None => invites[i].state # "unused"
  /\ Send(s, "register", "check", e, i, "user")

\* Mutants: an invitation is not tied to its address, ADMIN_EMAIL is not asked.
AcceptsAny(i, e) == invites[i].state = "open"

Accepts(i, e) == invites[i].state = "open" /\ invites[i].email = e

BootstrapsAny(e) == TRUE

Bootstraps(e) == config.admin \in {None, e}

\* getValidInvitation.  The error of the COUNT is dropped: failing, it counts 0.
CheckInvitation(s) ==
  /\ At(s, "check")
  /\ LET e == req[s].who  i == req[s].inv
     IN  IF i = None
           THEN \E none \in {TRUE, \A f \in Emails : ~Exists(f)} :
                  IF none /\ Bootstraps(e) THEN Goes(s, "insert") ELSE Ends(s)
           ELSE IF Accepts(i, e) THEN Goes(s, "insert") ELSE Ends(s)
  /\ UNCHANGED <<users, invites, tokens, pending, links, recovery, calls, admins, config>>

\* INSERT INTO users; the email is UNIQUE.
InsertUser(s) ==
  /\ At(s, "insert")
  /\ LET e == req[s].who
         first == req[s].inv = None
         role == IF first THEN "admin" ELSE "user"
     IN  IF Exists(e)
           THEN Ends(s) /\ UNCHANGED <<users, admins>>
           ELSE /\ users' = [users EXCEPT ![e] =
                     [status |-> IF config.mailer THEN "pending" ELSE "active",
                      role |-> role, totp |-> FALSE,
                      via |-> IF first THEN Bootstrap ELSE req[s].inv]]
                /\ admins' = IF first THEN admins \cup {e} ELSE admins
                /\ req' = [req EXCEPT ![s].at = "mark", ![s].role = role]
  /\ UNCHANGED <<invites, tokens, pending, links, recovery, calls, config>>

\* UPDATE invitations, whose error is dropped.
MarkAccepted(s) ==
  /\ At(s, "mark")
  /\ LET i == req[s].inv
     IN  \/ UNCHANGED invites
         \/ /\ i # None /\ invites[i].state = "open"
            /\ invites' = [invites EXCEPT ![i].state = "accepted"]
  /\ Goes(s, IF config.mailer THEN "link" ELSE "issue")
  /\ UNCHANGED <<users, tokens, pending, links, recovery, calls, admins, config>>

\* The verification token and its mail; a link that is not mailed is as good as none.
MailLink(s) ==
  /\ At(s, "link")
  /\ links' = links \cup {req[s].who}
  /\ Ends(s)
  /\ UNCHANGED <<users, invites, tokens, pending, recovery, calls, admins, config>>

-----------------------------------------------------------------------------
\* VerifyEmail: look up, activate, delete the token.
AskVerify(s, e) == Send(s, "verify", "lookup", e, None, "user")

LinkFound(e) == e \in links

LookUpLink(s) ==
  /\ At(s, "lookup")
  /\ IF LinkFound(req[s].who) THEN Goes(s, "activate") ELSE Ends(s)
  /\ UNCHANGED <<users, invites, tokens, pending, links, recovery, calls, admins, config>>

Activate(s) ==
  /\ At(s, "activate")
  /\ users' = [users EXCEPT ![req[s].who].status = "active"]
  /\ Goes(s, "unlink")
  /\ UNCHANGED <<invites, tokens, pending, links, recovery, calls, admins, config>>

Unlink(s) ==
  /\ At(s, "unlink")
  /\ links' = links \ {req[s].who}
  /\ Ends(s)
  /\ UNCHANGED <<users, invites, tokens, pending, recovery, calls, admins, config>>

-----------------------------------------------------------------------------
\* Login with the right password.
AskLogin(s, e) == Exists(e) /\ Send(s, "login", "select", e, None, "user")

\* Mutants: a pending account may log in, the second factor is not asked.
MayLogInUnverified(e) == users[e].status # "disabled"

MayLogIn(e) == users[e].status = "active"

NeedsNoCode(e) == FALSE

NeedsCode(e) == users[e].totp

SelectUser(s) ==
  /\ At(s, "select")
  /\ LET e == req[s].who
     IN  IF ~MayLogIn(e)
           THEN Ends(s) /\ UNCHANGED pending
         ELSE IF NeedsCode(e)
           THEN pending' = pending \cup {e} /\ Ends(s)
           ELSE Goes(s, "load") /\ UNCHANGED pending
  /\ UNCHANGED <<users, invites, tokens, links, recovery, calls, admins, config>>

\* VerifyTOTP with the right code.
AskCode(s, e) == e \in pending /\ Send(s, "code", "secret", e, None, "user")
CheckCode(s) ==
  /\ At(s, "secret")
  /\ IF users[req[s].who].totp THEN Goes(s, "load") ELSE Ends(s)
  /\ UNCHANGED <<users, invites, tokens, pending, links, recovery, calls, admins, config>>

\* respondWithSession: the role is read anew.
LoadUser(s) ==
  /\ At(s, "load")
  /\ req' = [req EXCEPT ![s].at = "issue", ![s].role = users[req[s].who].role]
  /\ UNCHANGED <<users, invites, tokens, pending, links, recovery, calls, admins, config>>

\* Refresh, once it has found the session: the role is the presented token's.
AskRefresh(s, e, r) ==
  <<e, r>> \in tokens /\ Send(s, "refresh", "issue", e, None, r)

\* issueTokens
IssueTokens(s) ==
  /\ At(s, "issue")
  /\ tokens' = tokens \cup {<<req[s].who, req[s].role>>}
  /\ Ends(s)
  /\ UNCHANGED <<users, invites, pending, links, recovery, calls, admins, config>>

-----------------------------------------------------------------------------
\* The second factor.
SignedIn(e) == \E r \in Roles : <<e, r>> \in tokens

\* ConfirmTOTP; SetupTOTP stores nothing.
ConfirmTOTP(e) ==
  /\ Counted
  /\ SignedIn(e)
  /\ users' = [users EXCEPT ![e].totp = TRUE]
  /\ UNCHANGED <<invites, tokens, pending, links, recovery, req, admins, config>>

\* The UPDATE of DisableTOTP and of ResetTOTP; x is what becomes of the request.  A
\* login of the account that is in flight no longer counts as begun under the factor.
TurnOff(s, x) ==
  LET e == req[s].who
      disarmed == [t \in Slots |->
                     [req[t] EXCEPT !.armed = IF req[t].who = e THEN FALSE ELSE @]]
  IN  /\ users' = [users EXCEPT ![e].totp = FALSE]
      /\ req' = [disarmed EXCEPT ![s] = x]

\* DisableTOTP with the right code or password
AskDisable(s, e) == SignedIn(e) /\ Send(s, "disable", "enabled", e, None, "user")
CheckEnabled(s) ==
  /\ At(s, "enabled")
  /\ IF users[req[s].who].totp THEN Goes(s, "off") ELSE Ends(s)
  /\ UNCHANGED <<users, invites, tokens, pending, links, recovery, calls, admins, config>>
DisableTOTP(s) ==
  /\ At(s, "off")
  /\ TurnOff(s, Idle)
  /\ UNCHANGED <<invites, tokens, pending, links, recovery, calls, admins, config>>

\* RequestTOTPRecovery; without a mailer the link reaches nobody.
AskRecovery(s, e) == e \in pending /\ Send(s, "recover", "record", e, None, "user")
RecordRecovery(s) ==
  /\ At(s, "record")
  /\ recovery' = IF config.mailer THEN recovery \cup {req[s].who} ELSE recovery
  /\ Ends(s)
  /\ UNCHANGED <<users, invites, tokens, pending, links, calls, admins, config>>

\* ResetTOTP: look up, turn off, delete the account's tokens.
AskReset(s, e) == Send(s, "reset", "reset", e, None, "user")
LookUpRecovery(s) ==
  /\ At(s, "reset")
  /\ IF req[s].who \in recovery THEN Goes(s, "clear") ELSE Ends(s)
  /\ UNCHANGED <<users, invites, tokens, pending, links, recovery, calls, admins, config>>
ResetTOTP(s) ==
  /\ At(s, "clear")
  /\ TurnOff(s, [req[s] EXCEPT !.at = "forget"])
  /\ UNCHANGED <<invites, tokens, pending, links, recovery, calls, admins, config>>
ForgetRecovery(s) ==
  /\ At(s, "forget")
  /\ recovery' = recovery \ {req[s].who}
  /\ Ends(s)
  /\ UNCHANGED <<users, invites, tokens, pending, links, calls, admins, config>>

-----------------------------------------------------------------------------
\* Administration, by whoever holds a token signed for an administrator.
IsAdmin(a) == <<a, "admin">> \in tokens

InviteUser(a, e, i) ==
  /\ Counted
  /\ IsAdmin(a)
  /\ invites[i].state = "unused"
  /\ invites' = [invites EXCEPT ![i] = [email |-> e, state |-> "open"]]
  /\ UNCHANGED <<users, tokens, pending, links, recovery, req, admins, config>>

DeleteInvitation(a, i) ==
  /\ Counted
  /\ IsAdmin(a)
  /\ invites[i].state \in {"open", "accepted"}
  /\ invites' = [invites EXCEPT ![i].state = "gone"]
  /\ UNCHANGED <<users, tokens, pending, links, recovery, req, admins, config>>

\* Mutant: an administrator may change the own account.
MayUpdateAny(a, e) == TRUE

MayUpdate(a, e) == a # e

\* None: the field is left out.
UpdateUser(a, e, status, role) ==
  /\ Counted
  /\ IsAdmin(a) /\ MayUpdate(a, e) /\ Exists(e)
  /\ users' = [users EXCEPT ![e].status = IF status = None THEN @ ELSE status,
                            ![e].role = IF role = None THEN @ ELSE role]
  /\ admins' = IF role = "admin" THEN admins \cup {e} ELSE admins
  /\ UNCHANGED <<invites, tokens, pending, links, recovery, req, config>>

\* Logout, and the expiry of tokens, links and invitations.
TokenEnds(t) ==
  /\ tokens' = tokens \ {t}
  /\ UNCHANGED <<users, invites, pending, links, recovery, req, calls, admins, config>>
Expires(e) ==
  /\ \/ pending' = pending \ {e} /\ UNCHANGED <<links, recovery>>
     \/ links' = links \ {e} /\ UNCHANGED <<pending, recovery>>
     \/ recovery' = recovery \ {e} /\ UNCHANGED <<pending, links>>
  /\ UNCHANGED <<users, invites, tokens, req, calls, admins, config>>
InvitationExpires(i) ==
  /\ invites[i].state = "open"
  /\ invites' = [invites EXCEPT ![i].state = "gone"]
  /\ UNCHANGED <<users, tokens, pending, links, recovery, req, calls, admins, config>>

-----------------------------------------------------------------------------
Ask(s) ==
  \E e \in Emails :
    \/ \E i \in Invites \cup {None} : AskRegister(s, e, i)
    \/ AskVerify(s, e) \/ AskLogin(s, e) \/ AskCode(s, e) \/ AskDisable(s, e)
    \/ AskRecovery(s, e) \/ AskReset(s, e)
    \/ \E r \in Roles : AskRefresh(s, e, r)

Statement(s) ==
  \/ CheckInvitation(s) \/ InsertUser(s) \/ MarkAccepted(s) \/ MailLink(s)
  \/ LookUpLink(s) \/ Activate(s) \/ Unlink(s)
  \/ SelectUser(s) \/ CheckCode(s) \/ LoadUser(s) \/ IssueTokens(s)
  \/ CheckEnabled(s) \/ DisableTOTP(s) \/ RecordRecovery(s)
  \/ LookUpRecovery(s) \/ ResetTOTP(s) \/ ForgetRecovery(s)

Administration ==
  \E a \in Emails :
    \/ \E e \in Emails, i \in Invites : InviteUser(a, e, i)
    \/ \E i \in Invites : DeleteInvitation(a, i)
    \/ \E e \in Emails, status \in {None, "active", "disabled"}, role \in Roles \cup {None} :
         UpdateUser(a, e, status, role)

Time ==
  \/ \E t \in tokens : TokenEnds(t)
  \/ \E e \in Emails : Expires(e)
  \/ \E i \in Invites : InvitationExpires(i)

Next ==
  \/ \E s \in Slots : Ask(s) \/ Statement(s) \/ Fail(s)
  \/ \E e \in Emails : ConfirmTOTP(e)
  \/ Administration \/ Time

Spec == Init /\ [][Next]_vars

-----------------------------------------------------------------------------
Places == {"check", "insert", "mark", "link", "lookup", "activate", "unlink", "select",
           "secret", "load", "issue", "enabled", "off", "record", "reset", "clear",
           "forget"}
Ops == {"register", "verify", "login", "code", "refresh", "disable", "recover", "reset"}

UserRows ==
  [status : {"absent", "pending", "active", "disabled"}, role : Roles, totp : BOOLEAN,
   via : Invites \cup {None, Bootstrap}]
InviteRows ==
  [email : Emails \cup {Nobody}, state : {"unused", "open", "accepted", "gone"}]
Requests ==
  [op : Ops \cup {None}, at : Places \cup {None}, who : Emails \cup {Nobody},
   inv : Invites \cup {None}, role : Roles, armed : BOOLEAN]

\* Every variable keeps its type; a row of users is complete or absent, and a request
\* in flight names an account.
TypeOK ==
  /\ users \in [Emails -> UserRows]
  /\ \A e \in Emails : Exists(e) <=> users[e].via # None
  /\ invites \in [Invites -> InviteRows]
  /\ tokens \subseteq Emails \X Roles
  /\ pending \subseteq Emails /\ links \subseteq Emails /\ recovery \subseteq Emails
  /\ req \in [Slots -> Requests]
  /\ \A s \in Slots : req[s].at # None => req[s].who \in Emails
  /\ calls \in 0 .. MaxCalls
  /\ admins \subseteq Emails
  /\ config \in [mailer : BOOLEAN, admin : Emails \cup {None}]

\* An invitation makes at most one account, although it is checked long before it is
\* marked, several registrations may have checked it, and the marking may fail
\* (auth.go, Register and getValidInvitation).
OneAccountPerInvitation ==
  \A e, f \in Emails :
    users[e].via = users[f].via /\ users[e].via \in Invites => e = f

\* With ADMIN_EMAIL set, first registrations that race, or a count of the users that
\* fails, make no second account without an invitation.
OneBootstrap ==
  config.admin # None =>
    \A e, f \in Emails : users[e].via = Bootstrap /\ users[f].via = Bootstrap => e = f

\* README: the server holds an account in pending state until its link is clicked.
\* Until then no request, of whatever kind and age, has brought it a token.
PendingHasNoTokens ==
  \A e \in Emails :
    users[e].status = "pending" => ~SignedIn(e) /\ e \notin pending

\* A login that began with the second factor on, and during which it stayed on, gets
\* no session without a code (Login, VerifyTOTP, DisableTOTP, ResetTOTP).
CodeIsAsked ==
  \A s \in Slots : req[s].op = "login" /\ req[s].armed => req[s].at = "select"

\* The only administrator there has ever been still is one and is not disabled: with
\* nobody else to do it, no token of any age lets the own account be changed.
SoleAdminStays ==
  \A a \in Emails :
    admins = {a} => users[a].role = "admin" /\ users[a].status \in {"pending", "active"}
=============================================================================
