--------------------------- MODULE Accounts_proofs ---------------------------
(***************************************************************************)
(* Theorems about Accounts, for every number of accounts, invitations and  *)
(* requests in flight.                                                     *)
(***************************************************************************)
EXTENDS Accounts, TLAPS

\* What makes them inductive.
Started(s) == req[s].at \notin {None, "check", "insert", "lookup", "reset"}

\* Tokens, links and the requests past their checks are of existing accounts.
Known ==
  /\ \A e \in Emails : SignedIn(e) \/ e \in pending \cup links \cup recovery => Exists(e)
  /\ \A s \in Slots : Started(s) => Exists(req[s].who)

\* Each account, and each registration about to make one, has the invitation of its
\* own address, or may bootstrap.
Entitled(e, i) ==
  IF i = None THEN Bootstraps(e) ELSE invites[i].state # "unused" /\ invites[i].email = e
Allowed ==
  /\ \A e \in Emails :
       /\ users[e].via = Bootstrap => Entitled(e, None)
       /\ users[e].via \in Invites => Entitled(e, users[e].via)
  /\ \A s \in Slots : req[s].at = "insert" => Entitled(req[s].who, req[s].inv)

\* Nothing that leads to a token is under way for a pending account.
Quiet ==
  /\ \A e \in Emails :
       users[e].status = "pending" => config.mailer /\ ~SignedIn(e) /\ e \notin pending
  /\ \A s \in Slots :
       req[s].at \in {"secret", "load", "issue"} => users[req[s].who].status # "pending"

\* A login begun under the second factor finds it on.
Armed ==
  \A s \in Slots :
    req[s].armed => req[s].at = "select" /\ users[req[s].who].totp

\* Whoever claims to be an administrator has been one.
Earned ==
  /\ \A e \in Emails :
       IsAdmin(e) \/ (Exists(e) /\ users[e].role = "admin") => e \in admins
  /\ \A s \in Slots : req[s].role = "admin" => req[s].who \in admins

\* The inductive invariant.
Sound == Known /\ Allowed /\ Quiet /\ Armed /\ Earned /\ SoleAdminStays

-----------------------------------------------------------------------------
(* Requests.                                                               *)

LEMMA SlotType ==
  ASSUME TypeOK, NEW s \in Slots, NEW x \in Requests, x.at # None => x.who \in Emails
  PROVE  /\ [req EXCEPT ![s] = x] \in [Slots -> Requests]
         /\ \A t \in Slots : [req EXCEPT ![s] = x][t].at # None
                              => [req EXCEPT ![s] = x][t].who \in Emails
  BY DEF TypeOK

LEMMA IdleType == Idle \in Requests /\ Idle.at = None /\ Idle.role = "user" /\ ~Idle.armed
  BY DEF Idle, Requests, Roles

LEMMA EndsType ==
  ASSUME TypeOK, NEW s \in Slots, Ends(s)
  PROVE  req' \in [Slots -> Requests] /\ \A t \in Slots : req'[t].at # None => req'[t].who \in Emails
  BY IdleType, SlotType DEF Ends

LEMMA GoesType ==
  ASSUME TypeOK, NEW s \in Slots, req[s].at # None, NEW w \in Places, Goes(s, w)
  PROVE  req' \in [Slots -> Requests] /\ \A t \in Slots : req'[t].at # None => req'[t].who \in Emails
<1>1. [req[s] EXCEPT !.at = w] \in Requests /\ [req[s] EXCEPT !.at = w].who \in Emails
  BY DEF TypeOK, Requests
<1> QED
  BY <1>1, SlotType DEF Goes, TypeOK

LEMMA AtType ==
  ASSUME TypeOK, NEW s \in Slots, NEW w \in Places, At(s, w)
  PROVE  /\ req[s].at # None /\ req[s].who \in Emails /\ req[s] \in Requests
         /\ req[s].inv \in Invites \cup {None} /\ req[s].role \in Roles
  BY DEF TypeOK, At, Places, None, Requests

LEMMA SendType ==
  ASSUME TypeOK, NEW s \in Slots, NEW op \in Ops, NEW w \in Places, NEW e \in Emails,
         NEW i \in Invites \cup {None}, NEW r \in Roles, Send(s, op, w, e, i, r)
  PROVE  TypeOK'
<1>1. PICK x \in Requests : x.who = e /\ req' = [req EXCEPT ![s] = x]
  <2> DEFINE x == [op |-> op, at |-> w, who |-> e, inv |-> i, role |-> r,
                   armed |-> op = "login" /\ users[e].totp]
  <2>1. x \in Requests /\ x.who = e
    BY DEF Requests
  <2> QED
    BY <2>1 DEF Send
<1>2. calls' \in 0 .. MaxCalls
  BY AccountsConstants DEF AccountsConstants, Send, Counted, TypeOK
<1> QED
  BY <1>1, <1>2, SlotType DEF Send, TypeOK, Exists

LEMMA RowType ==
  ASSUME TypeOK, NEW e \in Emails, NEW u \in UserRows,
         u.status # "absent", u.via # None, users' = [users EXCEPT ![e] = u]
  PROVE  /\ users' \in [Emails -> UserRows]
         /\ \A f \in Emails : users'[f].status # "absent" <=> users'[f].via # None
  BY DEF TypeOK, Exists

LEMMA FactorType ==
  ASSUME TypeOK, NEW e \in Emails, Exists(e), NEW b \in BOOLEAN,
         users' = [users EXCEPT ![e].totp = b]
  PROVE  /\ users' \in [Emails -> UserRows]
         /\ \A f \in Emails : users'[f].status # "absent" <=> users'[f].via # None
<1>1. users[e] \in UserRows /\ users[e].status # "absent" /\ users[e].via # None
  BY DEF TypeOK, Exists
<1>2. PICK u \in UserRows : u = [users[e] EXCEPT !.totp = b]
  BY <1>1 DEF UserRows
<1>3. u.status # "absent" /\ u.via # None
  BY <1>1, <1>2 DEF UserRows
<1>4. users' = [users EXCEPT ![e] = u]
  BY <1>2 DEF TypeOK
<1> QED
  BY <1>3, <1>4, RowType

LEMMA CallsType ==
  ASSUME TypeOK, Counted
  PROVE  calls' \in 0 .. MaxCalls
  BY AccountsConstants DEF AccountsConstants, Counted, TypeOK

LEMMA AskType ==
  ASSUME TypeOK, NEW s \in Slots, Ask(s)
  PROVE  TypeOK'
<1>1. PICK e \in Emails :
        \/ \E i \in Invites \cup {None} : AskRegister(s, e, i)
        \/ AskVerify(s, e) \/ AskLogin(s, e) \/ AskCode(s, e) \/ AskDisable(s, e)
        \/ AskRecovery(s, e) \/ AskReset(s, e)
        \/ \E r \in Roles : AskRefresh(s, e, r)
  BY DEF Ask
<1>2. PICK op \in Ops, w \in Places, i \in Invites \cup {None}, r \in Roles : Send(s, op, w, e, i, r)
  BY <1>1 DEF AskRegister, AskVerify, AskLogin, AskCode, AskDisable, AskRecovery, AskReset,
              AskRefresh, Ops, Places, Roles
<1> QED
  BY <1>2, SendType

\* The statements that change nothing but their request.
LEMMA CheckType ==
  ASSUME TypeOK, NEW s \in Slots,
         \/ CheckInvitation(s) \/ LookUpLink(s) \/ CheckCode(s) \/ LoadUser(s)
         \/ CheckEnabled(s) \/ LookUpRecovery(s)
  PROVE  TypeOK'
<1>1. UNCHANGED <<users, invites, tokens, pending, links, recovery, calls, admins, config>>
  BY DEF CheckInvitation, LookUpLink, CheckCode, LoadUser, CheckEnabled, LookUpRecovery
<1>2. \/ Ends(s)
      \/ \E w \in Places : req[s].at # None /\ Goes(s, w)
      \/ LoadUser(s)
  BY DEF CheckInvitation, LookUpLink, CheckCode, CheckEnabled, LookUpRecovery, At, Places, None
<1>3. req' \in [Slots -> Requests] /\ \A t \in Slots : req'[t].at # None => req'[t].who \in Emails
  <2>1. CASE LoadUser(s)
    <3>1. req[s] \in Requests /\ req[s].who \in Emails
      BY <2>1, AtType DEF LoadUser, Places
    <3>2. users[req[s].who].role \in Roles
      BY <3>1 DEF TypeOK, UserRows
    <3> DEFINE x == [req[s] EXCEPT !.at = "issue", !.role = users[req[s].who].role]
    <3>3. x \in Requests /\ x.who \in Emails
      BY <3>1, <3>2 DEF Requests, Places
    <3>4. req' = [req EXCEPT ![s] = x]
      BY <2>1 DEF LoadUser, TypeOK
    <3> HIDE DEF x
    <3> QED
      BY <3>3, <3>4, SlotType
  <2> QED
    BY <1>2, <2>1, EndsType, GoesType
<1> QED
  BY <1>1, <1>3 DEF TypeOK, Exists

LEMMA StatementType ==
  ASSUME TypeOK, Known, NEW s \in Slots, Statement(s)
  PROVE  TypeOK'
<1>1. ASSUME InsertUser(s) PROVE TypeOK'
  <2>1. req[s].who \in Emails /\ req[s] \in Requests
    BY <1>1, AtType DEF InsertUser, Places
  <2>2. CASE Exists(req[s].who)
    BY <1>1, <2>2, EndsType DEF InsertUser, TypeOK, Exists
  <2>3. CASE ~Exists(req[s].who)
    <3>1. PICK u \in UserRows, r \in Roles :
            /\ u.status # "absent" /\ u.via # None
            /\ users' = [users EXCEPT ![req[s].who] = u]
            /\ req' = [req EXCEPT ![s].at = "mark", ![s].role = r]
      <4> DEFINE r == IF req[s].inv = None THEN "admin" ELSE "user"
                 u == [status |-> IF config.mailer THEN "pending" ELSE "active",
                       role |-> r, totp |-> FALSE,
                       via |-> IF req[s].inv = None THEN Bootstrap ELSE req[s].inv]
      <4>1. u \in UserRows /\ u.status # "absent" /\ u.via # None /\ r \in Roles
        BY <2>1 DEF UserRows, Roles, Requests, Bootstrap, None
      <4> QED
        BY <1>1, <2>3, <4>1 DEF InsertUser
    <3>2. [req[s] EXCEPT !.at = "mark", !.role = r] \in Requests
          /\ [req[s] EXCEPT !.at = "mark", !.role = r].who \in Emails
      BY <2>1 DEF Requests, Places
    <3>3. req' = [req EXCEPT ![s] = [req[s] EXCEPT !.at = "mark", !.role = r]]
      BY <3>1 DEF TypeOK
    <3>4. admins' \subseteq Emails
      BY <1>1, <2>1 DEF InsertUser, TypeOK
    <3>5. users' \in [Emails -> UserRows] /\ \A e \in Emails : users'[e].status # "absent" <=> users'[e].via # None
      BY <3>1 DEF TypeOK, Exists
    <3> QED
      BY <1>1, <3>2, <3>3, <3>4, <3>5, SlotType DEF InsertUser, TypeOK, Exists
  <2> QED
    BY <2>2, <2>3
<1>2. ASSUME MarkAccepted(s) PROVE TypeOK'
  <2>1. invites' \in [Invites -> InviteRows]
    BY <1>2, AtType DEF MarkAccepted, TypeOK, InviteRows, Places
  <2>2. PICK w \in Places : req[s].at # None /\ Goes(s, w)
    BY <1>2 DEF MarkAccepted, At, Places, None
  <2> QED
    BY <1>2, <2>1, <2>2, GoesType DEF MarkAccepted, TypeOK, Exists
<1>3. ASSUME MailLink(s) \/ Unlink(s) \/ RecordRecovery(s) \/ ForgetRecovery(s) PROVE TypeOK'
  <2>1. req[s].who \in Emails /\ Ends(s)
    BY <1>3, AtType DEF MailLink, Unlink, RecordRecovery, ForgetRecovery, Places
  <2> QED
    BY <1>3, <2>1, EndsType DEF MailLink, Unlink, RecordRecovery, ForgetRecovery, TypeOK, Exists
<1>4. ASSUME SelectUser(s) PROVE TypeOK'
  <2>1. req[s].who \in Emails
    BY <1>4, AtType DEF SelectUser, Places
  <2>2. Ends(s) \/ (req[s].at # None /\ Goes(s, "load"))
    BY <1>4 DEF SelectUser, At, None
  <2>3. pending' \subseteq Emails
    BY <1>4, <2>1 DEF SelectUser, TypeOK
  <2> QED
    BY <1>4, <2>2, <2>3, EndsType, GoesType DEF SelectUser, TypeOK, Exists, Places
<1>5. ASSUME IssueTokens(s) PROVE TypeOK'
  <2>1. tokens' \subseteq Emails \X Roles
    BY <1>5, AtType DEF IssueTokens, Places, TypeOK
  <2> QED
    BY <1>5, <2>1, EndsType DEF IssueTokens, TypeOK, Exists
<1>6. ASSUME Activate(s) PROVE TypeOK'
  <2>1. req[s].who \in Emails /\ Exists(req[s].who) /\ req[s].at # None
    BY <1>6, AtType DEF Activate, Places, At, Known, Started
  <2>2. users' \in [Emails -> UserRows] /\ \A e \in Emails : users'[e].status # "absent" <=> users'[e].via # None
    BY <1>6, <2>1 DEF Activate, TypeOK, Exists, UserRows
  <2> QED
    BY <1>6, <2>1, <2>2, GoesType DEF Activate, TypeOK, Exists, Places
<1>7. ASSUME DisableTOTP(s) \/ ResetTOTP(s) PROVE TypeOK'
  <2>1. req[s].who \in Emails /\ req[s] \in Requests
    BY <1>7, AtType DEF DisableTOTP, ResetTOTP, Places
  <2>2. PICK x \in Requests : (x.at # None => x.who \in Emails) /\ TurnOff(s, x)
    BY <1>7, <2>1, IdleType DEF DisableTOTP, ResetTOTP, Requests, Places
  <2>3. users' \in [Emails -> UserRows] /\ \A e \in Emails : users'[e].status # "absent" <=> users'[e].via # None
    <3>1. Exists(req[s].who)
      BY <1>7 DEF DisableTOTP, ResetTOTP, At, Known, Started, None
    <3>2. users' = [users EXCEPT ![req[s].who].totp = FALSE]
      BY <2>2 DEF TurnOff
    <3> QED
      BY <2>1, <3>1, <3>2, FactorType
  <2>4. req' \in [Slots -> Requests] /\ \A t \in Slots : req'[t].at # None => req'[t].who \in Emails
    BY <2>1, <2>2 DEF TurnOff, TypeOK, Requests
  <2> QED
    BY <1>7, <2>3, <2>4 DEF DisableTOTP, ResetTOTP, TypeOK, Exists
<1> QED
  BY <1>1, <1>2, <1>3, <1>4, <1>5, <1>6, <1>7, CheckType DEF Statement

LEMMA StepType == TypeOK /\ Known /\ [Next]_vars => TypeOK'
<1> SUFFICES ASSUME TypeOK, Known, [Next]_vars PROVE TypeOK'
  OBVIOUS
<1>1. ASSUME NEW s \in Slots, Fail(s) PROVE TypeOK'
  BY <1>1, EndsType DEF Fail, TypeOK, Exists
<1>2. ASSUME NEW e \in Emails, ConfirmTOTP(e) PROVE TypeOK'
  <2>1. users' \in [Emails -> UserRows] /\ \A f \in Emails : users'[f].status # "absent" <=> users'[f].via # None
    BY <1>2, FactorType DEF ConfirmTOTP, Known
  <2>2. calls' \in 0 .. MaxCalls
    BY <1>2, CallsType DEF ConfirmTOTP
  <2> QED
    BY <1>2, <2>1, <2>2 DEF ConfirmTOTP, TypeOK, Exists
<1>3. ASSUME Administration PROVE TypeOK'
  <2>1. calls' \in 0 .. MaxCalls
    <3>1. Counted
      BY <1>3, Zenon DEF Administration, InviteUser, DeleteInvitation, UpdateUser
    <3> QED
      BY <3>1, CallsType
  <2>2. ASSUME NEW a \in Emails, NEW e \in Emails, NEW i \in Invites, InviteUser(a, e, i)
        PROVE  TypeOK'
    BY <2>1, <2>2 DEF InviteUser, TypeOK, InviteRows, Exists
  <2>3. ASSUME NEW a \in Emails, NEW i \in Invites, DeleteInvitation(a, i) PROVE TypeOK'
    BY <2>1, <2>3 DEF DeleteInvitation, TypeOK, InviteRows, Exists
  <2>4. ASSUME NEW a \in Emails, NEW e \in Emails, NEW st \in {None, "active", "disabled"},
               NEW r \in Roles \cup {None}, UpdateUser(a, e, st, r)
        PROVE  TypeOK'
    <3>1. PICK u \in UserRows : /\ u.status # "absent" /\ u.via # None
                               /\ users' = [users EXCEPT ![e] = u]
      <4> DEFINE u == [users[e] EXCEPT !.status = IF st = None THEN @ ELSE st,
                                       !.role = IF r = None THEN @ ELSE r]
      <4>1. users[e] \in UserRows /\ users[e].status # "absent" /\ users[e].via # None
        BY <2>4 DEF UpdateUser, TypeOK, Exists
      <4>2. u \in UserRows /\ u.status # "absent" /\ u.via # None
        BY <4>1 DEF UserRows, None
      <4> QED
        BY <2>4, <4>2 DEF UpdateUser, TypeOK
    <3>2. users' \in [Emails -> UserRows] /\ \A f \in Emails : users'[f].status # "absent" <=> users'[f].via # None
      BY <3>1, RowType
    <3> QED
      BY <2>1, <2>4, <3>2 DEF UpdateUser, TypeOK, Exists
  <2> QED
    BY <1>3, <2>2, <2>3, <2>4 DEF Administration
<1>4. CASE Time
  BY <1>4 DEF Time, TokenEnds, Expires, InvitationExpires, TypeOK, InviteRows, Exists
<1>5. CASE UNCHANGED vars
  BY <1>5 DEF vars, TypeOK, Exists
<1> QED
  BY <1>1, <1>2, <1>3, <1>4, <1>5, AskType, StatementType DEF Next

-----------------------------------------------------------------------------
(* What a step can do to an account, to its tokens and to a request.       *)

\* The step s makes: a request arrives, runs a statement or fails.
Acts(s) == Ask(s) \/ Statement(s) \/ Fail(s)

LEMMA Actors ==
  ASSUME [Next]_vars
  PROVE  \/ \E s \in Slots : Acts(s)
         \/ UNCHANGED req /\ (UNCHANGED vars \/ Administration \/ Time
                              \/ \E e \in Emails : ConfirmTOTP(e))
<1>1. Administration => UNCHANGED req
  BY DEF Administration, InviteUser, DeleteInvitation, UpdateUser
<1>2. Time => UNCHANGED req
  BY DEF Time, TokenEnds, Expires, InvitationExpires
<1>3. \A e \in Emails : ConfirmTOTP(e) => UNCHANGED req
  BY DEF ConfirmTOTP
<1>4. UNCHANGED vars => UNCHANGED req
  BY DEF vars
<1> QED
  BY <1>1, <1>2, <1>3, <1>4, Zenon DEF Next, Acts

\* An arriving request changes nothing but its slot and the count.
LEMMA AskFrame ==
  ASSUME NEW s \in Slots, Ask(s)
  PROVE  /\ UNCHANGED <<users, invites, tokens, pending, links, recovery, admins, config>>
         /\ req[s] = Idle
         /\ \E x : req' = [req EXCEPT ![s] = x]
<1>1. PICK op, w, e, i, r : Send(s, op, w, e, i, r)
  BY Zenon DEF Ask, AskRegister, AskVerify, AskLogin, AskCode, AskDisable, AskRecovery, AskReset,
         AskRefresh
<1> QED
  BY <1>1 DEF Send

\* A request that acts leaves the others where they are.
LEMMA OthersStay ==
  ASSUME TypeOK, NEW s \in Slots, Acts(s), NEW t \in Slots, t # s
  PROVE  /\ req'[t].at = req[t].at /\ req'[t].who = req[t].who /\ req'[t].inv = req[t].inv
         /\ req'[t].role = req[t].role /\ (req'[t].armed => req[t].armed)
<1>1. \/ \E x : req' = [req EXCEPT ![s] = x]
      \/ \E x : TurnOff(s, x)
  <2>1. Ask(s) => \E x : req' = [req EXCEPT ![s] = x]
    BY AskFrame
  <2>2. Fail(s) => \E x : req' = [req EXCEPT ![s] = x]
    BY DEF Fail, Ends
  <2>3. \A w : Goes(s, w) => \E x : req' = [req EXCEPT ![s] = x]
    BY DEF Goes, TypeOK
  <2>4. Ends(s) => \E x : req' = [req EXCEPT ![s] = x]
    BY DEF Ends
  <2>5. InsertUser(s) \/ LoadUser(s) => \E x : req' = [req EXCEPT ![s] = x]
    BY <2>4 DEF InsertUser, LoadUser, TypeOK
  <2>6. Statement(s) => \/ InsertUser(s) \/ LoadUser(s) \/ Ends(s)
                        \/ \E w : Goes(s, w)
                        \/ \E x : TurnOff(s, x)
    BY Zenon DEF Statement, CheckInvitation, MarkAccepted, MailLink, LookUpLink, Activate, Unlink,
           SelectUser, CheckCode, IssueTokens, CheckEnabled, DisableTOTP, RecordRecovery,
           LookUpRecovery, ResetTOTP, ForgetRecovery
  <2> QED
    BY <2>1, <2>2, <2>3, <2>4, <2>5, <2>6, Zenon DEF Acts
<1>2. CASE \E x : req' = [req EXCEPT ![s] = x]
  BY <1>2 DEF TypeOK
<1>3. CASE \E x : TurnOff(s, x)
  <2>1. req[t] \in Requests
    BY DEF TypeOK
  <2>2. PICK b : /\ req'[t] = [req[t] EXCEPT !.armed = b]
                 /\ b = IF req[t].who = req[s].who THEN FALSE ELSE req[t].armed
    BY <1>3 DEF TurnOff
  <2> QED
    BY <2>1, <2>2 DEF Requests
<1> QED
  BY <1>1, <1>2, <1>3

\* Where the tokens and links of an account come from.
LEMMA Sources ==
  ASSUME TypeOK, [Next]_vars, NEW e \in Emails
  PROVE  /\ e \in links' => e \in links \/ \E s \in Slots : At(s, "link") /\ req[s].who = e
         /\ e \in recovery' =>
              e \in recovery \/ \E s \in Slots : At(s, "record") /\ req[s].who = e
         /\ e \in pending' =>
              \/ e \in pending
              \/ \E s \in Slots : At(s, "select") /\ MayLogIn(e) /\ req[s].who = e
         /\ \A r \in Roles : <<e, r>> \in tokens' =>
              \/ <<e, r>> \in tokens
              \/ \E s \in Slots : At(s, "issue") /\ req[s].who = e /\ req[s].role = r
<1>1. CASE \E s \in Slots : Acts(s)
  <2>1. PICK s \in Slots : Ask(s) \/ Statement(s) \/ Fail(s)
    BY <1>1 DEF Acts
  <2>2. CASE Ask(s)
    BY <2>2, AskFrame
  <2>3. CASE Fail(s)
    BY <2>3 DEF Fail
  <2>4. CASE Statement(s)
    BY <2>4 DEF Statement, CheckInvitation, InsertUser, MarkAccepted, MailLink, LookUpLink,
                Activate, Unlink, SelectUser, CheckCode, LoadUser, IssueTokens, CheckEnabled,
                DisableTOTP, RecordRecovery, LookUpRecovery, ResetTOTP, ForgetRecovery
  <2> QED
    BY <2>1, <2>2, <2>3, <2>4
<1>2. CASE Administration
  BY <1>2 DEF Administration, InviteUser, DeleteInvitation, UpdateUser
<1>3. CASE Time
  BY <1>3 DEF Time, TokenEnds, Expires, InvitationExpires
<1>4. CASE UNCHANGED vars \/ \E f \in Emails : ConfirmTOTP(f)
  BY <1>4 DEF vars, ConfirmTOTP
<1> QED
  BY <1>1, <1>2, <1>3, <1>4, Actors

\* What becomes of the row of an account.
LEMMA Rows ==
  ASSUME TypeOK, Known, [Next]_vars, NEW e \in Emails
  PROVE  \/ users'[e] = users[e]
         \/ \E s \in Slots : InsertUser(s) /\ req[s].who = e /\ ~Exists(e)
         \/ Exists(e) /\ users'[e] = [users[e] EXCEPT !.status = "active"]
         \/ Exists(e) /\ \E b \in BOOLEAN : users'[e] = [users[e] EXCEPT !.totp = b]
         \/ \E a \in Emails, st \in {None, "active", "disabled"}, r \in Roles \cup {None} :
              UpdateUser(a, e, st, r)
<1>1. CASE \E s \in Slots : Acts(s)
  <2>1. PICK s \in Slots : Ask(s) \/ Statement(s) \/ Fail(s)
    BY <1>1 DEF Acts
  <2>2. CASE Ask(s)
    BY <2>2, AskFrame
  <2>3. CASE Fail(s)
    BY <2>3 DEF Fail
  <2>4. CASE InsertUser(s)
    BY <2>4 DEF InsertUser, TypeOK
  <2>5. CASE Activate(s)
    BY <2>5 DEF Activate, TypeOK, Known, Started, At, None
  <2>6. CASE DisableTOTP(s) \/ ResetTOTP(s)
    BY <2>6 DEF DisableTOTP, ResetTOTP, TurnOff, TypeOK, Known, Started, At, None
  <2>7. CASE Statement(s) /\ ~InsertUser(s) /\ ~Activate(s) /\ ~DisableTOTP(s) /\ ~ResetTOTP(s)
    BY <2>7 DEF Statement, CheckInvitation, MarkAccepted, MailLink, LookUpLink, Unlink,
                SelectUser, CheckCode, LoadUser, IssueTokens, CheckEnabled, RecordRecovery,
                LookUpRecovery, ForgetRecovery
  <2> QED
    BY <2>1, <2>2, <2>3, <2>4, <2>5, <2>6, <2>7
<1>2. CASE Administration
  <2>1. CASE UNCHANGED users
    BY <2>1
  <2>2. ASSUME NEW a \in Emails, NEW f \in Emails, NEW st \in {None, "active", "disabled"},
               NEW r \in Roles \cup {None}, UpdateUser(a, f, st, r)
        PROVE  users'[e] = users[e] \/ f = e
    BY <2>2 DEF UpdateUser, TypeOK
  <2>3. UNCHANGED users \/ \E a, f \in Emails, st \in {None, "active", "disabled"},
                              r \in Roles \cup {None} : UpdateUser(a, f, st, r)
    BY <1>2 DEF Administration, InviteUser, DeleteInvitation
  <2> QED
    BY <2>1, <2>2, <2>3
<1>3. CASE Time
  BY <1>3 DEF Time, TokenEnds, Expires, InvitationExpires
<1>4. ASSUME NEW f \in Emails, ConfirmTOTP(f)
      PROVE  users'[e] = users[e] \/ (Exists(e) /\ users'[e] = [users[e] EXCEPT !.totp = TRUE])
  BY <1>4 DEF ConfirmTOTP, TypeOK, Known
<1>5. CASE UNCHANGED vars
  BY <1>5 DEF vars
<1> QED
  BY <1>1, <1>2, <1>3, <1>4, <1>5, Actors

LEMMA RowsStay ==
  ASSUME TypeOK, Known, [Next]_vars, NEW e \in Emails, Exists(e)
  PROVE  users'[e].status # "absent" /\ users'[e].via = users[e].via
<1>1. users[e] \in UserRows
  BY DEF TypeOK
<1>2. ASSUME NEW a \in Emails, NEW st \in {None, "active", "disabled"},
             NEW r \in Roles \cup {None}, UpdateUser(a, e, st, r)
      PROVE  users'[e].status # "absent" /\ users'[e].via = users[e].via
  BY <1>1, <1>2 DEF UpdateUser, TypeOK, UserRows, Exists
<1> QED
  BY <1>1, <1>2, Rows DEF Exists, UserRows

\* What an arriving request is.
LEMMA Arrives ==
  ASSUME TypeOK, NEW s \in Slots, Ask(s)
  PROVE  \E op \in Ops, w \in Places, e \in Emails, i \in Invites \cup {None}, r \in Roles :
           /\ Send(s, op, w, e, i, r)
           /\ w \in {"check", "lookup", "reset", "select", "secret", "enabled", "record", "issue"}
           /\ w = "select" => op = "login" /\ Exists(e)
           /\ w # "select" => op # "login"
           /\ w \in {"secret", "record"} => e \in pending
           /\ w = "enabled" => SignedIn(e)
           /\ w = "issue" => <<e, r>> \in tokens
           /\ w # "issue" => r = "user"
  BY DEF Ask, AskRegister, AskVerify, AskLogin, AskCode, AskDisable, AskRecovery, AskReset,
         AskRefresh, Ops, Places, Roles

LEMMA ArrivalRecord ==
  ASSUME TypeOK, NEW s \in Slots, NEW op \in Ops, NEW w \in Places, NEW e \in Emails,
         NEW i \in Invites \cup {None}, NEW r \in Roles, Send(s, op, w, e, i, r)
  PROVE  /\ req'[s].at = w /\ req'[s].who = e /\ req'[s].inv = i /\ req'[s].role = r
         /\ req'[s].armed = (op = "login" /\ users[e].totp)
         /\ UNCHANGED <<users, invites, tokens, pending, links, recovery, admins, config>>
<1>1. req'[s] = [op |-> op, at |-> w, who |-> e, inv |-> i, role |-> r,
                 armed |-> op = "login" /\ users[e].totp]
  BY DEF Send, TypeOK
<1> QED
  BY <1>1 DEF Send

\* Where a statement takes its request.
Same(s) ==
  /\ req'[s].who = req[s].who /\ req'[s].inv = req[s].inv /\ req'[s].role = req[s].role
  /\ req'[s].armed = req[s].armed

Proceeds(s) ==
  \/ /\ At(s, "check") /\ req'[s].at = "insert"
     /\ req[s].inv = None => Bootstraps(req[s].who)
     /\ req[s].inv # None => Accepts(req[s].inv, req[s].who)
  \/ At(s, "lookup") /\ req'[s].at = "activate" /\ req[s].who \in links
  \/ At(s, "reset") /\ req'[s].at = "clear" /\ req[s].who \in recovery
  \/ At(s, "mark") /\ req'[s].at = "issue" /\ ~config.mailer
  \/ /\ At(s, "select") /\ req'[s].at = "load"
     /\ MayLogIn(req[s].who) /\ ~NeedsCode(req[s].who)
  \/ At(s, "secret") /\ req'[s].at = "load"
  \/ /\ req[s].at \in {"mark", "activate", "enabled", "clear"}
     /\ req'[s].at \in {"link", "unlink", "off", "forget"}

LEMMA Leads ==
  ASSUME TypeOK, NEW s \in Slots, Statement(s)
  PROVE  \/ req'[s] = Idle
         \/ /\ InsertUser(s) /\ ~Exists(req[s].who)
            /\ req'[s].at = "mark" /\ req'[s].who = req[s].who /\ req'[s].armed = req[s].armed
            /\ req'[s].role = IF req[s].inv = None THEN "admin" ELSE "user"
         \/ /\ LoadUser(s)
            /\ req'[s].at = "issue" /\ req'[s].who = req[s].who /\ req'[s].armed = req[s].armed
            /\ req'[s].role = users[req[s].who].role
         \/ Same(s) /\ Proceeds(s)
<1>1. req[s] \in Requests
  BY DEF TypeOK
<1>2. \A w : Goes(s, w) => Same(s) /\ req'[s].at = w
  BY <1>1 DEF Goes, Same, TypeOK, Requests
<1>3. Ends(s) => req'[s] = Idle
  BY DEF Ends, TypeOK
<1>4. DisableTOTP(s) => req'[s] = Idle
  BY DEF DisableTOTP, TurnOff, TypeOK
<1>5. ResetTOTP(s) => At(s, "clear") /\ Same(s) /\ req'[s].at = "forget"
  BY <1>1 DEF ResetTOTP, TurnOff, Same, TypeOK, Requests
<1>6. LoadUser(s) => /\ req'[s].at = "issue" /\ req'[s].who = req[s].who
                     /\ req'[s].armed = req[s].armed
                     /\ req'[s].role = users[req[s].who].role
  BY <1>1 DEF LoadUser, TypeOK, Requests
<1>7. InsertUser(s) =>
        \/ req'[s] = Idle
        \/ /\ ~Exists(req[s].who)
           /\ req'[s].at = "mark" /\ req'[s].who = req[s].who /\ req'[s].armed = req[s].armed
           /\ req'[s].role = IF req[s].inv = None THEN "admin" ELSE "user"
  BY <1>1, <1>3 DEF InsertUser, TypeOK, Requests
<1>8. CASE CheckInvitation(s)
  BY <1>2, <1>3, <1>8 DEF CheckInvitation, Proceeds
<1>9. CASE LookUpLink(s) \/ LookUpRecovery(s) \/ MarkAccepted(s)
  BY <1>2, <1>3, <1>9 DEF LookUpLink, LinkFound, LookUpRecovery, MarkAccepted, At, Proceeds
<1>10. CASE SelectUser(s) \/ CheckCode(s) \/ CheckEnabled(s) \/ Activate(s)
  BY <1>2, <1>3, <1>10 DEF SelectUser, CheckCode, CheckEnabled, Activate, At, Proceeds
<1>11. CASE MailLink(s) \/ Unlink(s) \/ IssueTokens(s) \/ RecordRecovery(s) \/ ForgetRecovery(s)
  BY <1>3, <1>11 DEF MailLink, Unlink, IssueTokens, RecordRecovery, ForgetRecovery
<1> QED
  BY <1>4, <1>5, <1>6, <1>7, <1>8, <1>9, <1>10, <1>11 DEF Statement, At, Proceeds

LEMMA StepKnown == TypeOK /\ Known /\ [Next]_vars => Known'
<1> SUFFICES ASSUME TypeOK, Known, [Next]_vars PROVE Known'
  OBVIOUS
<1>1. \A e \in Emails : Exists(e) => Exists(e)'
  BY RowsStay DEF Exists
<1>2. ASSUME NEW e \in Emails, (SignedIn(e) \/ e \in pending \cup links \cup recovery)'
      PROVE  Exists(e)
  BY <1>2, Sources DEF Known, Started, SignedIn, At, None
<1>3. ASSUME NEW s \in Slots, Acts(s), Started(s)'
      PROVE  Exists(req[s].who)' /\ req'[s].who \in Emails
  <2>1. CASE Ask(s)
    <3>1. PICK op \in Ops, w \in Places, e \in Emails, i \in Invites \cup {None}, r \in Roles :
            /\ Send(s, op, w, e, i, r)
            /\ w \in {"check", "lookup", "reset", "select", "secret", "enabled", "record", "issue"}
            /\ w = "select" => op = "login" /\ Exists(e)
            /\ w \in {"secret", "record"} => e \in pending
            /\ w = "enabled" => SignedIn(e)
            /\ w = "issue" => <<e, r>> \in tokens
      BY <2>1, Arrives
    <3>2. req'[s].who = e /\ req'[s].at = w
      BY <3>1 DEF Send, TypeOK
    <3> QED
      BY <1>1, <1>3, <3>1, <3>2 DEF Started, Known, SignedIn
  <2>2. CASE Statement(s)
    <3>1. req[s].at # None /\ req[s].who \in Emails
      BY <2>2, AtType DEF Statement, CheckInvitation, InsertUser, MarkAccepted, MailLink,
             LookUpLink, Activate, Unlink, SelectUser, CheckCode, LoadUser, IssueTokens,
             CheckEnabled, DisableTOTP, RecordRecovery, LookUpRecovery, ResetTOTP,
             ForgetRecovery, Places
    <3>2. CASE InsertUser(s) /\ ~Exists(req[s].who) /\ req'[s].who = req[s].who
      BY <3>1, <3>2 DEF InsertUser, TypeOK, Exists
    <3>3. CASE Started(s) /\ req'[s].who = req[s].who
      BY <1>1, <3>1, <3>3 DEF Known
    <3>4. CASE req[s].who \in links \cup recovery /\ req'[s].who = req[s].who
      BY <1>1, <3>1, <3>4 DEF Known
    <3>5. req'[s].at \notin {None, "check", "insert", "lookup", "reset"}
      BY <1>3 DEF Started
    <3>6. CASE LoadUser(s) /\ req'[s].who = req[s].who
      BY <3>3, <3>6 DEF LoadUser, At, Started, None
    <3>7. CASE Same(s) /\ Proceeds(s)
      <4>1. Started(s) \/ req[s].who \in links \cup recovery
        BY <3>5, <3>7 DEF Proceeds, At, Started, None
      <4> QED
        BY <3>3, <3>4, <3>7, <4>1 DEF Same
    <3> QED
      BY <2>2, <3>2, <3>5, <3>6, <3>7, Leads DEF Idle
  <2>3. CASE Fail(s)
    BY <1>3, <2>3 DEF Fail, Ends, Started, Idle, TypeOK
  <2> QED
    BY <1>3, <2>1, <2>2, <2>3 DEF Acts
<1>4. ASSUME NEW s \in Slots, Acts(s), NEW t \in Slots, t # s, Started(t)'
      PROVE  Exists(req[t].who)'
  <2>1. req'[t].who = req[t].who /\ Started(t) /\ req[t].who \in Emails
    BY <1>4, OthersStay DEF Started, TypeOK
  <2> QED
    BY <1>1, <2>1 DEF Known, Exists
<1>5. ASSUME NEW t \in Slots, Started(t)', UNCHANGED req PROVE Exists(req[t].who)'
  <2>1. req'[t].who = req[t].who /\ Started(t) /\ req[t].who \in Emails
    BY <1>5 DEF Started, TypeOK
  <2> QED
    BY <1>1, <2>1 DEF Known, Exists
<1>6. \A t \in Slots : Started(t)' => Exists(req[t].who)'
  BY <1>3, <1>4, <1>5, Actors
<1> QED
  BY <1>1, <1>2, <1>6 DEF Known

-----------------------------------------------------------------------------
(* Invitations, administrators and the second factor.                      *)

\* The configuration stands, an invitation keeps its address, and who becomes an
\* administrator registers first or is made one.
LEMMA Slow ==
  ASSUME TypeOK, [Next]_vars
  PROVE  /\ config' = config /\ admins \subseteq admins'
         /\ \A i \in Invites : invites[i].state # "unused" =>
              invites'[i].state # "unused" /\ invites'[i].email = invites[i].email
         /\ \A e \in admins' \ admins :
              \/ \E s \in Slots : InsertUser(s) /\ req[s].who = e /\ req[s].inv = None
                                  /\ ~Exists(e)
              \/ \E a, f \in Emails, st \in {None, "active", "disabled"}, r \in Roles \cup {None} :
                   UpdateUser(a, f, st, r)
<1>1. CASE \E s \in Slots : Acts(s)
  <2>1. PICK s \in Slots : Ask(s) \/ Statement(s) \/ Fail(s)
    BY <1>1 DEF Acts
  <2>2. CASE Ask(s) \/ Fail(s)
    BY <2>2, AskFrame DEF Fail
  <2>3. CASE InsertUser(s)
    BY <2>3 DEF InsertUser
  <2>4. CASE MarkAccepted(s)
    <3>1. \A i \in Invites : invites'[i] = invites[i]
                             \/ invites'[i] = [invites[i] EXCEPT !.state = "accepted"]
      BY <2>4 DEF MarkAccepted, TypeOK
    <3> QED
      BY <2>4, <3>1 DEF MarkAccepted, TypeOK, InviteRows
  <2>5. CASE Statement(s) /\ ~InsertUser(s) /\ ~MarkAccepted(s)
    BY <2>5 DEF Statement, CheckInvitation, MailLink, LookUpLink, Activate, Unlink,
                SelectUser, CheckCode, LoadUser, IssueTokens, CheckEnabled, DisableTOTP,
                RecordRecovery, LookUpRecovery, ResetTOTP, ForgetRecovery
  <2> QED
    BY <2>1, <2>2, <2>3, <2>4, <2>5
<1>2. CASE Administration
  <2>1. ASSUME NEW a \in Emails, NEW e \in Emails, NEW i \in Invites, InviteUser(a, e, i)
        PROVE  /\ config' = config /\ admins' = admins
               /\ \A j \in Invites : invites[j].state # "unused" => invites'[j] = invites[j]
    BY <2>1 DEF InviteUser, TypeOK
  <2>2. ASSUME NEW a \in Emails, NEW i \in Invites, DeleteInvitation(a, i)
        PROVE  /\ config' = config /\ admins' = admins
               /\ \A j \in Invites : invites[j].state # "unused" =>
                    invites'[j].state # "unused" /\ invites'[j].email = invites[j].email
    BY <2>2 DEF DeleteInvitation, TypeOK, InviteRows
  <2>3. ASSUME NEW a \in Emails, NEW e \in Emails, NEW st \in {None, "active", "disabled"},
               NEW r \in Roles \cup {None}, UpdateUser(a, e, st, r)
        PROVE  config' = config /\ admins \subseteq admins' /\ invites' = invites
    BY <2>3 DEF UpdateUser
  <2> QED
    BY <1>2, <2>1, <2>2, <2>3 DEF Administration
<1>3. CASE Time
  BY <1>3 DEF Time, TokenEnds, Expires, InvitationExpires, TypeOK, InviteRows
<1>4. CASE UNCHANGED vars \/ \E f \in Emails : ConfirmTOTP(f)
  BY <1>4 DEF vars, ConfirmTOTP
<1> QED
  BY <1>1, <1>2, <1>3, <1>4, Actors

\* Who comes to be pending registers with a mailer.
LEMMA PendingWas ==
  ASSUME TypeOK, Known, [Next]_vars, NEW e \in Emails, users'[e].status = "pending"
  PROVE  users[e].status = "pending" \/ (~Exists(e) /\ config.mailer)
<1>1. users[e] \in UserRows
  BY DEF TypeOK
<1>2. ASSUME NEW s \in Slots, InsertUser(s), req[s].who = e, ~Exists(e) PROVE config.mailer
  BY <1>2 DEF InsertUser, TypeOK
<1>3. ASSUME NEW a \in Emails, NEW st \in {None, "active", "disabled"},
             NEW r \in Roles \cup {None}, UpdateUser(a, e, st, r)
      PROVE  users[e].status = "pending"
  BY <1>1, <1>3 DEF UpdateUser, TypeOK, UserRows
<1> QED
  BY <1>1, <1>2, <1>3, Rows DEF UserRows

\* What a request is that has just arrived or advanced, and what it was before.
LEMMA InFlight ==
  ASSUME TypeOK, [Next]_vars, NEW t \in Slots
  PROVE  \/ Ask(t) \/ Statement(t)
         \/ req'[t] = Idle
         \/ /\ req'[t].at = req[t].at /\ req'[t].who = req[t].who /\ req'[t].inv = req[t].inv
            /\ req'[t].role = req[t].role /\ (req'[t].armed => req[t].armed)
<1>1. ASSUME NEW s \in Slots, Acts(s), s # t
      PROVE  /\ req'[t].at = req[t].at /\ req'[t].who = req[t].who /\ req'[t].inv = req[t].inv
             /\ req'[t].role = req[t].role /\ (req'[t].armed => req[t].armed)
  BY <1>1, OthersStay
<1>2. Fail(t) => req'[t] = Idle
  BY DEF Fail, Ends, TypeOK
<1> QED
  BY <1>1, <1>2, Actors DEF Acts

-----------------------------------------------------------------------------
(* The inductive invariant, part by part.                                  *)

LEMMA InitSound == Init => TypeOK /\ Sound
<1> SUFFICES ASSUME Init PROVE TypeOK /\ Sound
  OBVIOUS
<1>1. /\ \A s \in Slots : req[s] = Idle
      /\ \A e \in Emails : users[e] = IF e \in admins THEN First ELSE Absent
      /\ \A e \in Emails : users[e].status = IF e \in admins THEN "active" ELSE "absent"
      /\ \A e \in Emails : users[e].via = IF e \in admins THEN Bootstrap ELSE None
      /\ \A e \in Emails : users[e].role = IF e \in admins THEN "admin" ELSE "user"
      /\ admins \subseteq Emails /\ \A e \in admins : config.admin \in {None, e}
  BY DEF Init, First, Absent
<1>2. TypeOK
  <2>1. First \in UserRows /\ Absent \in UserRows
    BY DEF First, Absent, UserRows, Roles
  <2>2. Unused \in InviteRows
    BY DEF Unused, InviteRows
  <2>3. calls \in 0 .. MaxCalls
    BY AccountsConstants DEF AccountsConstants, Init
  <2>4. \A e \in Emails : Exists(e) <=> users[e].via # None
    BY <1>1 DEF Exists, Bootstrap, None
  <2> QED
    BY <1>1, <2>1, <2>2, <2>3, <2>4, IdleType DEF Init, TypeOK
<1>3. Known /\ Armed /\ Quiet
  <2>1. \A e \in Emails : ~SignedIn(e) /\ e \notin pending \cup links \cup recovery
    BY DEF Init, SignedIn
  <2>2. \A s \in Slots : req[s].at = None /\ ~req[s].armed
    BY <1>1, IdleType
  <2>3. \A s \in Slots : ~Started(s) /\ req[s].at \notin {"secret", "load", "issue"}
    BY <2>2 DEF Started, None
  <2> QED
    BY <1>1, <2>1, <2>2, <2>3 DEF Known, Armed, Quiet
<1>4. Allowed
  BY <1>1, IdleType, AccountsConstants
     DEF AccountsConstants, Allowed, Entitled, Bootstraps, None, Bootstrap
<1>5. Earned /\ SoleAdminStays
  BY <1>1, IdleType DEF Init, Earned, IsAdmin, Exists, SoleAdminStays
<1> QED
  BY <1>2, <1>3, <1>4, <1>5 DEF Sound

LEMMA StepAllowed == TypeOK /\ Known /\ Allowed /\ [Next]_vars => Allowed'
<1> SUFFICES ASSUME TypeOK, Known, Allowed, [Next]_vars PROVE Allowed'
  OBVIOUS
<1>1. \A e \in Emails, i \in Invites \cup {None} : Entitled(e, i) => Entitled(e, i)'
  BY Slow DEF Entitled, Bootstraps
<1>2. ASSUME NEW e \in Emails
      PROVE  /\ users'[e].via = Bootstrap => Entitled(e, None)'
             /\ users'[e].via \in Invites => Entitled(e, users[e].via)'
  <2>1. CASE users'[e].via = users[e].via
    BY <1>1, <2>1 DEF Allowed
  <2>2. ASSUME NEW s \in Slots, InsertUser(s), req[s].who = e, ~Exists(e)
        PROVE  users'[e].via = IF req[s].inv = None THEN Bootstrap ELSE req[s].inv
    BY <2>2 DEF InsertUser, TypeOK
  <2>3. CASE \E s \in Slots : InsertUser(s) /\ req[s].who = e /\ ~Exists(e)
    <3>1. PICK s \in Slots : InsertUser(s) /\ req[s].who = e /\ ~Exists(e)
      BY <2>3
    <3>2. req[s].inv \in Invites \cup {None} /\ Entitled(e, req[s].inv)
      BY <3>1, AtType DEF InsertUser, At, Places, Allowed
    <3> QED
      BY <1>1, <2>2, <3>1, <3>2, AccountsConstants DEF AccountsConstants, Entitled
  <2> QED
    BY <2>1, <2>3, Rows, RowsStay DEF Exists, UpdateUser
<1>3. ASSUME NEW t \in Slots, req'[t].at = "insert"
      PROVE  Entitled(req[t].who, req[t].inv)'
  <2>1. CASE Ask(t)
    <3>1. PICK op \in Ops, w \in Places, e \in Emails, i \in Invites \cup {None}, r \in Roles :
            /\ Send(t, op, w, e, i, r)
            /\ w \in {"check", "lookup", "reset", "select", "secret", "enabled", "record", "issue"}
      BY <2>1, Arrives
    <3> QED
      BY <1>3, <3>1, ArrivalRecord
  <2>2. CASE Statement(t)
    <3>1. req[t] \in Requests
      BY DEF TypeOK
    <3>2. Same(t) /\ Proceeds(t)
      BY <1>3, <2>2, Leads DEF Idle, None
    <3>3. /\ At(t, "check")
          /\ req[t].inv = None => Bootstraps(req[t].who)
          /\ req[t].inv # None => Accepts(req[t].inv, req[t].who)
      BY <1>3, <3>2 DEF Proceeds
    <3>4. req[t].who \in Emails /\ req[t].inv \in Invites \cup {None}
      BY <3>3, AtType DEF Places
    <3>5. Entitled(req[t].who, req[t].inv)
      BY <3>3 DEF Entitled, Accepts
    <3> QED
      BY <1>1, <3>2, <3>4, <3>5 DEF Same, Entitled, Bootstraps
  <2>3. CASE /\ req'[t].at = req[t].at /\ req'[t].who = req[t].who
             /\ req'[t].inv = req[t].inv
    <3>1. req[t].who \in Emails /\ req[t].inv \in Invites \cup {None}
          /\ Entitled(req[t].who, req[t].inv)
      BY <1>3, <2>3, AtType DEF At, Places, Allowed
    <3> QED
      BY <1>1, <2>3, <3>1 DEF Entitled, Bootstraps
  <2> QED
    BY <1>3, <2>1, <2>2, <2>3, InFlight DEF Idle, None
<1> QED
  BY <1>2, <1>3 DEF Allowed

LEMMA StepQuiet == TypeOK /\ Known /\ Quiet /\ [Next]_vars => Quiet'
<1> SUFFICES ASSUME TypeOK, Known, Quiet, [Next]_vars PROVE Quiet'
  OBVIOUS
<1>1. ASSUME NEW e \in Emails, users'[e].status = "pending"
      PROVE  config'.mailer /\ ~SignedIn(e)' /\ e \notin pending'
  <2>1. /\ users[e].status \in {"pending", "absent"} /\ config.mailer
        /\ ~SignedIn(e) /\ e \notin pending
    BY <1>1, PendingWas DEF Quiet, Known, Exists
  <2>2. ~\E s \in Slots : At(s, "issue") /\ req[s].who = e
    BY <2>1 DEF Quiet, Known, Started, Exists, At, None
  <2> QED
    BY <2>1, <2>2, Sources, Slow DEF SignedIn, MayLogIn
<1>2. ASSUME NEW t \in Slots, req'[t].at \in {"secret", "load", "issue"}
      PROVE  users'[req'[t].who].status # "pending"
  <2>1. SUFFICES /\ req'[t].who \in Emails /\ Exists(req'[t].who)
                 /\ users[req'[t].who].status # "pending"
    BY PendingWas
  <2>2. CASE Ask(t)
    <3>1. PICK op \in Ops, w \in Places, e \in Emails, i \in Invites \cup {None}, r \in Roles :
            /\ Send(t, op, w, e, i, r)
            /\ w \in {"check", "lookup", "reset", "select", "secret", "enabled", "record", "issue"}
            /\ w \in {"secret", "record"} => e \in pending
            /\ w = "issue" => <<e, r>> \in tokens
      BY <2>2, Arrives
    <3>2. req'[t].who = e /\ req'[t].at = w
      BY <3>1, ArrivalRecord
    <3> QED
      BY <1>2, <3>1, <3>2 DEF Known, Quiet, SignedIn
  <2>3. CASE Statement(t)
    <3>1. CASE LoadUser(t) /\ req'[t].who = req[t].who
      BY <3>1, AtType DEF LoadUser, At, Known, Quiet, Started, Places, None
    <3>2. CASE Same(t) /\ Proceeds(t)
      <4>1. \/ At(t, "mark") /\ ~config.mailer
            \/ At(t, "select") /\ MayLogIn(req[t].who)
            \/ At(t, "secret")
        BY <1>2, <3>2 DEF Proceeds
      <4> QED
        BY <3>2, <4>1, AtType DEF Same, MayLogIn, Known, Quiet, Started, Places, At, None
    <3> QED
      BY <1>2, <2>3, <3>1, <3>2, Leads DEF Idle, None
  <2>4. CASE req'[t].at = req[t].at /\ req'[t].who = req[t].who
    BY <1>2, <2>4 DEF TypeOK, Known, Quiet, Started, None
  <2> QED
    BY <1>2, <2>2, <2>3, <2>4, InFlight DEF Idle, None
<1> QED
  BY <1>1, <1>2 DEF Quiet

\* Only the two statements that turn a factor off do, and they disarm its logins.
LEMMA FactorStays ==
  ASSUME TypeOK, Known, [Next]_vars, NEW e \in Emails, Exists(e), users[e].totp
  PROVE  \/ users'[e].totp
         \/ \E s \in Slots : /\ DisableTOTP(s) \/ ResetTOTP(s)
                             /\ req[s].who = e
<1>1. users[e] \in UserRows
  BY DEF TypeOK
<1>2. CASE \E s \in Slots : Acts(s)
  <2>1. PICK s \in Slots : Ask(s) \/ Statement(s) \/ Fail(s)
    BY <1>2 DEF Acts
  <2>2. CASE Ask(s) \/ Fail(s)
    BY <2>2, AskFrame DEF Fail
  <2>3. CASE InsertUser(s)
    BY <2>3 DEF InsertUser, TypeOK, Exists
  <2>4. CASE Activate(s)
    BY <1>1, <2>4 DEF Activate, TypeOK, UserRows
  <2>5. CASE DisableTOTP(s) \/ ResetTOTP(s)
    BY <2>5 DEF DisableTOTP, ResetTOTP, TurnOff, TypeOK
  <2>6. CASE Statement(s) /\ ~InsertUser(s) /\ ~Activate(s) /\ ~DisableTOTP(s) /\ ~ResetTOTP(s)
    BY <2>6 DEF Statement, CheckInvitation, MarkAccepted, MailLink, LookUpLink, Unlink,
                SelectUser, CheckCode, LoadUser, IssueTokens, CheckEnabled, RecordRecovery,
                LookUpRecovery, ForgetRecovery
  <2> QED
    BY <2>1, <2>2, <2>3, <2>4, <2>5, <2>6
<1>3. CASE Administration
  <2>1. ASSUME NEW a \in Emails, NEW f \in Emails, NEW st \in {None, "active", "disabled"},
               NEW r \in Roles \cup {None}, UpdateUser(a, f, st, r)
        PROVE  users'[e].totp = users[e].totp
    BY <1>1, <2>1 DEF UpdateUser, TypeOK, UserRows
  <2>2. UNCHANGED users \/ \E a, f \in Emails, st \in {None, "active", "disabled"},
                              r \in Roles \cup {None} : UpdateUser(a, f, st, r)
    BY <1>3 DEF Administration, InviteUser, DeleteInvitation
  <2> QED
    BY <2>1, <2>2
<1>4. CASE Time
  BY <1>4 DEF Time, TokenEnds, Expires, InvitationExpires
<1>5. ASSUME NEW f \in Emails, ConfirmTOTP(f) PROVE users'[e].totp
  BY <1>1, <1>5 DEF ConfirmTOTP, TypeOK, UserRows
<1>6. CASE UNCHANGED vars
  BY <1>6 DEF vars
<1> QED
  BY <1>2, <1>3, <1>4, <1>5, <1>6, Actors

LEMMA StepArmed == TypeOK /\ Known /\ Armed /\ [Next]_vars => Armed'
<1> SUFFICES ASSUME TypeOK, Known, Armed, [Next]_vars, NEW t \in Slots, req'[t].armed
             PROVE  req'[t].at = "select" /\ users'[req'[t].who].totp
  BY DEF Armed
<1>1. CASE Ask(t)
  <2>1. PICK op \in Ops, w \in Places, e \in Emails, i \in Invites \cup {None}, r \in Roles :
          /\ Send(t, op, w, e, i, r)
          /\ w # "select" => op # "login"
    BY <1>1, Arrives
  <2> QED
    BY <2>1, ArrivalRecord
<1>2. CASE Statement(t)
  <2>1. ~req[t].armed \/ (At(t, "select") /\ NeedsCode(req[t].who))
    BY DEF Armed, At, NeedsCode
  <2>2. ~(InsertUser(t) /\ req[t].armed) /\ ~(LoadUser(t) /\ req[t].armed)
    BY <2>1 DEF InsertUser, LoadUser, At
  <2>3. ~(Same(t) /\ Proceeds(t))
    BY <2>1 DEF Same, Proceeds, At
  <2> QED
    BY <1>2, <2>2, <2>3, IdleType, Leads
<1>3. CASE req'[t].at = req[t].at /\ req'[t].who = req[t].who /\ req[t].armed
  <2>1. /\ req[t].at = "select" /\ users[req[t].who].totp
        /\ req[t].who \in Emails /\ Exists(req[t].who)
    BY <1>3, AtType DEF Armed, Known, Started, At, Places, None
  <2>2. ASSUME NEW s \in Slots, DisableTOTP(s) \/ ResetTOTP(s), req[s].who = req[t].who
        PROVE  FALSE
    <3>1. s # t
      BY <2>1, <2>2 DEF DisableTOTP, ResetTOTP, At
    <3>2. PICK x : TurnOff(s, x)
      BY <2>2, Zenon DEF DisableTOTP, ResetTOTP
    <3>3. req[t] \in Requests
      BY DEF TypeOK
    <3>4. req'[t] = [req[t] EXCEPT !.armed = FALSE]
      BY <2>2, <3>1, <3>2 DEF TurnOff, TypeOK
    <3> QED
      BY <3>3, <3>4 DEF Requests
  <2> QED
    BY <1>3, <2>1, <2>2, FactorStays
<1> QED
  BY <1>1, <1>2, <1>3, IdleType, InFlight

LEMMA StepEarned == TypeOK /\ Known /\ Earned /\ [Next]_vars => Earned'
<1> SUFFICES ASSUME TypeOK, Known, Earned, [Next]_vars PROVE Earned'
  OBVIOUS
<1>1. ASSUME NEW e \in Emails, IsAdmin(e)' PROVE e \in admins
  <2>1. "admin" \in Roles
    BY DEF Roles
  <2>2. \/ <<e, "admin">> \in tokens
        \/ \E s \in Slots : req[s].who = e /\ req[s].role = "admin"
    BY <1>1, <2>1, Sources DEF IsAdmin
  <2> QED
    BY <2>2 DEF IsAdmin, Earned
<1>2. ASSUME NEW e \in Emails, users'[e].status # "absent", users'[e].role = "admin"
      PROVE  e \in admins'
  <2>1. users[e] \in UserRows
    BY DEF TypeOK
  <2>2. ASSUME NEW s \in Slots, InsertUser(s), req[s].who = e, ~Exists(e) PROVE e \in admins'
    BY <1>2, <2>2 DEF InsertUser, TypeOK
  <2>3. ASSUME NEW a \in Emails, NEW st \in {None, "active", "disabled"},
               NEW r \in Roles \cup {None}, UpdateUser(a, e, st, r)
        PROVE  e \in admins'
    BY <1>2, <2>1, <2>3, Slow DEF UpdateUser, TypeOK, UserRows, Earned
  <2>4. CASE Exists(e) /\ users'[e].role = users[e].role
    BY <1>2, <2>4, Slow DEF Earned
  <2> QED
    BY <1>2, <2>1, <2>2, <2>3, <2>4, Rows DEF UserRows, Exists
<1>3. ASSUME NEW t \in Slots, req'[t].role = "admin" PROVE req'[t].who \in admins'
  <2>1. CASE Ask(t)
    <3>1. PICK op \in Ops, w \in Places, e \in Emails, i \in Invites \cup {None}, r \in Roles :
            /\ Send(t, op, w, e, i, r)
            /\ w = "issue" => <<e, r>> \in tokens
            /\ w # "issue" => r = "user"
      BY <2>1, Arrives
    <3> QED
      BY <1>3, <3>1, ArrivalRecord, Slow DEF Earned, IsAdmin
  <2>2. CASE Statement(t)
    <3>1. CASE InsertUser(t) /\ ~Exists(req[t].who) /\ req'[t].who = req[t].who
               /\ req'[t].role = IF req[t].inv = None THEN "admin" ELSE "user"
      BY <1>3, <3>1 DEF InsertUser
    <3>2. CASE LoadUser(t) /\ req'[t].who = req[t].who /\ req'[t].role = users[req[t].who].role
      <4>1. req[t].who \in Emails /\ Exists(req[t].who)
        BY <3>2, AtType DEF LoadUser, At, Places, Known, Started, None
      <4> QED
        BY <1>3, <3>2, <4>1, Slow DEF Earned
    <3>3. CASE Same(t)
      BY <1>3, <3>3, Slow DEF Same, Earned
    <3> QED
      BY <1>3, <2>2, <3>1, <3>2, <3>3, IdleType, Leads
  <2>3. CASE req'[t].who = req[t].who /\ req'[t].role = req[t].role
    BY <1>3, <2>3, Slow DEF Earned
  <2> QED
    BY <1>3, <2>1, <2>2, <2>3, IdleType, InFlight
<1> QED
  BY <1>1, <1>2, <1>3, Slow DEF Earned, Exists

LEMMA StepSole == TypeOK /\ Known /\ Earned /\ SoleAdminStays /\ [Next]_vars => SoleAdminStays'
<1> SUFFICES ASSUME TypeOK, Known, Earned, SoleAdminStays, [Next]_vars,
                    NEW a \in Emails, admins' = {a}
             PROVE  users'[a].role = "admin" /\ users'[a].status \in {"pending", "active"}
  BY DEF SoleAdminStays
<1>1. \A b, e \in Emails, st \in {None, "active", "disabled"}, r \in Roles \cup {None} :
        UpdateUser(b, e, st, r) => b = a /\ admins = {a} /\ e # a
  BY Slow DEF UpdateUser, MayUpdate, Earned
<1>2. CASE admins = {a}
  <2>1. /\ users[a].role = "admin" /\ users[a].status \in {"pending", "active"} /\ Exists(a)
        /\ users[a] \in UserRows
    BY <1>2 DEF SoleAdminStays, Exists, TypeOK
  <2>2. ~\E b \in Emails, st \in {None, "active", "disabled"}, r \in Roles \cup {None} :
            UpdateUser(b, a, st, r)
    BY <1>1
  <2>3. \/ users'[a] = users[a]
        \/ users'[a] = [users[a] EXCEPT !.status = "active"]
        \/ \E x \in BOOLEAN : users'[a] = [users[a] EXCEPT !.totp = x]
    BY <2>1, <2>2, Rows, Zenon
  <2> QED
    BY <2>1, <2>3 DEF UserRows
<1>3. CASE a \notin admins
  <2>1. PICK s \in Slots : InsertUser(s) /\ req[s].who = a /\ req[s].inv = None /\ ~Exists(a)
    BY <1>1, <1>3, Slow
  <2> QED
    BY <2>1 DEF InsertUser, TypeOK
<1> QED
  BY <1>2, <1>3, Slow

-----------------------------------------------------------------------------
(* The theorems.                                                           *)

LEMMA Inductive == Spec => [](TypeOK /\ Sound)
<1>1. TypeOK /\ Sound /\ [Next]_vars => (TypeOK /\ Sound)'
  BY StepType, StepKnown, StepAllowed, StepQuiet, StepArmed, StepEarned, StepSole DEF Sound
<1> QED
  BY <1>1, InitSound, PTL DEF Spec

\* Every variable of Accounts keeps its type; a row of users is complete or absent.
THEOREM TypeCorrect == Spec => []TypeOK
BY Inductive, PTL

\* However registrations with one invitation interleave and fail between the check and
\* the mark (Register), the invitation makes one account: that of its address.
THEOREM InvitationsMakeOne == Spec => []OneAccountPerInvitation
<1>1. Sound => OneAccountPerInvitation
  BY AccountsConstants DEF AccountsConstants, Sound, Allowed, Entitled, OneAccountPerInvitation
<1> QED
  BY <1>1, Inductive, PTL

\* With ADMIN_EMAIL set, racing first registrations and failing counts (Register,
\* getValidInvitation) make no second account without an invitation.
THEOREM BootstrapMakesOne == Spec => []OneBootstrap
<1>1. TypeOK /\ Sound => OneBootstrap
  BY DEF Sound, Allowed, Entitled, Bootstraps, OneBootstrap, TypeOK
<1> QED
  BY <1>1, Inductive, PTL

\* Nobody whose verification link has not been clicked holds a token of any kind, nor
\* does any request in flight bring one (Register, Login, Refresh, VerifyTOTP).
THEOREM PendingHoldsNothing == Spec => []PendingHasNoTokens
<1>1. Sound => PendingHasNoTokens
  BY DEF Sound, Quiet, PendingHasNoTokens
<1> QED
  BY <1>1, Inductive, PTL

\* A login begun while the second factor was on, and during which nobody turned it off,
\* leads to no session without a code (Login).
THEOREM LoginsAskTheCode == Spec => []CodeIsAsked
<1>1. Sound => CodeIsAsked
  BY DEF Sound, Armed, CodeIsAsked
<1> QED
  BY <1>1, Inductive, PTL

\* The server never loses its only administrator to UpdateUser, whatever tokens are
\* still signed for the role.
THEOREM TheSoleAdministratorStays == Spec => []SoleAdminStays
<1>1. Sound => SoleAdminStays
  BY DEF Sound
<1> QED
  BY <1>1, Inductive, PTL

=============================================================================
