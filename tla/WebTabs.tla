------------------------------- MODULE WebTabs -------------------------------
(***************************************************************************)
(* The web app in several browser tabs against the server of TokenServer.  *)
(* The tabs share one token store (browser storage) but not their memory;  *)
(* each refreshes on its own when a request is answered 401, at most once  *)
(* at a time.  Every storage access and every request is a step of its own.*)
(*                                                                         *)
(* An answer may be lost and a tab may be closed at any step.  What is not *)
(* lost is fast: a refresh takes, from reading the token to storing the    *)
(* answer, no more than MaxDelay.                                          *)
(***************************************************************************)
EXTENDS TokenServer

CONSTANTS
  Tabs,
  Settle,       \* _rotationSettleDelay
  MaxDelay      \* bound on the duration of a refresh that succeeds

ASSUME TabConstants ==
  /\ Settle \in Nat /\ MaxDelay \in Nat
  /\ MaxDelay < Grace + Settle

VARIABLES
  store,      \* the shared storage: access and refresh token, and whose they are
  tabs,       \* each tab's memory
  loss        \* an answer was lost, a tab closed in a flow or a logout not sent

clientVars == <<store, tabs, loss>>
vars == <<now, signed, expires, retired, revoked, srv, failed, store, tabs, loss>>

\* access: the access token in memory; then: what the refresh is for; held: the
\* refresh token the flow has read; fresh: the pair it was answered; since: when
\* it started or took its first look.
Closed == [pc |-> "closed", access |-> None, in |-> FALSE, then |-> None,
           held |-> None, fresh |-> None, slot |-> None, since |-> 0]

\* A tab that was never opened.
New == [Closed EXCEPT !.pc = "new"]

Settled(tb) == [tb EXCEPT !.pc = "idle", !.then = None, !.held = None,
                          !.fresh = None, !.slot = None, !.since = 0]

Init ==
  /\ ServerInit
  /\ store = [access |-> None, refresh |-> None, user |-> FALSE]
  /\ tabs = [b \in Tabs |-> New]
  /\ loss = FALSE

\* The refresh was rejected for good: the session is to be cleared.
Expired(b) == [Settled(tabs[b]) EXCEPT !.pc = "clearAccess"]

Goto(b, pc) == tabs' = [tabs EXCEPT ![b].pc = pc]

-----------------------------------------------------------------------------
\* AuthNotifier.init: the session found in the storage; ApiClient.init its token.
Open(b) ==
  /\ tabs[b].pc \in {"new", "closed"}
  /\ tabs' = [tabs EXCEPT ![b] = [Closed EXCEPT !.pc = "idle", !.in = store.user,
                                                !.access = store.access]]
  /\ UNCHANGED <<serverVars, store, loss>>

\* AuthService.login: a pair from the server, stored with the key material.
Login(b) ==
  /\ tabs[b].pc = "idle" /\ ~tabs[b].in
  /\ \E t \in Tokens :
       /\ Issue(t)
       /\ store' = [access |-> t, refresh |-> t, user |-> TRUE]
       /\ tabs' = [tabs EXCEPT ![b].in = TRUE, ![b].access = t]
  /\ UNCHANGED <<now, retired, revoked, srv, failed, loss>>

\* _doRefresh: sends the stored token; none counts as rejected.
StartRefresh(b, then) ==
  IF store.refresh = None
    THEN tabs' = [tabs EXCEPT ![b] = Expired(b)] /\ UNCHANGED srv
    ELSE \E s \in Slots :
           /\ Receive(s, store.refresh)
           /\ tabs' = [tabs EXCEPT ![b].pc = "wait", ![b].then = then, ![b].slot = s,
                                  ![b].held = store.refresh, ![b].since = now]

\* A request is answered 401: the access token has expired.
Unauthorized(b) ==
  /\ tabs[b].pc = "idle" /\ tabs[b].in
  /\ ~AccessValid(tabs[b].access)
  /\ StartRefresh(b, "request")
  /\ UNCHANGED <<now, signed, expires, retired, revoked, failed, store, loss>>

\* The answer: new tokens, a rejection, or a failure that keeps the session.
TakeAnswer(b) ==
  /\ tabs[b].pc = "wait"
  /\ \E s \in Slots :
         /\ tabs[b].slot = s
         /\ Answered(s)
         /\ tabs' = [tabs EXCEPT ![b] =
              CASE srv[s].pc = "ok" ->
                     [tabs[b] EXCEPT !.pc = "storeAccess", !.fresh = srv[s].fresh,
                                     !.access = srv[s].fresh, !.slot = None]
                [] srv[s].pc = "rejected" -> [tabs[b] EXCEPT !.pc = "look", !.slot = None]
                [] srv[s].pc = "error" ->
                     IF tabs[b].then = "logout"
                       THEN [tabs[b] EXCEPT !.pc = "outAccess", !.slot = None]
                       ELSE Settled(tabs[b])]
         /\ srv' = [srv EXCEPT ![s] = Free]
         /\ loss' = (loss \/ (srv[s].pc = "error" /\ tabs[b].then = "logout"))
  /\ UNCHANGED <<now, signed, expires, retired, revoked, failed, store>>

\* setTokens writes the access token, then the refresh token.
StoreAccess(b) ==
  /\ tabs[b].pc = "storeAccess"
  /\ store' = [store EXCEPT !.access = tabs[b].fresh]
  /\ Goto(b, "storeRefresh")
  /\ UNCHANGED <<serverVars, loss>>

\* The request that met the 401 is retried once the session is refreshed; a logout
\* then sends the token stored now.
Resume(b) ==
  IF tabs[b].then = "logout" THEN [tabs[b] EXCEPT !.pc = "resend"] ELSE Settled(tabs[b])

StoreRefresh(b) ==
  /\ tabs[b].pc = "storeRefresh"
  /\ store' = [store EXCEPT !.refresh = tabs[b].fresh]
  /\ tabs' = [tabs EXCEPT ![b] = Resume(b)]
  /\ UNCHANGED <<serverVars, loss>>

\* Mutant: a rejection counts at the first look.
AfterLookAtOnce(b) == "clearAccess"

AfterLook(b) == IF tabs[b].pc = "look" THEN "lookAgain" ELSE "clearAccess"

\* Mutant: a rejection is final whatever another tab has stored.
MovedOnNever(b) == FALSE

MovedOn(b) == store.refresh # None /\ store.refresh # tabs[b].held

\* _adoptRotatedToken: another tab may have stored new tokens meanwhile; a second
\* look follows after Settle.
Look(b) ==
  /\ \/ tabs[b].pc = "look"
     \/ tabs[b].pc = "lookAgain" /\ now >= tabs[b].since + Settle
  /\ tabs' = [tabs EXCEPT ![b] =
       CASE MovedOn(b) -> [Resume(b) EXCEPT !.access = store.access]
         [] ~MovedOn(b) /\ AfterLook(b) = "clearAccess" -> Expired(b)
         [] OTHER -> [tabs[b] EXCEPT !.pc = "lookAgain", !.since = now]]
  /\ UNCHANGED <<serverVars, store, loss>>

\* The session has expired: clearTokens, then clearLocalSession.
ClearAccess(b) ==
  /\ tabs[b].pc = "clearAccess"
  /\ store' = [store EXCEPT !.access = None]
  /\ tabs' = [tabs EXCEPT ![b].pc = "clearRefresh", ![b].access = None]
  /\ UNCHANGED <<serverVars, loss>>

ClearRefresh(b) ==
  /\ tabs[b].pc = "clearRefresh"
  /\ store' = [store EXCEPT !.refresh = None]
  /\ Goto(b, "wipe")
  /\ UNCHANGED <<serverVars, loss>>

\* clearLocalSession deletes the tokens once more and the session's secrets.
Wipe(b) ==
  /\ tabs[b].pc = "wipe"
  /\ store' = [access |-> None, refresh |-> None, user |-> FALSE]
  /\ tabs' = [tabs EXCEPT ![b] = [Settled(tabs[b]) EXCEPT !.in = FALSE, !.access = None]]
  /\ UNCHANGED <<serverVars, loss>>

\* AuthService.logout reads the token it will revoke; without one it only wipes.
StartLogout(b) ==
  /\ tabs[b].pc = "idle" /\ tabs[b].in
  /\ tabs' = [tabs EXCEPT ![b].pc = IF store.refresh = None THEN "outAccess" ELSE "send",
                          ![b].held = store.refresh]
  /\ UNCHANGED <<serverVars, store, loss>>

\* Mutant: the retry after a refresh revokes the token that was rotated away.
RevokesHeld(b) == tabs[b].held

\* The retry sends the token stored now, the first attempt the one read before.
Revokes(b) == IF tabs[b].pc = "resend" THEN store.refresh ELSE tabs[b].held

\* POST logout: a valid access token gets to the handler, an expired one a refresh.
SendLogout(b) ==
  /\ tabs[b].pc \in {"send", "resend"}
  /\ IF AccessValid(tabs[b].access)
       THEN /\ IF Revokes(b) = None THEN UNCHANGED <<expires, revoked>>
                                    ELSE DeleteSession(Revokes(b))
            /\ Goto(b, "outAccess")
            /\ UNCHANGED <<srv, loss>>
       ELSE /\ IF tabs[b].pc = "send" THEN StartRefresh(b, "logout")
                                      ELSE Goto(b, "outAccess") /\ UNCHANGED srv
            /\ loss' = (loss \/ tabs[b].pc = "resend")
            /\ UNCHANGED <<expires, revoked>>
  /\ UNCHANGED <<now, signed, retired, failed, store>>

\* logout wipes the tab and the storage whatever the server said.
OutAccess(b) ==
  /\ tabs[b].pc = "outAccess"
  /\ store' = [store EXCEPT !.access = None]
  /\ tabs' = [tabs EXCEPT ![b].pc = "wipe", ![b].access = None]
  /\ UNCHANGED <<serverVars, loss>>

\* The connection breaks: the tab gives the request up, the server carries on with
\* a refresh.  One flow is lost in a behaviour, here or by closing the tab.
Break(b) ==
  /\ ~loss /\ ~failed
  /\ tabs[b].pc \in {"wait", "send", "resend"}
  /\ tabs' = [tabs EXCEPT ![b] = IF tabs[b].pc = "wait" /\ tabs[b].then = "request"
                                   THEN Settled(tabs[b])
                                   ELSE [tabs[b] EXCEPT !.pc = "outAccess", !.slot = None]]
  /\ loss' = TRUE
  /\ UNCHANGED <<serverVars, store>>

\* The tab is closed or reloaded in the middle of a flow.
Close(b) ==
  /\ ~loss /\ ~failed
  /\ tabs[b].pc \notin {"new", "closed", "idle"}
  /\ tabs' = [tabs EXCEPT ![b] = Closed]
  /\ loss' = TRUE
  /\ UNCHANGED <<serverVars, store>>

\* An answer nobody waits for.
Discard(s) ==
  /\ Answered(s)
  /\ \A b \in Tabs : tabs[b].slot # s
  /\ srv' = [srv EXCEPT ![s] = Free]
  /\ UNCHANGED <<now, signed, expires, retired, revoked, failed, store, tabs, loss>>

\* Time waits for refreshes that are due.
Tick ==
  /\ \A b \in Tabs : tabs[b].pc \in {"wait", "storeAccess", "storeRefresh"}
                       => now < tabs[b].since + MaxDelay
  /\ Advance
  /\ UNCHANGED clientVars

TabStep(b) ==
  \/ Open(b) \/ Login(b) \/ Unauthorized(b) \/ TakeAnswer(b)
  \/ StoreAccess(b) \/ StoreRefresh(b) \/ Look(b)
  \/ ClearAccess(b) \/ ClearRefresh(b) \/ Wipe(b)
  \/ StartLogout(b) \/ SendLogout(b) \/ OutAccess(b) \/ Break(b) \/ Close(b)

Next ==
  \/ \E b \in Tabs : TabStep(b)
  \/ \E s \in Slots :
       Discard(s) \/ ((ServerStep(s) \/ (~loss /\ Fail(s))) /\ UNCHANGED clientVars)
  \/ Tick

Spec == Init /\ [][Next]_vars

-----------------------------------------------------------------------------
\* Every variable has its type.
TypeOK ==
  /\ ServerTypeOK
  /\ store \in [access : Tokens \cup {None}, refresh : Tokens \cup {None}, user : BOOLEAN]
  /\ loss \in BOOLEAN
  /\ tabs \in [Tabs ->
       [pc : {"new", "closed", "idle", "wait", "storeAccess", "storeRefresh", 
              "look", "lookAgain", "clearAccess", "clearRefresh", "wipe", "send", "resend",
              "outAccess"},
        access : Tokens \cup {None}, in : BOOLEAN, then : {None, "request", "logout"},
        held : Tokens \cup {None}, fresh : Tokens \cup {None},
        slot : Slots \cup {None}, since : 0 .. MaxTime]]

\* Nothing has happened yet that ends a session: no answer was lost, nobody has logged
\* out and no token has reached its age.
Quiet ==
  /\ ~loss /\ revoked = {}
  /\ \A t \in Tokens : signed[t] > 0 => Genuine(t)

\* A tab signs the user out for a rejected refresh only when the stored session is
\* over, because a logout, its own age or a lost answer ended one: tabs that race on
\* one token never end the session that one of them has just renewed.
SignedOutForCause ==
  [][\A b \in Tabs :
       tabs[b].pc \in {"look", "lookAgain"} /\ tabs'[b].pc = "clearAccess"
         => /\ store.refresh = None \/ ~Live(store.refresh)
            /\ ~Quiet]_vars

\* A logout the server has answered leaves no session that outlives the grace
\* period, when one tab is used and every answer arrived.
LogoutRevokes ==
  [][\A b \in Tabs :
       /\ revoked' # revoked
       /\ tabs[b].pc \in {"send", "resend"} /\ tabs'[b].pc = "outAccess"
       /\ ~loss /\ ~failed /\ \A c \in Tabs \ {b} : tabs[c].pc = "new"
       => \A t \in Tokens : expires'[t] <= now + Grace]_vars
=============================================================================
