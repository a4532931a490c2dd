------------------------------ MODULE Extension ------------------------------
(***************************************************************************)
(* The background of the browser extension: one thread that leaves every   *)
(* handler at every await, in a service worker that the browser ends at    *)
(* any moment.  The unlocked session is in memory and in storage.session,  *)
(* the login (account, refresh token, PIN) in storage.local; the alarms    *)
(* outlive the worker.  A step is the code between two awaits that other   *)
(* handlers can tell apart; reading the auto-lock setting and the call on  *)
(* the alarm that follows are one, since the calls on a storage area are   *)
(* answered in order: of two handlers the last to read is the last to set  *)
(* the alarm.                                                              *)
(***************************************************************************)
EXTENDS Naturals

CONSTANTS
  MaxTries,    \* DEFAULT_PIN_MAX_TRIES
  MaxTokens,   \* bound on the refresh tokens issued
  MaxKills     \* bound on the ends of the worker

ASSUME ExtensionConstants == MaxTries \in Nat \ {0} /\ MaxTokens \in Nat /\ MaxKills \in Nat

VARIABLES
  mem,         \* the unlocked session in memory
  stored,      \* its copy in storage.session
  restoring,   \* a new worker has read the copy and has not decided yet
  idle,        \* the last activity is longer ago than the limit, or is not recorded
  limit,       \* the auto-lock is set to a time
  change,      \* it has changed, and no handler has set the alarm since
  alarm,       \* the auto-lock alarm is armed
  account,     \* the encrypted keys of the login in storage.local
  token,       \* the refresh token there
  pin,         \* the PIN record there
  refresh,     \* inflightRefresh
  unlock,      \* the unlock under way
  logout,      \* the LOGOUT under way
  issued, accepted, retired,   \* the server's refresh tokens, while someone holds them
  kills,
  opened,      \* an unlock has opened the vault, and nothing has locked it since
  cut,         \* the worker ended before it armed the alarm of an open vault
  lost,        \* the device missed the answer to its last rotation or logout
  guesses      \* wrong PINs tried on the PIN record

session == <<mem, stored, idle, alarm, opened, cut>>
login == <<account, token, pin>>
setting == <<limit, change>>
server == <<issued, accepted, retired>>
vars == <<session, login, server, restoring, setting, refresh, unlock, logout,
          kills, lost, guesses>>

NoToken == 0
NoPin == [on |-> FALSE, count |-> 0]
NoRefresh == [pc |-> "none", old |-> NoToken, new |-> NoToken]
NoUnlock == [pc |-> "none", by |-> "password", count |-> 0, other |-> FALSE]
NoLogout == [pc |-> "none", token |-> NoToken]

Init ==
  /\ mem = FALSE /\ stored = FALSE /\ restoring = FALSE
  /\ idle = TRUE /\ limit = TRUE /\ change = FALSE /\ alarm = FALSE
  /\ account = FALSE /\ token = NoToken /\ pin = NoPin
  /\ refresh = NoRefresh /\ unlock = NoUnlock /\ logout = NoLogout
  /\ issued = 0 /\ accepted = {} /\ retired = {}
  /\ kills = 0 /\ opened = FALSE /\ cut = FALSE /\ lost = FALSE /\ guesses = 0

\* Mutant: handlers start beside a restore.
ReadyAtOnce == TRUE

\* A handler starts when ensureSessionRestored has returned.
Ready == ~restoring /\ (stored => mem)

\* loadAccount finds a login.
SignedIn == account /\ token # NoToken

\* lockVault.
LockVault ==
  /\ mem' = FALSE /\ stored' = FALSE /\ alarm' = FALSE /\ idle' = TRUE
  /\ opened' = FALSE /\ cut' = FALSE

\* endLogin.
EndLogin ==
  /\ LockVault
  /\ account' = FALSE /\ token' = NoToken /\ pin' = NoPin

-----------------------------------------------------------------------------
(* The server                                                              *)

\* Of the tokens the server takes, all or of late ones, those are followed that are held.
Follow(all, late, held) == accepted' = all \cap held /\ retired' = late \cap held

\* Refresh answers a token it knows with a new one and retires the old one; see TokenServer.
Rotate ==
  /\ refresh.pc = "sent" /\ refresh.old \in accepted /\ issued < MaxTokens
  /\ issued' = issued + 1
  /\ accepted' = accepted \cup {issued'}
  /\ retired' = retired \cup {refresh.old}
  /\ refresh' = [refresh EXCEPT !.pc = "rotated", !.new = issued']
  /\ UNCHANGED <<session, login, restoring, setting, unlock, logout, kills, lost, guesses>>

Refuse ==
  /\ refresh.pc = "sent" /\ refresh.old \notin accepted
  /\ refresh' = [refresh EXCEPT !.pc = "refused"]
  /\ UNCHANGED <<session, login, server, restoring, setting, unlock, logout, kills, lost,
                 guesses>>

\* The grace period of the retired tokens ends.
GraceEnds ==
  /\ retired # {}
  /\ accepted' = accepted \ retired
  /\ retired' = {}
  /\ UNCHANGED <<session, login, issued, restoring, setting, refresh, unlock, logout,
                 kills, lost, guesses>>

\* revokeServerSession at the server: an open vault revokes its token, a locked one (or one
\* whose access token runs out) trades it first and revokes the new one, which it keeps
\* nowhere.
Revoke ==
  /\ logout.pc = "revoking" /\ logout.token \in accepted
  /\ \/ mem /\ accepted' = accepted \ {logout.token} /\ UNCHANGED retired
     \/ retired' = retired \cup {logout.token} /\ UNCHANGED accepted
  /\ logout' = [logout EXCEPT !.pc = "revoked"]
  /\ UNCHANGED <<session, login, issued, restoring, setting, refresh, unlock,
                 kills, lost, guesses>>

-----------------------------------------------------------------------------
(* refreshTokens                                                           *)

\* doRefresh is started, or the one in flight is joined.
Send ==
  \/ /\ refresh.pc = "none" /\ SignedIn
     /\ refresh' = [pc |-> "sent", old |-> token, new |-> NoToken]
  \/ refresh.pc # "none" /\ UNCHANGED refresh

\* The refresh alarm, or a call to the server whose access token runs out.
WantToken ==
  /\ Ready /\ mem /\ refresh.pc = "none"
  /\ \/ Send /\ UNCHANGED <<session, login>>
     \/ ~SignedIn /\ EndLogin /\ UNCHANGED refresh
  /\ UNCHANGED <<server, restoring, setting, unlock, logout, kills, lost, guesses>>

\* Mutant: a token that arrives after a lock is not stored.
SaveTokenOfOpenVault ==
  /\ refresh.pc = "rotated"
  /\ token' = IF mem THEN refresh.new ELSE token
  /\ refresh' = [refresh EXCEPT !.pc = "saved"]
  /\ lost' = FALSE
  /\ UNCHANGED <<session, account, pin, server, restoring, setting, unlock, logout,
                 kills, guesses>>

\* doRefresh, the answer: saveRefreshToken comes first.
SaveToken ==
  /\ refresh.pc = "rotated"
  /\ token' = refresh.new
  /\ refresh' = [refresh EXCEPT !.pc = "saved"]
  /\ lost' = FALSE
  /\ Follow(accepted, retired, {refresh.new, logout.token})
  /\ UNCHANGED <<session, account, pin, issued, restoring, setting, unlock, logout,
                 kills, guesses>>

\* doRefresh, the rest: a live session is stored with its new access token, and an unlock
\* that waits opens the vault (setSession of buildSession).
UseToken ==
  /\ refresh.pc = "saved"
  /\ refresh' = NoRefresh
  /\ IF unlock.pc = "waiting"
       THEN /\ mem' = TRUE /\ stored' = TRUE /\ opened' = TRUE
            /\ unlock' = [unlock EXCEPT !.pc = "arming"]
       ELSE stored' = (stored \/ mem) /\ UNCHANGED <<mem, opened, unlock>>
  /\ UNCHANGED <<idle, alarm, cut, login, server, restoring, setting, logout,
                 kills, lost, guesses>>

\* The request or its answer is lost, or the server fails: nothing is cleared, and a
\* waiting PIN unlock gives its try back.
RefreshFails ==
  /\ refresh.pc \in {"sent", "rotated"}
  /\ refresh' = NoRefresh
  /\ lost' = (lost \/ refresh.pc = "rotated")
  /\ IF unlock.pc = "waiting"
       THEN /\ unlock' = NoUnlock
            /\ pin' = IF unlock.by = "pin" THEN [pin EXCEPT !.count = unlock.count] ELSE pin
       ELSE UNCHANGED <<unlock, pin>>
  /\ UNCHANGED <<session, account, token, server, restoring, setting, logout, kills, guesses>>

\* 401: the device is signed out.
SignOut ==
  /\ refresh.pc = "refused"
  /\ refresh' = NoRefresh
  /\ EndLogin
  /\ unlock' = IF unlock.pc = "waiting" THEN NoUnlock ELSE unlock
  /\ UNCHANGED <<server, restoring, setting, logout, kills, lost, guesses>>

-----------------------------------------------------------------------------
(* Login, unlock and PIN                                                   *)

\* LOGIN and VERIFY_TOTP.
Login ==
  /\ Ready /\ ~SignedIn /\ issued < MaxTokens
  /\ issued' = issued + 1
  /\ Follow(accepted \cup {issued'}, retired, {issued', refresh.old, refresh.new, logout.token})
  /\ account' = TRUE /\ token' = issued' /\ lost' = FALSE
  /\ UNCHANGED <<session, pin, restoring, setting, refresh, unlock, logout,
                 kills, guesses>>

\* UNLOCK, which the popup offers while the vault is locked and one at a time.
StartUnlock ==
  /\ Ready /\ ~mem /\ SignedIn /\ unlock = NoUnlock
  /\ unlock' = [NoUnlock EXCEPT !.pc = "deriving"]
  /\ UNCHANGED <<session, login, server, restoring, setting, refresh, logout,
                 kills, lost, guesses>>

\* buildSession starts with refreshTokens; the login may be gone by now.
Build ==
  \/ Send /\ unlock' = [unlock EXCEPT !.pc = "waiting"] /\ UNCHANGED <<session, login>>
  \/ /\ refresh.pc = "none" /\ ~SignedIn
     /\ EndLogin /\ unlock' = NoUnlock /\ UNCHANGED refresh

\* UNLOCK, the master password, which may be wrong.
Derive ==
  /\ unlock.pc = "deriving"
  /\ \/ Build
     \/ unlock' = NoUnlock /\ UNCHANGED <<session, login, refresh>>
  /\ UNCHANGED <<server, restoring, setting, logout, kills, lost, guesses>>

\* UNLOCK_WITH_PIN reads the record and the login; past the interval it ends here.
StartPin ==
  /\ Ready /\ ~mem /\ SignedIn /\ pin.on /\ unlock = NoUnlock
  /\ unlock' = [pc |-> "counting", by |-> "pin", count |-> pin.count, other |-> FALSE]
  /\ UNCHANGED <<session, login, server, restoring, setting, refresh, logout,
                 kills, lost, guesses>>

\* UNLOCK_WITH_PIN counts the attempt before it makes it.
CountAttempt ==
  /\ unlock.pc = "counting"
  /\ pin' = [pin EXCEPT !.count = unlock.count + 1]
  /\ unlock' = [unlock EXCEPT !.pc = "trying"]
  /\ UNCHANGED <<session, account, token, server, restoring, setting, refresh, logout,
                 kills, lost, guesses>>

\* Mutant: one attempt too many.
LastTryLate(count) == count + 1 > MaxTries

LastTry(count) == count + 1 >= MaxTries

\* UNLOCK_WITH_PIN, the attempt on the record it has read.
TryPin ==
  /\ unlock.pc = "trying"
  /\ \/ Build /\ UNCHANGED guesses
     \/ /\ unlock' = NoUnlock
        /\ guesses' = IF unlock.other THEN guesses ELSE guesses + 1
        /\ IF LastTry(unlock.count)
             THEN pin' = NoPin /\ LockVault /\ UNCHANGED <<account, token>>
             ELSE UNCHANGED <<session, login>>
        /\ UNCHANGED refresh
  /\ UNCHANGED <<server, restoring, setting, logout, kills, lost>>

\* buildSession, scheduleAutoLock.
Arm ==
  /\ unlock.pc = "arming"
  /\ idle' = FALSE /\ alarm' = limit
  /\ unlock' = [unlock EXCEPT !.pc = "listing"]
  /\ UNCHANGED <<mem, stored, opened, cut, login, server, restoring, setting, refresh, logout,
                 kills, lost, guesses>>

\* The entries are loaded, unless the vault is closed meanwhile, and the count starts anew.
EndUnlock ==
  /\ unlock.pc = "listing"
  /\ unlock' = NoUnlock
  /\ \/ pin' = [pin EXCEPT !.count = 0] /\ guesses' = 0
     \/ (~SignedIn \/ ~mem) /\ UNCHANGED <<pin, guesses>>
  /\ UNCHANGED <<session, account, token, server, restoring, setting, refresh, logout,
                 kills, lost>>

\* SET_PIN: a new record.
SetPin ==
  /\ Ready /\ SignedIn
  /\ pin' = [on |-> TRUE, count |-> 0] /\ guesses' = 0
  /\ unlock' = IF unlock = NoUnlock THEN unlock ELSE [unlock EXCEPT !.other = TRUE]
  /\ UNCHANGED <<session, account, token, server, restoring, setting, refresh, logout,
                 kills, lost>>

DisablePin ==
  /\ Ready /\ pin.on
  /\ pin' = NoPin
  /\ UNCHANGED <<session, account, token, server, restoring, setting, refresh, unlock, logout,
                 kills, lost, guesses>>

-----------------------------------------------------------------------------
(* Lock, logout and the auto-lock                                          *)

Lock ==
  /\ Ready /\ mem
  /\ LockVault
  /\ UNCHANGED <<login, server, restoring, setting, refresh, unlock, logout,
                 kills, lost, guesses>>

\* LOGOUT reads the login and asks the server for at most five seconds.
StartLogout ==
  /\ Ready /\ SignedIn /\ logout = NoLogout
  /\ logout' = [pc |-> "revoking", token |-> token]
  /\ UNCHANGED <<session, login, server, restoring, setting, refresh, unlock,
                 kills, lost, guesses>>

FinishLogout ==
  /\ logout # NoLogout
  /\ logout' = NoLogout
  /\ EndLogin
  /\ UNCHANGED <<server, restoring, setting, refresh, unlock, kills, lost, guesses>>

\* A message that counts as activity.
Use ==
  /\ Ready /\ mem /\ idle
  /\ idle' = FALSE
  /\ UNCHANGED <<mem, stored, alarm, opened, cut, login, server, restoring, setting, refresh,
                 unlock, logout, kills, lost, guesses>>

Wait ==
  /\ ~idle
  /\ idle' = TRUE
  /\ UNCHANGED <<mem, stored, alarm, opened, cut, login, server, restoring, setting, refresh,
                 unlock, logout, kills, lost, guesses>>

\* The auto-lock setting is written to storage.sync by another page, or by another device.
SetLimit ==
  /\ limit' = ~limit /\ change' = TRUE
  /\ UNCHANGED <<session, login, server, restoring, refresh, unlock, logout, kills, lost,
                 guesses>>

\* storage.onChanged: an open vault is touched, which is a Use, and by scheduleAutoLock gets
\* its alarm or loses it; if it is locked in between, the alarm is set for nothing.
Rearm ==
  /\ Ready /\ change
  /\ change' = FALSE /\ cut' = FALSE
  /\ alarm' \in IF mem THEN {limit} ELSE {limit, alarm}
  /\ UNCHANGED <<mem, stored, idle, opened, login, server, restoring, limit, refresh, unlock,
                 logout, kills, lost, guesses>>

\* Mutant: the worker's memory alone says whether there is a session to lock.
AutoLockOfMemory ==
  /\ alarm
  /\ \/ (~limit \/ ~mem) /\ alarm' = FALSE /\ UNCHANGED <<mem, stored, idle, opened, cut>>
     \/ limit /\ mem /\ idle /\ LockVault
  /\ UNCHANGED <<login, server, restoring, setting, refresh, unlock, logout,
                 kills, lost, guesses>>

\* The tick of the auto-lock alarm: maybeAutoLock.
AutoLock ==
  /\ Ready /\ alarm
  /\ \/ (~limit \/ ~mem) /\ alarm' = FALSE /\ UNCHANGED <<mem, stored, idle, opened, cut>>
     \/ limit /\ mem /\ idle /\ LockVault
  /\ UNCHANGED <<login, server, restoring, setting, refresh, unlock, logout,
                 kills, lost, guesses>>

-----------------------------------------------------------------------------
(* The worker                                                              *)

\* ensureSessionRestored, for any event that finds the memory empty.
StartRestore ==
  /\ ~mem /\ stored /\ ~restoring
  /\ restoring' = TRUE
  /\ UNCHANGED <<session, login, server, setting, refresh, unlock, logout, kills, lost, guesses>>

FinishRestore ==
  /\ restoring
  /\ restoring' = FALSE
  /\ \/ limit /\ idle /\ LockVault
     \/ ~(limit /\ idle) /\ mem' = TRUE /\ UNCHANGED <<stored, idle, alarm, opened, cut>>
  /\ UNCHANGED <<login, server, setting, refresh, unlock, logout, kills, lost, guesses>>

\* The worker ends with all its handlers; a request that was sent may still be served, and
\* an event that was not handed over yet starts the next worker.
End ==
  /\ kills < MaxKills /\ kills' = kills + 1
  /\ mem' = FALSE /\ restoring' = FALSE
  /\ refresh' = NoRefresh /\ unlock' = NoUnlock /\ logout' = NoLogout
  /\ \E late \in SUBSET ({refresh.old} \cap accepted) :
       /\ late # {} => refresh.pc = "sent"
       /\ Follow(accepted, retired \cup late, {token})
       /\ lost' = (lost \/ refresh.pc = "rotated" \/ logout # NoLogout \/ late # {})
  /\ change' \in {FALSE, change}
  /\ UNCHANGED <<login, issued, limit, guesses>>

Kill ==
  /\ End
  /\ cut' = (cut \/ (stored /\ limit /\ (unlock.pc = "arming" \/ change' # change)))
  /\ UNCHANGED <<stored, idle, alarm, opened>>

\* storage.session goes with the browser; alarms may stay.
CloseBrowser ==
  /\ End
  /\ stored' = FALSE /\ idle' = TRUE /\ opened' = FALSE /\ cut' = FALSE
  /\ alarm' \in {alarm, FALSE}

-----------------------------------------------------------------------------
Refreshes == WantToken \/ SaveToken \/ UseToken \/ RefreshFails \/ SignOut
Unlocks == StartUnlock \/ Derive \/ StartPin \/ CountAttempt \/ TryPin \/ Arm \/ EndUnlock
Messages == Login \/ SetPin \/ DisablePin \/ Lock \/ StartLogout \/ FinishLogout \/ Use
Settings == SetLimit \/ Rearm
Server == Rotate \/ Refuse \/ GraceEnds \/ Revoke
Worker == StartRestore \/ FinishRestore \/ Kill \/ CloseBrowser

Next == Refreshes \/ Unlocks \/ Messages \/ Settings \/ Server \/ Worker \/ Wait \/ AutoLock

\* The browser fires an armed alarm and hands over a change of the setting, either of which
\* starts the worker, and what has begun goes on.
Fairness ==
  /\ WF_vars((alarm \/ change) /\ StartRestore) /\ WF_vars(FinishRestore)
  /\ WF_vars(AutoLock) /\ WF_vars(Arm) /\ WF_vars(Rearm)

Spec == Init /\ [][Next]_vars
FairSpec == Spec /\ Fairness

-----------------------------------------------------------------------------
(* Properties                                                              *)

PinType == [on : BOOLEAN, count : Nat]
RefreshType ==
  [pc : {"none", "sent", "rotated", "refused", "saved"}, old : Nat, new : Nat]
UnlockType ==
  [pc : {"none", "deriving", "counting", "trying", "waiting", "arming", "listing"},
   by : {"password", "pin"}, count : Nat, other : BOOLEAN]
LogoutType == [pc : {"none", "revoking", "revoked"}, token : Nat]

TypeOK ==
  /\ mem \in BOOLEAN /\ stored \in BOOLEAN /\ restoring \in BOOLEAN /\ idle \in BOOLEAN
  /\ limit \in BOOLEAN /\ alarm \in BOOLEAN /\ account \in BOOLEAN
  /\ opened \in BOOLEAN /\ cut \in BOOLEAN /\ lost \in BOOLEAN
  /\ change \in BOOLEAN
  /\ token \in Nat /\ issued \in Nat /\ kills \in Nat /\ guesses \in Nat
  /\ accepted \subseteq Nat /\ retired \subseteq Nat
  /\ pin \in PinType /\ refresh \in RefreshType
  /\ unlock \in UnlockType /\ logout \in LogoutType

\* After a lock nothing but a new unlock opens the vault: no restore that was under way, no
\* refresh that answers late (message-handler.ts, ensureSessionRestored; vault-client.ts,
\* doRefresh).
OnlyUnlockOpens == mem \/ stored => opened

\* The worker can end at any moment of an attempt: a PIN record still sees no more wrong
\* PINs than it allows (message-handler.ts, UNLOCK_WITH_PIN).
GuessesAreBounded == guesses <= MaxTries

\* Wherever a lock, a logout or the end of the worker comes, the token the device keeps is
\* one the server takes, unless an answer of the server did not arrive (vault-client.ts,
\* doRefresh).
TokenIsKept ==
  SignedIn /\ refresh.pc \in {"none", "saved"} /\ logout = NoLogout /\ ~lost => token \in accepted

\* A vault that is not used gets locked, also when the worker that armed the alarm is long
\* gone, and when the setting was "never" before (message-handler.ts, maybeAutoLock;
\* service-worker.ts, storage.onChanged), unless a worker ended before it armed the alarm,
\* after an unlock or a change of the setting.
IdleVaultLocks ==
  []<>(~stored \/ ~idle \/ ~limit \/ cut)
=============================================================================
