----------------------------- MODULE CommandLine -----------------------------
(***************************************************************************)
(* The processes of the command line and of its terminal interface on one  *)
(* machine, for one account.  Each loads the configuration file when it    *)
(* starts, works on its copy, and saves the whole copy back: the refresh   *)
(* token after a rotation, the key pairs after an upgrade, the PIN with    *)
(* its count of wrong guesses, the preferences.  A process can be killed   *)
(* between any two steps, and a call can be refused or lose its answer.    *)
(*                                                                         *)
(* An ML-KEM key pair is a number; Placeholder is what an account made by  *)
(* the app holds instead, and the data keys wrapped for such an account    *)
(* are classical: X25519 alone opens them.  X25519 never changes.          *)
(***************************************************************************)
EXTENDS Integers, FiniteSets

CONSTANTS
  Procs,        \* processes that can run at a time
  Entries,      \* the entries the account can ever hold
  ReadOnly,     \* those shared with it for reading
  MaxTries,     \* DefaultPINMaxTries
  AskedDays,    \* what users type as the interval of the PIN
  MaxKeys,      \* bound on key pairs made
  MaxTokens,    \* bound on refresh tokens issued
  MaxDay,       \* bound on the clock, in days
  MaxFaults     \* bound on kills, refused calls and lost answers

Placeholder == 0
NoAccount == -1
Locked == -1
Unmade == -1

ASSUME CommandLineConstants ==
  /\ ReadOnly \subseteq Entries
  /\ MaxTries \in Nat \ {0} /\ AskedDays \subseteq Int
  /\ MaxKeys \in Nat \ {0} /\ MaxTokens \in Nat /\ MaxDay \in Nat \ {0} /\ MaxFaults \in Nat

VARIABLES
  server,     \* the account: its ML-KEM public key, sessions, counters
  wrap,       \* the key pair each entry's data key is wrapped for
  disk,       \* the configuration file
  proc,       \* the processes
  day, faults,
  guesses,    \* wrong PINs typed since the count was last cleared
  typed,      \* when the master password was last accepted
  cut         \* a rotation or a logout was cut off halfway

vars == <<server, wrap, disk, proc, day, faults, guesses, typed, cut>>

NoPin == [on |-> FALSE, fails |-> 0, days |-> 0, last |-> 0]
NoConfig == [token |-> 0, kem |-> Placeholder, pin |-> NoPin, prefs |-> FALSE]

Off == [pc |-> "off", cfg |-> NoConfig, open |-> Locked, authed |-> FALSE,
        new |-> Placeholder, todo |-> {}]

Init ==
  /\ \/ /\ server = [kem |-> NoAccount, live |-> {}, grace |-> {}, issued |-> 0, made |-> 0]
        /\ wrap = [e \in Entries |-> Unmade]
     \/ /\ server = [kem |-> Placeholder, live |-> {}, grace |-> {}, issued |-> 0, made |-> 0]
        /\ wrap \in {w \in [Entries -> {Unmade, Placeholder}] :
                       \A e \in ReadOnly : w[e] = Placeholder}
  /\ disk = NoConfig
  /\ proc = [p \in Procs |-> Off]
  /\ day = 1 /\ faults = 0
  /\ guesses = 0 /\ typed = 0 /\ cut = FALSE

-----------------------------------------------------------------------------
(* Faults                                                                   *)

Fault == faults < MaxFaults /\ faults' = faults + 1
NoFault == UNCHANGED faults

\* The process ends, at a prompt (pc = "ready") or killed in the middle of something.
Exit(p) ==
  /\ proc[p].pc # "off"
  /\ IF proc[p].pc = "ready" THEN NoFault ELSE Fault
  /\ proc' = [proc EXCEPT ![p] = Off]
  /\ cut' = (cut \/ proc[p].pc \in {"rotated", "revoked"})
  /\ UNCHANGED <<server, wrap, disk, day, guesses, typed>>

\* Nobody takes days over a step.
Advance ==
  /\ day < MaxDay
  /\ \A p \in Procs : proc[p].pc \in {"off", "ready"}
  /\ day' = day + 1
  /\ UNCHANGED <<server, wrap, disk, proc, faults, guesses, typed, cut>>

\* The grace period of the rotated tokens ends (see TokenServer).
GraceEnds ==
  /\ server.grace # {}
  /\ server' = [server EXCEPT !.grace = {}]
  /\ UNCHANGED <<wrap, disk, proc, day, faults, guesses, typed, cut>>

-----------------------------------------------------------------------------
(* Starting, sessions                                                       *)

\* initConfig: the file is read once, at the start.
Start(p) ==
  /\ proc[p] = Off
  /\ proc' = [proc EXCEPT ![p] = [Off EXCEPT !.pc = "ready", !.cfg = disk]]
  /\ UNCHANGED <<server, wrap, disk, day, faults, guesses, typed, cut>>

Ready(p) == proc[p].pc = "ready"
IsLoggedIn(p) == proc[p].cfg.token # 0

\* Config.Save: the whole copy, over whatever the file holds.
Saved(cfg) == disk' = cfg

\* The server's answer to a login or a registration: a session and the account's keys.
\* Everything else of the configuration is new as well.
FreshConfig(token, kem) == [NoConfig EXCEPT !.token = token, !.kem = kem]

Issue(s) == [s EXCEPT !.live = @ \cup {s.issued + 1}, !.issued = @ + 1]

LoggedIn(p, s) ==
  /\ server' = s
  /\ \/ /\ proc' = [proc EXCEPT ![p] = [Off EXCEPT !.pc = "answered",
                                                   !.cfg = FreshConfig(s.issued, s.kem)]]
        /\ NoFault
     \/ Fault /\ UNCHANGED proc       \* the answer is lost
  /\ UNCHANGED <<wrap, disk, day, guesses, typed, cut>>

Login(p) ==
  /\ Ready(p) /\ server.kem # NoAccount /\ server.issued < MaxTokens
  /\ LoggedIn(p, Issue(server))

\* register, setup and the terminal's registration: the account gets hybrid keys.
Register(p) ==
  /\ Ready(p) /\ server.kem = NoAccount /\ server.issued < MaxTokens /\ server.made < MaxKeys
  /\ LoggedIn(p, Issue([server EXCEPT !.kem = server.made + 1, !.made = @ + 1]))

SaveLogin(p) ==
  /\ proc[p].pc = "answered"
  /\ proc' = [proc EXCEPT ![p].pc = "ready"]
  /\ Saved(proc[p].cfg)
  /\ guesses' = 0
  /\ UNCHANGED <<server, wrap, day, faults, typed, cut>>

\* Vault.Authenticate, the call.  A rotated token still works for the grace period.
Refresh(p) ==
  /\ Ready(p) /\ IsLoggedIn(p) /\ server.issued < MaxTokens
  /\ LET t == proc[p].cfg.token
         s == Issue([server EXCEPT !.live = @ \ {t},
                                   !.grace = IF t \in server.live THEN @ \cup {t} ELSE @])
     IN  \/ /\ t \in server.live \cup server.grace
            /\ server' = s
            /\ proc' = [proc EXCEPT ![p].pc = "rotated", ![p].authed = TRUE, ![p].cfg.token = s.issued]
            /\ NoFault /\ UNCHANGED cut
         \/ /\ t \in server.live \cup server.grace
            /\ server' = s
            /\ Fault /\ cut' = TRUE /\ UNCHANGED proc
         \/ /\ t \notin server.live \cup server.grace
            /\ NoFault /\ UNCHANGED <<server, proc, cut>>
  /\ UNCHANGED <<wrap, disk, day, guesses, typed>>

\* Mutant: the rotated token stays in memory.
SaveSessionInMemory(p) ==
  /\ proc[p].pc = "rotated"
  /\ proc' = [proc EXCEPT ![p].pc = "ready"]
  /\ UNCHANGED <<server, wrap, disk, day, faults, guesses, typed, cut>>

\* Vault.Authenticate, the rest: the rotated token goes to the file.
SaveSession(p) ==
  /\ proc[p].pc = "rotated"
  /\ proc' = [proc EXCEPT ![p].pc = "ready"]
  /\ Saved(proc[p].cfg)
  /\ UNCHANGED <<server, wrap, day, faults, guesses, typed, cut>>

\* Config.Clear: the session and the PIN; the public keys and preferences stay.
Cleared(cfg) == [cfg EXCEPT !.token = 0, !.pin = NoPin]

\* logout, the call, whose outcome is ignored.  (The terminal clears first; its logout is
\* in Terminal.)
RevokeSession(p) ==
  /\ Ready(p) /\ IsLoggedIn(p)
  /\ \/ /\ server' = [server EXCEPT !.live = @ \ {proc[p].cfg.token},
                                    !.grace = @ \ {proc[p].cfg.token}]
        /\ NoFault
     \/ Fault /\ UNCHANGED server
  /\ proc' = [proc EXCEPT ![p].pc = "revoked"]
  /\ UNCHANGED <<wrap, disk, day, guesses, typed, cut>>

\* logout, the rest.
ClearSession(p) ==
  /\ proc[p].pc = "revoked"
  /\ proc' = [proc EXCEPT ![p] = [Off EXCEPT !.pc = "ready", !.cfg = Cleared(proc[p].cfg)]]
  /\ Saved(Cleared(proc[p].cfg))
  /\ guesses' = 0
  /\ UNCHANGED <<server, wrap, day, faults, typed, cut>>

\* The terminal's settings: key bindings, auto-lock, generator defaults.
ChangePreferences(p) ==
  /\ Ready(p)
  /\ proc' = [proc EXCEPT ![p].cfg.prefs = ~ @]
  /\ Saved([proc[p].cfg EXCEPT !.prefs = ~ @])
  /\ UNCHANGED <<server, wrap, day, faults, guesses, typed, cut>>

-----------------------------------------------------------------------------
(* Unlocking                                                                *)

\* Vault.decryptPrivKeys: the private keys in memory are those of the copy.
Opened(q) == [q EXCEPT !.open = q.cfg.kem]

\* Vault.onMasterUnlock.
Restarted(pin) == IF pin.on THEN [pin EXCEPT !.last = day, !.fails = 0] ELSE pin

\* Vault.Unlock with the right master password, after a refresh; with a wrong one
\* nothing changes.
Unlock(p) ==
  /\ Ready(p) /\ IsLoggedIn(p) /\ proc[p].authed
  /\ LET cfg == [proc[p].cfg EXCEPT !.pin = Restarted(@)]
     IN  /\ proc' = [proc EXCEPT ![p] = Opened([@ EXCEPT !.cfg = cfg])]
         /\ IF cfg.pin.on THEN Saved(cfg) /\ guesses' = 0 ELSE UNCHANGED <<disk, guesses>>
  /\ typed' = day
  /\ UNCHANGED <<server, wrap, day, faults, cut>>

Lock(p) ==
  /\ Ready(p) /\ proc[p].open # Locked
  /\ proc' = [proc EXCEPT ![p].open = Locked]
  /\ UNCHANGED <<server, wrap, disk, day, faults, guesses, typed, cut>>

\* ClampPINIntervalDays
ClampDays(d) == IF d < 1 THEN 1 ELSE IF d > 60 THEN 60 ELSE d

\* EnablePIN, which asks for the master password.
EnablePin(p) ==
  /\ Ready(p) /\ proc[p].open # Locked /\ ~proc[p].cfg.pin.on
  /\ \E d \in AskedDays :
       LET pin == [on |-> TRUE, fails |-> 0, days |-> ClampDays(d), last |-> day]
       IN  /\ proc' = [proc EXCEPT ![p].cfg.pin = pin]
           /\ Saved([proc[p].cfg EXCEPT !.pin = pin])
  /\ guesses' = 0 /\ typed' = day
  /\ UNCHANGED <<server, wrap, day, faults, cut>>

WithoutPin(p) ==
  /\ proc' = [proc EXCEPT ![p].pc = "ready", ![p].cfg.pin = NoPin]
  /\ Saved([proc[p].cfg EXCEPT !.pin = NoPin])

DisablePin(p) ==
  /\ Ready(p) /\ proc[p].open # Locked /\ proc[p].cfg.pin.on
  /\ WithoutPin(p)
  /\ guesses' = 0
  /\ UNCHANGED <<server, wrap, day, faults, typed, cut>>

\* PINPwExpired
Expired(pin) == pin.last = 0 \/ day > pin.last + pin.days

Counted(cfg) == [cfg EXCEPT !.pin.fails = @ + 1]

\* Mutant: the count reaches the file with the outcome of the guess.
CountGuessInMemory(p) ==
  /\ Ready(p) /\ proc[p].open = Locked
  /\ proc[p].cfg.pin.on /\ ~Expired(proc[p].cfg.pin)
  /\ proc' = [proc EXCEPT ![p].pc = "guessing", ![p].cfg = Counted(@)]
  /\ UNCHANGED <<server, wrap, disk, day, faults, guesses, typed, cut>>

\* UnlockWithPIN, before the attempt: the count is saved first.
CountGuess(p) ==
  /\ Ready(p) /\ proc[p].open = Locked
  /\ proc[p].cfg.pin.on /\ ~Expired(proc[p].cfg.pin)
  /\ proc' = [proc EXCEPT ![p].pc = "guessing", ![p].cfg = Counted(@)]
  /\ Saved(Counted(proc[p].cfg))
  /\ UNCHANGED <<server, wrap, day, faults, guesses, typed, cut>>

Forgiven(pin) == [pin EXCEPT !.fails = 0]

\* UnlockWithPIN, the right PIN: the interval goes on.
GuessRight(p) ==
  /\ proc[p].pc = "guessing"
  /\ LET cfg == [proc[p].cfg EXCEPT !.pin = Forgiven(@)]
     IN  proc' = [proc EXCEPT ![p] = Opened([@ EXCEPT !.pc = "ready", !.cfg = cfg])] /\ Saved(cfg)
  /\ guesses' = 0
  /\ UNCHANGED <<server, wrap, day, faults, typed, cut>>

\* UnlockWithPIN, a wrong PIN.
GuessWrong(p) ==
  /\ proc[p].pc = "guessing"
  /\ guesses' = guesses + 1
  /\ proc' = [proc EXCEPT ![p].pc = IF proc[p].cfg.pin.fails >= MaxTries THEN "wiping" ELSE "wrong"]
  /\ UNCHANGED <<server, wrap, disk, day, faults, typed, cut>>

AfterWrong(p) ==
  /\ \/ proc[p].pc = "wiping" /\ WithoutPin(p) /\ guesses' = 0
     \/ /\ proc[p].pc = "wrong"
        /\ proc' = [proc EXCEPT ![p].pc = "ready"]
        /\ Saved(proc[p].cfg)
        /\ UNCHANGED guesses
  /\ UNCHANGED <<server, wrap, day, faults, typed, cut>>

-----------------------------------------------------------------------------
(* Entries, and the upgrade of the keys                                     *)

\* DecryptDataKey: a classical wrapping needs X25519 alone.
Decrypts(e, kem) == wrap[e] = Placeholder \/ (wrap[e] = kem /\ kem # Placeholder)

\* CreateEntry: EncryptDataKey cannot wrap for a placeholder.
CreateEntry(p, e) ==
  /\ Ready(p) /\ proc[p].open # Locked /\ proc[p].authed
  /\ wrap[e] = Unmade /\ proc[p].cfg.kem # Placeholder
  /\ wrap' = [wrap EXCEPT ![e] = proc[p].cfg.kem]
  /\ UNCHANGED <<server, disk, proc, day, faults, guesses, typed, cut>>

\* NeedsKeyUpgrade, of the copy.
NeedsKeyUpgrade(p) == proc[p].cfg.kem = Placeholder

\* Mutant: the entries are re-wrapped before the server has the new key.
UpdateUserKeysLast(p) ==
  /\ Ready(p) /\ IsLoggedIn(p) /\ proc[p].authed /\ NeedsKeyUpgrade(p) /\ server.made < MaxKeys
  /\ LET k == server.made + 1
     IN  /\ wrap' = [e \in Entries |-> IF wrap[e] = Placeholder /\ e \notin ReadOnly THEN k ELSE wrap[e]]
         /\ \/ /\ server' = [server EXCEPT !.kem = k, !.made = k]
               /\ proc' = [proc EXCEPT ![p] = [Opened(@) EXCEPT !.pc = "sent", !.new = k]]
               /\ NoFault
            \/ /\ server' = [server EXCEPT !.made = k]
               /\ proc' = [proc EXCEPT ![p] = Opened(@)]
               /\ Fault
  /\ UNCHANGED <<disk, day, guesses, typed, cut>>

\* UpgradeToHybrid: a new key pair, sent to the server, which takes any.
UpdateUserKeys(p) ==
  /\ Ready(p) /\ IsLoggedIn(p) /\ proc[p].authed /\ NeedsKeyUpgrade(p) /\ server.made < MaxKeys
  /\ LET k == server.made + 1
     IN  \/ /\ server' = [server EXCEPT !.kem = k, !.made = k]
            /\ proc' = [proc EXCEPT ![p] = [Opened(@) EXCEPT !.pc = "sent", !.new = k]]
            /\ NoFault
         \/ /\ server' \in {[server EXCEPT !.made = k], [server EXCEPT !.kem = k, !.made = k]}
            /\ proc' = [proc EXCEPT ![p] = Opened(@)]
            /\ Fault
  /\ UNCHANGED <<wrap, disk, day, guesses, typed, cut>>

Upgraded(p) == [proc[p].cfg EXCEPT !.kem = proc[p].new]

\* UpgradeToHybrid: the new pair in the file and in memory; then the list of the entries.
SaveKeys(p) ==
  /\ proc[p].pc = "sent"
  /\ Saved(Upgraded(p))
  /\ LET q == [proc[p] EXCEPT !.cfg = Upgraded(p), !.open = proc[p].new]
     IN  \/ /\ proc' = [proc EXCEPT ![p] = [q EXCEPT !.pc = "wrapping",
                                                     !.todo = {e \in Entries : wrap[e] # Unmade}]]
            /\ NoFault
         \/ proc' = [proc EXCEPT ![p] = [q EXCEPT !.pc = "ready", !.new = Placeholder]] /\ Fault
  /\ UNCHANGED <<server, wrap, day, guesses, typed, cut>>

\* UpgradeToHybrid, one entry: opened with the old private keys, the placeholder's.  An
\* entry that cannot be opened or written is left.
Rewrap(p, e) ==
  /\ proc[p].pc = "wrapping" /\ e \in proc[p].todo
  /\ proc' = [proc EXCEPT ![p].todo = @ \ {e}]
  /\ IF Decrypts(e, Placeholder) /\ e \notin ReadOnly
       THEN \/ wrap' = [wrap EXCEPT ![e] = proc[p].new] /\ NoFault
            \/ UNCHANGED wrap /\ Fault
       ELSE UNCHANGED wrap /\ NoFault
  /\ UNCHANGED <<server, disk, day, guesses, typed, cut>>

FinishUpgrade(p) ==
  /\ proc[p].pc = "wrapping" /\ proc[p].todo = {}
  /\ proc' = [proc EXCEPT ![p].pc = "ready", ![p].new = Placeholder]
  /\ UNCHANGED <<server, wrap, disk, day, faults, guesses, typed, cut>>

-----------------------------------------------------------------------------
Sessions(p) ==
  \/ Start(p) \/ Exit(p) \/ Login(p) \/ Register(p) \/ SaveLogin(p)
  \/ Refresh(p) \/ SaveSession(p) \/ RevokeSession(p) \/ ClearSession(p)
  \/ ChangePreferences(p)

Unlocking(p) ==
  \/ Unlock(p) \/ Lock(p) \/ EnablePin(p) \/ DisablePin(p)
  \/ CountGuess(p) \/ GuessRight(p) \/ GuessWrong(p) \/ AfterWrong(p)

Upgrading(p) ==
  \/ UpdateUserKeys(p) \/ SaveKeys(p) \/ FinishUpgrade(p)
  \/ \E e \in Entries : CreateEntry(p, e) \/ Rewrap(p, e)

Next ==
  \/ \E p \in Procs : Sessions(p) \/ Unlocking(p) \/ Upgrading(p)
  \/ Advance \/ GraceEnds

Spec == Init /\ [][Next]_vars

-----------------------------------------------------------------------------
(* Properties                                                               *)

Pins == [on : BOOLEAN, fails : Nat, days : 0 .. 60, last : 0 .. MaxDay]
Kems == Placeholder .. MaxKeys
Configs == [token : 0 .. MaxTokens, kem : Kems, pin : Pins, prefs : BOOLEAN]

Servers ==
  [kem : Kems \cup {NoAccount}, live : SUBSET (1 .. MaxTokens), grace : SUBSET (1 .. MaxTokens),
   issued : 0 .. MaxTokens, made : 0 .. MaxKeys]

Steps == {"off", "ready", "answered", "rotated", "revoked", "guessing", "wrong", "wiping",
          "sent", "wrapping"}

Processes ==
  [pc : Steps, cfg : Configs, open : Kems \cup {Locked}, authed : BOOLEAN,
   new : Kems, todo : SUBSET Entries]

TypeOK ==
  /\ server \in Servers
  /\ wrap \in [Entries -> Kems \cup {Unmade}]
  /\ disk \in Configs
  /\ proc \in [Procs -> Processes]
  /\ day \in 1 .. MaxDay /\ faults \in 0 .. MaxFaults
  /\ guesses \in Nat /\ typed \in 0 .. MaxDay /\ cut \in BOOLEAN

\* Every entry is readable with the keys the server holds, which are those of the next
\* login: an upgrade that is refused, fails in the middle or is killed leaves each entry
\* classical or wrapped for the key the server has, and running it again is safe
\* (upgrade.go, UpgradeToHybrid).
EntriesStayReadable ==
  \A e \in Entries : wrap[e] # Unmade => Decrypts(e, server.kem)

\* No wrong guess is missing from the count in the file, wherever the process was killed
\* (pin.go, UnlockWithPIN).
EveryGuessIsCounted == disk.pin.on => guesses <= disk.pin.fails

\* The PIN opens the vault only within its interval since the master password was last
\* typed, whatever the order of PIN unlocks, restarts and logins (pin.go, onMasterUnlock).
PinNeedsTheMasterPassword ==
  [][\A p \in Procs : proc[p].pc = "guessing" /\ proc'[p].open # Locked
                        => day <= typed + proc[p].cfg.pin.days]_vars

\* The session in the file is one the server still renews, unless the answer of a
\* rotation was lost or the process was killed before it reached the file (vault.go,
\* Authenticate; login.go).
SessionIsKept ==
  disk.token # 0 /\ ~cut =>
    \/ disk.token \in server.live
    \/ \E p \in Procs : proc[p].pc \in {"rotated", "revoked"}
=============================================================================
