------------------------------ MODULE Terminal ------------------------------
(***************************************************************************)
(* The terminal UI (package tui).  Update handles one message at a time:   *)
(* a key, a click, a tick, or the result of a command.  Commands run in    *)
(* goroutines of their own; each holds the vault it was started with, does *)
(* its work at one moment and hands over its message at a later one, in no *)
(* particular order.                                                       *)
(*                                                                         *)
(* The variable m is the Model: the screen and what was loaded from the    *)
(* vault.  A piece of decrypted data is the entry it belongs to, its       *)
(* password and its code alike.  Left out are the list's own state         *)
(* (folders, cursor, filter, sorting), an entry's tags, which are loaded   *)
(* and checked the way its secret is, and quitting, with which the process *)
(* and its timers end.  Time is abstract: the idle timeout may have passed *)
(* at any tick, and the clipboard timer outlasts the write it was started  *)
(* with.                                                                   *)
(***************************************************************************)
EXTENDS Naturals

CONSTANTS
  Entries, NoEntry,
  Missed,       \* a secret on the clipboard that a wipe has left there, whichever
  TypedTotp,    \* the entries of type totp; the others are of type password
  Coded,        \* the entries that hold a TOTP secret
  Menus,        \* the overlays in use (bound); the sort menu works as move does
  Vaults,       \* the sessions the process can have, numbered from 1 (bound)
  Runners       \* the commands that can be in flight (bound)

ASSUME TerminalConstants ==
  /\ NoEntry \notin Entries /\ Missed \notin Entries
  /\ TypedTotp \subseteq Coded /\ Coded \subseteq Entries
  /\ Menus \subseteq {"move", "share", "help", "search"}
  /\ Vaults \subseteq Nat \ {0} /\ 1 \in Vaults

VARIABLES
  m,        \* the Model
  vaults,   \* each session: keys in memory, credentials and PIN in its config
  runs,     \* the commands in flight
  clip,     \* the copied secret on the system clipboard, or Missed
  offline   \* history: a PIN unlock opened the vault and did not get a token

vars == <<m, vaults, runs, clip, offline>>

AuthScreens == {"login", "register", "unlock"}
\* tools: the backup and the generate screen, which only open forms.
Screens == AuthScreens \cup {"main", "detail", "tools", "settings", "pinSetup"}
\* add: a password; write: a TOTP entry, a folder, or the confirmation of a
\* delete or a restore; other: what changes nothing kept here.
FormKinds == {"none", "add", "write", "edit", "other"}
FieldSets == {"none", "login", "register", "password", "pin", "setup"}

Form(kind, e) == [kind |-> kind, on |-> e]
NoForm == Form("none", NoEntry)

\* A command, and its message once there is an outcome.
Free == [do |-> "free", v |-> 0, form |-> NoForm, secret |-> NoEntry, outcome |-> "none"]
Cmd(do, v, e) == [Free EXCEPT !.do = do, !.v = v, !.form = Form("none", e)]
Copy(do, v, s) == [Free EXCEPT !.do = do, !.v = v, !.secret = s]
Load(v) == Cmd("load", v, NoEntry)

\* Mutants: a loaded edit form is no vault result, or a finished copy is one.
LateWithoutEdit(do) == do \in {"load", "secret", "code", "share"}
LateWithCopies(do) ==
  do \in {"load", "secret", "code", "share", "loadEdit", "copyField"}

\* lateVaultResult: dropped on an auth screen.
LateVaultResult(do) ==
  do \in {"load", "secret", "code", "share", "loadEdit"}

\* What a key reaches (Update, handleKeyPress, handleMainScreen) ...
Driven(x) ==
  IF x.form # NoForm THEN "form"
  ELSE IF x.confirm THEN "confirm"
  ELSE IF x.screen # "main" THEN x.screen
  ELSE IF x.menu = "move" THEN "move"
  ELSE IF x.qr THEN "qr"
  ELSE IF x.menu # "none" THEN x.menu ELSE "main"

\* ... and what View shows; the search line is part of the main screen.
Shown(x) ==
  IF x.form # NoForm THEN "form"
  ELSE IF x.confirm THEN "confirm"
  ELSE IF x.menu = "move" THEN "move"
  ELSE IF x.qr THEN "qr"
  ELSE IF x.menu \in {"share", "help"} THEN x.menu ELSE x.screen

DetailShowsCode(x) == x.detail \in TypedTotp \/ x.has

-----------------------------------------------------------------------------
Unlocked(v) == v # 0 /\ vaults[v].keys

Idle(r) == runs[r].do = "free"
Start(c) == \E r \in Runners : Idle(r) /\ runs' = [runs EXCEPT ![r] = c]
Press(at, x) == Driven(m) = at /\ m' = x /\ UNCHANGED clip
Key(at, x) == Press(at, x) /\ UNCHANGED <<runs, vaults, offline>>
KeyStarts(at, x, c) == Press(at, x) /\ Start(c) /\ UNCHANGED <<vaults, offline>>

To(s) == [m EXCEPT !.screen = s]
Open(kind, e) == [m EXCEPT !.form = Form(kind, e)]
Menu(k) == [m EXCEPT !.menu = k]

\* NewModel: the login screen, or the unlock screen of the saved session.
Init ==
  /\ \E in, pin, ask \in BOOLEAN :
       /\ pin => in
       /\ ask => pin
       /\ vaults = [v \in Vaults |-> [born |-> v = 1 /\ in, in |-> v = 1 /\ in,
                                      pin |-> v = 1 /\ pin, keys |-> FALSE]]
       /\ m = [screen |-> IF in THEN "unlock" ELSE "login",
               fields |-> IF ask THEN "pin" ELSE IF in THEN "password" ELSE "login",
               busy |-> FALSE, pinMode |-> ask, vault |-> 1, rows |-> 0,
               form |-> NoForm, confirm |-> FALSE, back |-> NoForm,
               menu |-> "none", qr |-> FALSE, detail |-> NoEntry, pw |-> NoEntry,
               code |-> NoEntry, has |-> FALSE, reveal |-> FALSE]
  /\ runs = [r \in Runners |-> Free]
  /\ clip = NoEntry
  /\ offline = FALSE

-----------------------------------------------------------------------------
\* Forms and the confirm step of a generated password.

\* FormModel.Update: the form stays until its message is handled.
Answer(f) == KeyStarts("form", m, [Free EXCEPT !.do = "answer", !.form = f, !.outcome = "ok"])
SubmitForm == Answer(m.form)
CancelForm == Answer(Form("other", NoEntry))   \* it only closes

UseGenerated == KeyStarts("confirm", [m EXCEPT !.confirm = FALSE, !.back = NoForm],
                          Cmd("write", m.vault, NoEntry))
GeneratorOptions == Key("confirm", Open("other", NoEntry))
DiscardGenerated == Key("confirm", [m EXCEPT !.confirm = FALSE, !.back = NoForm,
                                             !.form = m.back])

\* The main screen and its overlays.
OpenMenu(k) ==
  /\ k \in {"move", "share"} => m.rows # 0
  /\ Key("main", Menu(k))
CloseMenu == m.menu # "none" /\ Key(m.menu, Menu("none"))
CloseQR == Key("qr", [m EXCEPT !.qr = FALSE])
PickTarget ==
  /\ m.menu \in {"move", "share"}
  /\ KeyStarts(m.menu, Menu("none"),
               Cmd(IF m.menu = "share" THEN "share" ELSE "write", m.vault, NoEntry))

GoSettings == Key("main", To("settings"))
GoTools == Key("main", To("tools"))   \* actBackups, actGenerate
Refresh == KeyStarts("main", m, Load(m.vault))
OpenListForm(kind) ==
  /\ kind \in {"add", "write", "other"}
  /\ Key("main", Open(kind, NoEntry))
EditSelected(e) == m.rows # 0 /\ KeyStarts("main", m, Cmd("loadEdit", m.vault, e))
CopyField(e) ==
  m.rows # 0 /\ KeyStarts("main", m, Copy("copyField", m.vault, e))

\* openDetail, by key or by a click, which no overlay takes.
OpenDetail(e) ==
  /\ m.rows # 0 /\ m.screen = "main" /\ m.form = NoForm /\ ~m.confirm
  /\ m' = [To("detail") EXCEPT !.detail = e, !.reveal = FALSE, !.pw = NoEntry,
                              !.has = FALSE, !.code = NoEntry]
  /\ Start(Cmd("secret", m.vault, e))
  /\ UNCHANGED <<vaults, clip, offline>>

Leave(s) == s \in {"detail", "tools", "settings"} /\ Key(s, To("main"))

\* The detail screen.
Reveal ==
  /\ DetailShowsCode(m)
  /\ IF m.reveal
       THEN Key("detail", [m EXCEPT !.reveal = FALSE, !.code = NoEntry])
       ELSE KeyStarts("detail", [m EXCEPT !.reveal = TRUE], Cmd("code", m.vault, m.detail))
\* copyWithClear: the write may fail, its timer runs all the same.
CopyShown ==
  /\ Driven(m) = "detail"
  /\ m.pw # NoEntry \/ (m.code # NoEntry /\ DetailShowsCode(m))
  /\ clip' \in {clip, m.detail}
  /\ Start(Copy("timer", 0, m.detail))
  /\ UNCHANGED <<m, vaults, offline>>

AddCode == m.detail \notin TypedTotp /\ Key("detail", Open("other", NoEntry))
EditDetail == KeyStarts("detail", m, Cmd("loadEdit", m.vault, m.detail))

\* The other screens.
AskRestore == Key("tools", Open("write", NoEntry))   \* a backup is listed
OpenOther(s) == s \in {"tools", "settings"} /\ Key(s, Open("other", NoEntry))

-----------------------------------------------------------------------------
\* Locking and signing out.

\* lockVault
Locked(x) ==
  [x EXCEPT !.screen = "unlock", !.fields = "password", !.busy = FALSE,
            !.form = NoForm, !.confirm = FALSE, !.back = NoForm, !.menu = "none",
            !.qr = FALSE, !.detail = NoEntry, !.pw = NoEntry, !.has = FALSE,
            !.reveal = FALSE, !.code = NoEntry, !.rows = 0]

DropKeys(v) == [vaults EXCEPT ![v].keys = FALSE]

LockNow ==
  /\ Press("settings", Locked(m))
  /\ vaults' = DropKeys(m.vault)
  /\ UNCHANGED <<runs, offline>>

\* Mutant: the keys stay in memory.
SignedOutWithKeys(v) == [vaults EXCEPT ![v].in = FALSE, ![v].pin = FALSE]
SignedOut(v) == [vaults EXCEPT ![v].keys = FALSE, ![v].in = FALSE, ![v].pin = FALSE]

\* logout; the revocation it starts reports nothing
Logout(s) ==
  /\ s \in {"settings", "unlock"}
  /\ s = "unlock" => ~m.busy
  /\ Press(s, [m EXCEPT !.screen = "login", !.fields = "login", !.busy = FALSE, !.rows = 0])
  /\ vaults' = SignedOut(m.vault)
  /\ offline' = FALSE
  /\ UNCHANGED runs

ManagePIN ==
  /\ Unlocked(m.vault)
  /\ IF vaults[m.vault].pin
       THEN KeyStarts("settings", m, Cmd("disablePin", m.vault, NoEntry))
       ELSE Key("settings", [To("pinSetup") EXCEPT !.fields = "setup", !.busy = FALSE])

\* handleAuthScreen; a busy screen takes no key.
AuthKey(at, x) == ~m.busy /\ Key(at, x)
ToRegister == AuthKey("login", [To("register") EXCEPT !.fields = "register"])
BackToLogin == AuthKey("register", [To("login") EXCEPT !.fields = "login"])
CancelPIN == AuthKey("pinSetup", [To("settings") EXCEPT !.fields = "none"])
TogglePIN ==
  /\ vaults[m.vault].pin
  /\ AuthKey("unlock", [m EXCEPT !.pinMode = ~m.pinMode,
                                 !.fields = IF m.pinMode THEN "password" ELSE "pin"])
Submit(at) ==
  /\ at \in AuthScreens \cup {"pinSetup"} /\ ~m.busy
  /\ KeyStarts(at, [m EXCEPT !.busy = TRUE],
       Cmd(IF at = "pinSetup" THEN "enablePin"
           ELSE IF at # "unlock" THEN "login"
           ELSE IF m.pinMode THEN "pinUnlock" ELSE "unlock", m.vault, NoEntry))

\* TickMsg: the auto-lock once nothing was pressed for the idle timeout ...
AutoLock ==
  /\ Unlocked(m.vault) /\ m.screen \notin AuthScreens
  /\ m' = Locked(m)
  /\ vaults' = DropKeys(m.vault)
  /\ UNCHANGED <<runs, clip, offline>>

\* ... or a new code for the one that has run out.
Tick ==
  /\ m.screen = "detail" /\ DetailShowsCode(m) /\ m.reveal
  /\ Start(Cmd("code", m.vault, m.detail))
  /\ UNCHANGED <<m, vaults, clip, offline>>

-----------------------------------------------------------------------------
\* The work of the commands.

\* A command that only reads, or writes what is not modelled, has done so at
\* some moment before its message is taken; an access token it needs comes from
\* the server then too, so it may fail at any time.
Plain == {"load", "secret", "code", "loadEdit", "edit", "share", "write"}

Pending(r) == runs[r].do # "free" /\ runs[r].outcome = "none"
Done(r, o) == runs' = [runs EXCEPT ![r].outcome = o]
Drop(r) == runs' = [runs EXCEPT ![r] = Free]

\* copyEntryFieldCmd: the secret reaches the clipboard before its message.
WorkCopy(r) ==
  /\ Pending(r) /\ runs[r].do = "copyField" /\ Unlocked(runs[r].v)
  /\ clip' = runs[r].secret
  /\ Done(r, "ok")
  /\ UNCHANGED <<m, vaults, offline>>

\* ClipboardClearMsg, clearClipboardIfMatches.  A wipe whose read or write of the
\* clipboard fails says nothing and is not tried again, and a secret that ends in a
\* line break is never found: the clipboard's text is trimmed, the secret is not.
\* What is left behind may yet fall to another wipe of the same secret.
WipeClipboard(r) ==
  /\ runs[r].do = "timer"
  /\ clip' \in IF clip \in {runs[r].secret, Missed} THEN {NoEntry, Missed} ELSE {clip}
  /\ Drop(r)
  /\ UNCHANGED <<m, vaults, offline>>

\* loginCmd, registerCmd: a new session, with its keys.
WorkLogin(r) ==
  /\ Pending(r) /\ runs[r].do = "login"
  /\ \E v \in Vaults :
       /\ ~vaults[v].born
       /\ vaults' = [vaults EXCEPT ![v] = [born |-> TRUE, in |-> TRUE, pin |-> FALSE,
                                           keys |-> TRUE]]
       /\ runs' = [runs EXCEPT ![r].outcome = "ok", ![r].v = v]
  /\ UNCHANGED <<m, clip, offline>>

\* unlockCmd
WorkUnlock(r) ==
  /\ Pending(r) /\ runs[r].do = "unlock" /\ vaults[runs[r].v].in
  /\ vaults' = [vaults EXCEPT ![runs[r].v].keys = TRUE]
  /\ Done(r, "ok")
  /\ UNCHANGED <<m, clip, offline>>

\* pinUnlockCmd: first the keys, by the PIN; "out" is ErrPINExpired or, with the
\* PIN removed, ErrPINLockedOut.
WorkPIN(r) ==
  /\ Pending(r) /\ runs[r].do = "pinUnlock" /\ vaults[runs[r].v].pin
  /\ \/ /\ vaults' = [vaults EXCEPT ![runs[r].v].keys = TRUE]
        /\ runs' = [runs EXCEPT ![r].do = "pinToken"]
     \/ /\ \E left \in BOOLEAN : vaults' = [vaults EXCEPT ![runs[r].v].pin = left]
        /\ Done(r, "out")
  /\ UNCHANGED <<m, clip, offline>>

\* ... then an access token.
WorkToken(r) ==
  /\ Pending(r) /\ runs[r].do = "pinToken" /\ vaults[runs[r].v].in
  /\ Done(r, "ok")
  /\ UNCHANGED <<m, vaults, clip, offline>>

\* enablePINCmd, disablePINCmd
WorkSetPIN(r) ==
  /\ Pending(r) /\ runs[r].do \in {"enablePin", "disablePin"}
  /\ runs[r].do = "enablePin" => vaults[runs[r].v].in
  /\ vaults' = [vaults EXCEPT ![runs[r].v].pin = runs[r].do = "enablePin"]
  /\ Done(r, "ok")
  /\ UNCHANGED <<m, clip, offline>>

-----------------------------------------------------------------------------
\* The messages of the commands: Update.

\* Update drops a late vault result on an auth screen.
Dropped(r) == m.screen \in AuthScreens /\ LateVaultResult(runs[r].do)
Message(r, dos) ==
  /\ runs[r].do \in dos /\ ~Dropped(r)
  /\ runs[r].outcome # "none" \/ runs[r].do \in Plain
Ok(r) == runs[r].outcome = "ok"
Tail(x) == m' = x /\ UNCHANGED <<vaults, clip, offline>>
Ends(r, x) == Drop(r) /\ Tail(x)
Leads(r, x, c) == runs' = [runs EXCEPT ![r] = c] /\ Tail(x)
On(r) == runs[r].form.on
Close == [m EXCEPT !.form = NoForm]

LateResult(r) == Dropped(r) /\ Ends(r, m)
PlainFails(r) ==
  /\ Pending(r) /\ runs[r].do \in Plain \cup {"copyField"} /\ ~Dropped(r)
  /\ Ends(r, m)

\* FormSubmittedMsg, FormCancelledMsg, ConfirmationMsg: they close whatever form
\* is open, and are ignored when none is.
FormClosed(r) ==
  /\ Message(r, {"answer"}) /\ (m.form = NoForm \/ runs[r].form.kind = "other")
  /\ Ends(r, Close)

FormSubmitted(r) ==
  /\ Message(r, {"answer"}) /\ m.form # NoForm /\ runs[r].form.kind # "other"
  /\ Leads(r, Close, Cmd(IF runs[r].form.kind = "edit" THEN "edit" ELSE "write",
                         m.vault, On(r)))

\* startGenConfirm: an empty password field asks for a generated one.
GenConfirm(r) ==
  /\ Message(r, {"answer"}) /\ m.form # NoForm /\ runs[r].form.kind = "add"
  /\ Ends(r, [Close EXCEPT !.confirm = TRUE, !.back = m.form])

\* AuthResultMsg
AuthResult(r) ==
  /\ Message(r, {"login", "unlock", "pinToken"})
  /\ m' = [m EXCEPT !.busy = FALSE, !.vault = runs[r].v, !.screen = "main",
                    !.fields = "none", !.pinMode = FALSE]
  /\ runs' = [runs EXCEPT ![r] = Load(runs[r].v)]
  /\ offline' = FALSE
  /\ UNCHANGED <<vaults, clip>>

\* ... with ErrPINExpired or ErrPINLockedOut: back to the master password
PINRefused(r) ==
  /\ Message(r, {"pinUnlock"})
  /\ Ends(r, IF m.screen = "unlock" /\ m.pinMode
             THEN [m EXCEPT !.busy = FALSE, !.pinMode = FALSE, !.fields = "password"]
             ELSE [m EXCEPT !.busy = FALSE])

\* PINConfigMsg
PINConfig(r) ==
  /\ Message(r, {"enablePin", "disablePin"})
  /\ Ends(r, [To("settings") EXCEPT !.busy = FALSE, !.fields = "none"])

\* Either with another error; a PIN unlock that gets no token has its keys.
AuthFails(r) ==
  /\ Pending(r)
  /\ runs[r].do \in {"login", "unlock", "pinUnlock", "pinToken", "enablePin", "disablePin"}
  /\ m' = [m EXCEPT !.busy = FALSE]
  /\ offline' = (offline \/ runs[r].do = "pinToken")
  /\ Drop(r)
  /\ UNCHANGED <<vaults, clip>>

\* LoadEntriesMsg
ListLoaded(r) == Message(r, {"load"}) /\ Ends(r, [m EXCEPT !.rows = runs[r].v])

\* TOTPUpdateMsg, SecretLoadMsg: only for the entry on screen.
\* Mutant: any entry's.
WantedByAny(r) == TRUE
Wanted(r) == On(r) = m.detail

SecretLoaded(r) ==
  /\ Message(r, {"secret"})
  /\ Ends(r, IF Wanted(r) THEN [m EXCEPT !.pw = On(r), !.has = On(r) \in Coded] ELSE m)
CodeComputed(r) ==
  /\ Message(r, {"code"}) /\ On(r) \in Coded
  /\ Ends(r, IF Wanted(r) THEN [m EXCEPT !.code = On(r)] ELSE m)

\* EditFormLoadedMsg, EntryEditedMsg
EditLoaded(r) ==
  /\ Message(r, {"loadEdit"})
  /\ Ends(r, IF m.form = NoForm THEN Open("edit", On(r)) ELSE m)
EntryEdited(r) ==
  /\ Message(r, {"edit"})
  /\ Leads(r, IF m.screen = "detail" /\ m.detail = On(r)
                THEN [m EXCEPT !.pw = On(r), !.code = NoEntry] ELSE m,
           Load(m.vault))

\* ActionResultMsg, BackupRestoredMsg
ActionResult(r) == Message(r, {"write"}) /\ Leads(r, m, Load(m.vault))

\* CopiedSecretMsg
SecretCopied(r) ==
  /\ Message(r, {"copyField"})
  /\ Leads(r, m, Copy("timer", 0, runs[r].secret))

\* ShareLinkCreatedMsg: the link is copied too, if the write succeeds.
LinkCreated(r) ==
  /\ Message(r, {"share"})
  /\ m' = [m EXCEPT !.qr = TRUE]
  /\ clip' \in {NoEntry, clip}
  /\ Drop(r)
  /\ UNCHANGED <<vaults, offline>>

-----------------------------------------------------------------------------
FormKeys ==
  SubmitForm \/ CancelForm \/ UseGenerated \/ GeneratorOptions \/ DiscardGenerated
MainKeys ==
  \/ \E k \in Menus : OpenMenu(k)
  \/ GoSettings \/ GoTools \/ Refresh
  \/ \E kind \in FormKinds : OpenListForm(kind)
  \/ \E e \in Entries : EditSelected(e) \/ CopyField(e)
OverlayKeys == CloseMenu \/ CloseQR \/ PickTarget
DetailKeys == Reveal \/ CopyShown \/ AddCode \/ EditDetail
SideKeys == AskRestore \/ OpenOther(m.screen) \/ LockNow \/ ManagePIN
AuthKeys ==
  ToRegister \/ BackToLogin \/ CancelPIN \/ TogglePIN \/ Submit(m.screen)

Keys ==
  \/ Driven(m) \in {"form", "confirm"} /\ FormKeys
  \/ Driven(m) = "main" /\ MainKeys
  \/ Driven(m) \in {"qr", "move", "share", "help", "search"} /\ OverlayKeys
  \/ Driven(m) = "detail" /\ DetailKeys
  \/ Driven(m) \in {"tools", "settings"} /\ SideKeys
  \/ Driven(m) \in AuthScreens \cup {"pinSetup"} /\ AuthKeys
  \/ Leave(m.screen) \/ Logout(m.screen)
  \/ \E e \in Entries : OpenDetail(e)

Commands ==
  \E r \in Runners :
    /\ Pending(r)
    /\ \/ WorkCopy(r) \/ WipeClipboard(r) \/ WorkLogin(r) \/ WorkUnlock(r)
       \/ WorkPIN(r) \/ WorkToken(r) \/ WorkSetPIN(r)

Messages ==
  \E r \in Runners :
    /\ ~Idle(r)
    /\ \/ LateResult(r) \/ PlainFails(r) \/ FormClosed(r) \/ FormSubmitted(r)
       \/ GenConfirm(r) \/ AuthResult(r) \/ PINRefused(r) \/ PINConfig(r)
       \/ AuthFails(r) \/ ListLoaded(r) \/ SecretLoaded(r) \/ CodeComputed(r)
       \/ EditLoaded(r) \/ EntryEdited(r) \/ ActionResult(r) \/ SecretCopied(r)
       \/ LinkCreated(r)

Next == Keys \/ Commands \/ Messages \/ AutoLock \/ Tick

Spec == Init /\ [][Next]_vars

-----------------------------------------------------------------------------
FormType == [kind : FormKinds, on : Entries \cup {NoEntry}]

\* A command that changes a session names one.
CommandType ==
  {c \in [do : {"free", "answer", "load", "secret", "code", "loadEdit", "edit",
                "share", "write", "copyField", "timer", "login", "unlock",
                "pinUnlock", "pinToken", "enablePin", "disablePin"},
          v : Vaults \cup {0}, secret : Entries \cup {NoEntry}, form : FormType,
          outcome : {"none", "ok", "out"}] :
     c.do \in {"login", "unlock", "pinUnlock", "pinToken", "enablePin", "disablePin"} =>
       c.v \in Vaults}

VaultType ==
  {v \in [born : BOOLEAN, in : BOOLEAN, pin : BOOLEAN, keys : BOOLEAN] :
     /\ v.pin => v.in
     /\ v.in => v.born}

ModelType ==
  [screen : Screens, fields : FieldSets, busy : BOOLEAN, pinMode : BOOLEAN,
   vault : Vaults, rows : Vaults \cup {0}, form : FormType, confirm : BOOLEAN,
   back : FormType, menu : Menus \cup {"none"}, qr : BOOLEAN,
   detail : Entries \cup {NoEntry}, pw : Entries \cup {NoEntry},
   code : Coded \cup {NoEntry}, has : BOOLEAN, reveal : BOOLEAN]

\* Every variable keeps its type, in which a PIN goes with the credentials it
\* unlocks (config.go: a logged-out session leaves no PIN-unlockable copy).
TypeOK ==
  /\ m \in ModelType
  /\ vaults \in [Vaults -> VaultType]
  /\ runs \in [Runners -> CommandType]
  /\ clip \in Entries \cup {NoEntry, Missed}
  /\ offline \in BOOLEAN

\* Behind the unlock prompt the Model holds nothing of the vault: no row, secret,
\* form, overlay or share link, whichever command answers after the lock
\* (lockVault, lateVaultResult, and the forms that results can open).
NothingLeftBehindTheLock ==
  m.screen = "unlock" =>
    /\ m.rows = 0 /\ m.form = NoForm /\ ~m.confirm /\ m.back = NoForm
    /\ m.menu = "none" /\ ~m.qr
    /\ {m.detail, m.pw, m.code} = {NoEntry}

\* The password and the code the detail screen would show belong to the entry it
\* names, however late the loads of another entry answer.
SecretsAreOfTheDetail == {m.pw, m.code} \subseteq {NoEntry, m.detail}

\* Every secret on the clipboard is given its wipe: one is on its way, across
\* locking, logging out and forms that are open when the copy is reported, until
\* one has come for it, which may leave it there all the same (copyWithClear and
\* CopiedSecretMsg start wipes; WipeClipboard says when one fails).
CopyIsWiped ==
  clip \in Entries =>
    \E r \in Runners :
      /\ runs[r].secret = clip
      /\ runs[r].do = "timer" \/ (runs[r].do = "copyField" /\ Ok(r))

\* Keys in memory are under the auto-lock: their vault is the Model's and a screen
\* of the vault is shown, or an unlock that has not reported yet has made them,
\* or a PIN unlock got no token for them.  Stated for a process with one session:
\* with two, the result of an unlock of the first that comes after the login to
\* the second makes the first the Model's again (AuthResult).
Watched(v) ==
  \/ v = m.vault /\ m.screen \notin AuthScreens
  \/ \E r \in Runners :
       runs[r].v = v /\ runs[r].do \in {"login", "unlock", "pinToken"}
KeysAreWatched == \A v \in Vaults : vaults[v].keys => Watched(v) \/ offline

=============================================================================
