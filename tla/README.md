# TLA+ verification of Passbubble

Passbubble is a self-hosted, end-to-end encrypted password manager: a Go server on
PostgreSQL that stores only ciphertext and wrapped keys, and four clients (Flutter app
and web app, browser extension, CLI, TUI) that hold the keys. The modules here model its
stateful logic, TLC checks them on small instances, and TLAPS proves the theorems in the
`*_proofs` modules for every value of the constants. `PROJECT.json` lists components,
runs, mutants, the source lines behind every definition, findings, hazards and theorems.

    tlc -config EntryStore_shared.cfg MCEntryStore     # one run
    tlapm EntryStore_proofs.tla                        # one proof module

## 1. The system

### Components

| Component | Source | State | Operations | Hard part | Modelled in |
|---|---|---|---|---|---|
| Entries, versions, sharing | `handlers/entries.go`, `trash_versions.go`, `shares.go`, `services/purge.go` | rows of entries, entry_keys, entry_permissions, entry_versions(+keys) | create, update, trash, restore, purge, share, revoke, version list/get/restore, timed purge | statements of concurrent requests interleave; keys must keep matching blobs | EntryStore |
| Folders | `handlers/folders.go`, `shares.go` | folders.parent_id, entries.folder_id, folder_permissions | create, move, delete a subtree, share, revoke, list | checks and writes are separate statements; recursive queries | FolderTree, Forest |
| Refresh tokens | `handlers/auth.go`, `middleware/auth.go` | sessions | login, refresh, logout | several clients rotate one token at once; lost answers | TokenServer |
| Web tabs | Flutter `api_client.dart`, `auth_service.dart` | shared browser storage, each tab's memory | refresh and retry, adoption of another tab's tokens, expiry, login, logout | two tabs at each await, closing, lost answers | WebTabs |
| Accounts, second factor | `auth.go`, `totp.go`, `admin.go`, `users.go` | users, invitations, verification and recovery tokens | register, verify, login, TOTP, recovery, invite, disable | check and use in separate statements; tokens that outlive what they say | Accounts |
| Share links | `share_links.go` | share_links | create, view, revoke, delete | view limit under concurrent views | ShareLinks |
| Rate limiter | `middleware/ratelimit.go`, `router.go` | a bucket per address | take a token, sweep | the sweep forgets buckets that waiting requests refer to | RateLimiter, TokenBuckets |
| TUI | `cli/internal/tui`, `cli/internal/vault` | the Model, keys in memory, commands in flight, clipboard | keys, clicks, forms, overlays, unlock by password or PIN, lock, auto-lock, logout | results arrive in any order, also after a lock | Terminal |
| CLI and its configuration | `cli/internal/{vault,config,cli}` | config file, each process's copy, the account's keys | login, refresh, PIN, key upgrade, logout | the whole file is saved, steps can fail or be killed | CommandLine |
| CLI commands on entries | `cli/internal/cli`, `backend/pkg` | entries, files, backups | add, update, trash, tags, TOTP, import, export, merge, backup, restore | fields without a place in a format, calls that fail half-way | Commands, Records |
| Extension background | `extension/src/background` | worker memory, session and local storage, alarms | unlock by password and PIN, restore, refresh, lock, auto-lock, login, logout | every await; the worker ends at any step | Extension |
| Jobs | `jobs.go`; Flutter `job_runner.dart`, `local_job.dart` | jobs; running job of the app | create, progress, finish, cancel | late progress reports, lock and cancel during a run | not modelled (section 5) |
| Flutter vault session | `auth_service.dart`, `auto_lock_scope.dart`, `router.dart` | private keys in memory, PIN records | unlock, lock, PIN, upgrade | keys set after awaits, counters shared by tabs | not modelled (section 5) |
| Everything else | mailer, static pages, generators, crypto primitives, screens, content scripts, deployment | | | | not modelled (`PROJECT.json` gives the reason for each) |

### How they interact

Clients call the REST API; a handler is a sequence of SQL statements on one connection
pool, in a transaction only where the code opens one. PostgreSQL runs READ COMMITTED:
each statement sees what was committed when it started, so other requests may come in
between any two statements. The server starts one background task, the purge of trashed
entries, and keeps one thing in memory, the buckets of its rate limiters. Clients share
state only through the server, through browser storage (web tabs), through the extension's
storage (its service worker instances), and through the configuration file (CLI and TUI
processes).

Each module holds the whole of what its properties are about and an abstraction of its
neighbours: WebTabs is composed with the detailed TokenServer; Extension and CommandLine
see of the server the tokens it takes and the answers it may give; ShareLinks sees of an
entry that it can go, with its links; Commands sees of the vault that entries can be
written and that any call may fail. RateLimiter and ShareLinks are composed, and the
limiter is shown to implement TokenBuckets; FolderTree is shown to implement Forest.

## 2. What is modelled

### EntryStore (`EntryStore.tla`)

The rows one entry has, and the requests on it. A request is a record in `req[r]`: its
operation, what it has read, and `pc`, the statement it runs next; each action is one
statement. Inside the transactions of UpdateEntry and RestoreVersion the last writes and
the COMMIT are one step (`FinishEdit`, `FinishMeta`, `FinishRestore`): the UPDATE locks
the entry's row until the commit, so nothing can come in between. A statement that would
wait for a lock is simply not enabled until the lock is free; only a statement that has read
something before it waits has a step of its own for the wait. The rows a statement takes are
taken at once, and a deadlock that PostgreSQL would break is the `Die` of one of the waiting.

A prune chooses its rows by the snapshot of its statement (`Prune`); if a rival's prune has
deleted one of them and not committed, it waits ("waiting", `LockedByRival`), and when the
rival is through it skips the rows that are gone and chooses no others (`PruneWaited`): two
overlapping prunes at the cap leave one version too many. A restore that waits for the entry's
row has read the version's blob before (`RestoreWaits`), so it writes that blob even if the
version has been pruned meanwhile, and then finds no keys for it (`RestoreWaited`).

A blob is a pair of a body and the data key it is encrypted with; `keys[u]` is the data
key wrapped for `u`. What the clients contribute is modelled from their code: an edit
fetches the entry, re-encrypts under the key it found (`EditBlob`; `reencryptEntry` and
the Go and Dart equivalents) and echoes the folder it found (`EditFolder`). The entry
starts absent, "edited" (it has the versions its edits left) or "rekeyed" (an older client
has edited it, which made a fresh data key for the editing user alone). `Die` abandons a
request at any statement (its transaction rolls back), `StatementFails` is a statement
whose error CreateEntry ignores. `owed` is a history variable: bodies overwritten and not
pruned.

### Forest and FolderTree (`Forest.tla`, `FolderTree.tla`)

Several folders and entries. UpdateFolder is the guard (`MoveCheck`, with the recursive
query as the least set closed under "has its parent in the set") and the UPDATE
(`MoveWrite`); DeleteFolder collects ids, deletes entries (keeping them locked until the
commit) and deletes folders, which PostgreSQL's foreign keys refuse if by then anything else
is filed in them (`NoneLeftInside`). A recursive query over a cycle has no step:
the request never ends, which EveryRequestAnswered sees. `Movers` are the slots allowed
to move folders; the runs differ in it.

Forest is what the requests promise together, over the same rows: each acts at once. A move
never goes into the folder's own branch; a deletion takes folders below which nothing stays,
exactly the entries filed in them and the permissions on them. It is silent about which
folders a deletion takes, since DeleteFolder collects them earlier: a subfolder moved
elsewhere meanwhile goes all the same (its new parent stays), and one created inside
meanwhile makes the whole deletion fail.

### TokenServer and WebTabs (`TokenServer.tla`, `WebTabs.tla`)

TokenServer is the sessions table with Refresh as its three statements (check, insert the
new session, retire the presented one with LEAST(expires_at, now + grace)), Logout's
DELETE, access token expiry, and a clock. One statement may fail in a behaviour: before
the new session a 500, after it only a log line. WebTabs extends it with browser tabs:
each is a record of its memory and the point its flow has reached; every access to the
shared storage is a step. A tab runs one flow at a time: a request met by 401, or a
logout. The refresh, the retry with the token stored then (`Revokes`), the two looks at
the storage after a rejection (`Look`, `AfterLook`, `MovedOn`), clearing and wiping follow
`ApiClient._onError`, `_doRefresh`, `_adoptRotatedToken` and `AuthService.logout`. Merged
into one step: the two storage reads of an adoption, login's writes, and the deletions of
the last wipe. Sending a refresh is one step with the read of the token; the server's
check of it is another.

### Accounts (`Accounts.tla`)

The users and invitations tables, and who holds which token or link. A request is a record
in `req[s]`: its operation, the statement it runs next (`at`), the account, the invitation
presented and the role it will sign; each action is one statement, and a handler with a
single statement is one action. `Fail` ends a request at any statement; an error the code
drops (the COUNT of getValidInvitation, the UPDATE of the invitation) is a choice inside
the statement. An account is its email, which the table keeps unique; a pair of tokens is
the account and the role signed into it. Who may renew a pair is TokenServer's matter: here
whoever holds one may, for as long as it lasts. Everything that expires may do so at any
time. Passwords and codes are right, since a wrong one changes nothing; a request without
the link or token it presents ends at its lookup. `config` is the two settings the handlers
read: SMTP_HOST (a mailer) and ADMIN_EMAIL. The server starts empty or with its first
account, to which nobody is signed in. UpdateUser gets the values its request type names
(active, disabled; admin, user).

`via`, `armed` and `admins` are histories: what a registration was allowed by, whether a
login began under the second factor and nobody has turned the factor off since, and who
has ever been an administrator.

### TokenBuckets, RateLimiter and ShareLinks (`TokenBuckets.tla`, `RateLimiter.tla`, `ShareLinks.tla`)

TokenBuckets says what a limiter promises: every address has a bucket that holds up to
Burst tokens, takes one per call and gets one per interval. RateLimiter is what the code
does: buckets are made on an address's first call, their level is computed from the time
last used, and a sweep throws away those not seen for the TTL. ShareLinks runs the public
view of a link behind it: the wait for the limiter's lock, the token, the SELECT with
expiry and view limit, the decision, and the UPDATE that counts the view, whose error the
handler drops, beside the owner's create, revoke and delete and the entry's cascade. A
restart empties the limiter (TokenBuckets' Restart).

The unit of time is the interval of one token; each router group's limiter refills in a
minute and forgets after ten. `MaxStall` bounds how long a request that has read the clock
can wait for the lock; `TTL >= Burst + MaxStall` is what makes a forgotten bucket a full one.
A sweep between the lookup of a bucket and the token taken from it would need a stall of
ten minutes and is left out. Other endpoints of the group (the codes) only take tokens. The
password check of a link is a choice. Only direct callers of the API set max_views. The clock
that sets expires_at is not told from the server's.

### Terminal (`Terminal.tla`)

The TUI's `Update`: one message at a time, each a key, a click, a tick, or the result of a
command. `m` is the Model, `runs` the commands in flight (each a goroutine that holds the
vault it was started with), `vaults` the sessions with their keys, credentials and PIN.
`Driven` is what a key reaches and `Shown` what View draws, two separate chains of
conditions in the code. A command that only reads is one step, when its message is taken;
one that changes the clipboard, the keys or the PIN does its work in a step of its own and
reports in another. A form's answer is a message too, so the form stays until it is taken.
Cancelling is the answer that only closes it. The backup and the generate screen only open
forms here and are one screen, `tools`. `CopyShown` writes the clipboard and starts its
timer in one step, as copyWithClear's command does.
Decrypted data is named by its entry. Idle time is abstract: the auto-lock may come at any
tick on a vault screen. The wipe of the clipboard (`WipeClipboard`) cannot
precede the write it belongs to, and may leave the secret there, which is then only known as
`Missed`: clearClipboardIfMatches drops the errors of the clipboard calls and
compares its trimmed text with the secret as it is, so that one which ends in a line break
never matches. Quitting, which drops a pending wipe with the process, is left out. `offline` is a history variable: a PIN unlock has put the keys in memory and
got no access token.

### CommandLine (`CommandLine.tla`)

Processes on one machine and one account. `disk` is the configuration file, `proc[p]` the
copy a process read at its start and the step it is at. A process changes its copy and saves
all of it; the calls to the server in between may fail, lose their answer, or be the last
thing a killed process did. Modelled are login (which replaces
the whole configuration, so preferences and PIN are lost), the refresh with the rotated
token stored, setting, using and removing a PIN with its count of guesses and its days,
the upgrade of placeholder keys (keys at the server, then in the file, then entry after
entry), and logout. Keys are values: an entry is readable
when it is wrapped the classical way or for the key the server has for the account.

Days do not pass during a PIN attempt; a wrong master password changes nothing. Errors of
Save, which the code ignores, are not modelled: one after the server took new keys would
lose them. The account's other clients are not part of it. `Alone` says there is one process; the properties are
stated for it, because with two a stale copy saved late undoes what the other did.

### Records and Commands (`Records.tla`, `Commands.tla`)

Records is the pure part: what each exporter writes of an entry and what each importer
makes of it, field by field, for JSON, Bitwarden, 1Password and CSV, and KeePass and Psono
to import; a field is present, absent, or carried under another name, in notes or in custom
fields. Commands runs the CLI's commands over a vault of a few entries, one call per step,
each of which may fail or lose its answer, beside one rival command of another client: add, update,
trash, restore, tags, one-time codes, export, import in every mode, merge, backup and restore of a
backup. The properties compare a file with the entries it came from and the vault with
what it was before the import. OptionsFitTheSecret compares the options of the codes with the
secret they were stored for: the instances give an option the secret's own value, so options
that do not fit are seen; a blank secret makes no codes, and then nothing has to fit.

ComesHome says that an export and the import of it fit together. The importers skip a record
without a name (in a CSV also one of blanks); a Bitwarden field needs a name, one called
`passbubble_tags` is read as tags, and a file that does not decode comes back as text; of a
1Password export a field without a value is not read and a file that does not decode not
written. The property says so: it is about entries that have a name, fields the format can carry
(*Travels*), and Bitwarden tags when nothing else bears their name (*TagsAreAlone*).

Tags hold no comma; only files are data URIs; the order of fields is left out; the snapshot of an export or import is read in one step;
the rival neither moves entries nor creates folders. An entry without a key fails the
whole listing, while a backup skips it and names it.

### Extension (`Extension.tla`)

The background worker: its memory, the browser's session storage (which outlives the worker
until the browser ends) and local storage (which outlives both), the alarms, and the flows a
message starts, each a program counter between two awaits other handlers can tell apart.
Storage calls of one area are served in order, so what follows one without a decision is
merged with it: lockVault's tail with dropping the session, the removals of endLogin, the
activity stamp with arming the alarm, the alarm's check with taking it off, and the refresh's
store of the live session with buildSession's. That order is why a handler's reading of the
auto-lock setting and its call on the alarm are one step: of two handlers, the last to read is
the last to set the alarm. The setting itself is written elsewhere, by the options page or by
another device (`SetLimit`); the event it raises (`change`) is handled later, after a restore
if the memory is empty (`Rearm`, storage.onChanged). `Kill` ends the worker at any step: memory
and flows are gone, storage and alarms stay; `CloseBrowser` takes the session storage too, and
perhaps the alarm. A request already sent may still be served. The server is the set of
tokens it takes: a rotated one is accepted until its grace ends, which may be at any time.

One unlock and one PIN attempt run at a time, since the popup disables its form meanwhile (a
popup closed and opened again could send a second, which would lose a count). `cut` marks
the cases in which an open vault with a limit may be left without an alarm: the worker ended
while an unlock had yet to arm it, or with a change of the setting whose handling had begun. An
event not yet handed over starts the next worker, so `Kill` may keep `change` or drop it. The
tokens the server takes are followed only while the device, or something on its way, holds them.
Left out: the caches of entries and tags, the pending save, single sign-on, basic auth, the
expiry of tokens by age, and an auto-lock setting that cannot be read.

## 3. What TLC checks

| Run | Instance | Distinct states | Properties |
|---|---|---|---|
| EntryStore_shared | 2 users, 2 slots, all operations, 3 requests, version cap 1, entry absent or edited before, faults, fairness | 519k | VersionsBounded, StoredKeysOpen, AnswersOpen, PurgedIsEmpty, EveryRequestAnswered |
| EntryStore_serial | 2 users, 1 slot, 5 requests, entry absent or re-keyed by an older client | 152k | HistoryComplete, KeysMatchPermissions, OwnerReads |
| EntryStore_lost_version | 2 slots | violation | HistoryComplete |
| FolderTree_one_mover | 3 folders, 1 entry, 2 slots, one of them moving, 3 requests, fairness | 127k | NoOrphans, Acyclic, RequestsActAtOnce, EveryRequestAnswered |
| FolderTree_cycle | both slots moving | violation | Acyclic |
| WebTabs_race | 2 tabs, 2 refreshes at the server, 3 token pairs, clock to 4 | 3.1M | RetiredForGood, GraceHolds, SignedOutForCause, LogoutRevokes |
| Accounts_race | 3 accounts, 1 invitation, 2 requests in flight, 5 in all | 224k | OneAccountPerInvitation, OneBootstrap, PendingHasNoTokens, CodeIsAsked, SoleAdminStays |
| ShareLinks_views | 2 addresses, 2 requests, 1 link, burst 1, TTL 2, stalls of 1, clock to 3, 1 fault | 1.4M | ViewsAreBounded, ClosedStaysClosed, LimiterForgetsNothing |
| Terminal_session | 2 commands in flight, 2 entries with codes, 1 session, the share overlay | 2.8M | NothingLeftBehindTheLock, SecretsAreOfTheDetail, CopyIsWiped, KeysAreWatched |
| CommandLine_alone | 1 process, 3 entries, one of them shared read-only, 2 PIN tries, 2 key pairs, 3 tokens, 4 days, 2 faults | 2.0M | EntriesStayReadable, EveryGuessIsCounted, SessionIsKept |
| Commands_files | 3 entries, 2 commands, 1 change by a rival, 1 failed or lost call, every format | 2.1M | NothingLeftOutSilently, ComesHome, ImportTwiceAddsNothing, OptionsFitTheSecret, MergeKeepsTheRest |
| Extension_worker | 2 PIN tries, 3 tokens, 1 end of the worker or browser, fairness | 1.6M | OnlyUnlockOpens, GuessesAreBounded, TokenIsKept, IdleVaultLocks |

Every `TypeOK` is proved (section 4), so no run checks one. LimiterForgetsNothing and
RequestsActAtOnce are refinements: TokenBuckets' Spec, with the level of each bucket as its
mapping, and Forest's, with the rows as they are.

**Bounds.** `MaxCalls` bounds the requests ever started. Three are enough for a request to
be overlapped by a second and followed by a third; with one slot five allow
create-share-edit-restore-edit. `MaxVersions` is 1 or 2 instead of 20, so that pruning
happens. Three folders are enough for a chain into which a move can close a cycle or a
deletion can be overtaken. In WebTabs the unit of time is the grace period: Grace, Settle,
MaxDelay and AccessTTL are 1 and TTL is 3, so that access tokens expire, rotated tokens
reach the end of their grace period and refresh tokens expire within the clock's 4; three
pairs allow a login and two racing refreshes, or two logins and a refresh. TabConstants
(`MaxDelay < Grace + Settle`) says a refresh takes less than 30 s plus the settle delay.
In Accounts two requests in flight are the least that race; three accounts let an administrator
invite one account while another answers the invitation; five requests allow register, log in,
set up the second factor and race two more against it.
In ShareLinks every property is about one link, and two addresses are the least with which
one's request sweeps the other's bucket; the clock's 3 lets a bucket refill, be forgotten and
be made anew. The limit of 2 lets two views overlap below it, pass it together and a further
one be refused.
In Terminal two commands are the least with which one answers late among another's
results, and two entries the least whose secrets can be confused; every property but
KeysAreWatched is about one command and one screen at a time, so a third adds no new pair.
KeysAreWatched is stated for one session (`Vaults = {1}`): with two TLC finds that an
unlock of the first, answered only after a logout and the login to the second, makes the
first the Model's again and leaves the second's keys to no auto-lock.
In CommandLine three tokens allow a login, a rotation and a login after it, two key pairs
an upgrade and its repetition after a lost answer, and four days an interval that ends. In
Commands two commands allow an export and its import, or two imports of one file; one
failure at a time is what a message to the user can be about. In Extension three tokens
allow a login, a rotation and either a second one or a second login.

**Fairness.** FairSpec of EntryStore and FolderTree is weak fairness of each request's own
next statement: the server runs each request in its own goroutine and PostgreSQL grants a
lock once it is free, so a statement that stays executable is executed. FairSpec of
Extension is weak fairness of the alarm and of the change event, which the browser delivers
and which wake the worker (the restore they start, AutoLock and Rearm), of a restore that has
begun and of an unlock's arming of its alarm. No
client action, no user and no fault is fair. The other modules have no liveness property.

**Deadlock checking** is off: once the request or time bound is reached the system may stop.

**Violations found.**
- *Lost version* (`EntryStore_lost_version`): snapshotVersionTx does not lock the entry; two
  overlapping edits save the same old body and one new body is lost, though the comment
  promises that snapshot and overwrite are atomic.
- *Folder cycle* (`FolderTree_cycle`): two moves overlap, both guards pass, and two folders
  become each other's parent; the guard's comment says it prevents just that.

**Seen in the models, without a run of their own.** They are behaviours the modules contain
and the properties above are worded around.
- *Server.* A share overlapping a revoke leaves a permission without a key; restoring a
  version while an update re-keys an entry that an older client touched can leave it
  unreadable; a restore that waits for an update may write a version that the update's prune
has deleted, without its keys (`handlers/trash_versions.go:268`, `:282`), which loses an
entry that an older client re-keyed; a revoked user's write already past its permission check still lands; an edit
  that overlaps a move echoes the folder it fetched and so undoes the move
  (`cli/internal/vault/vault.go:438`, `handlers/entries.go:241`), although the comment gives
  the echo as the way to keep the entry where it is. KeysMatchPermissions, OwnerReads and
  HistoryComplete are therefore checked for requests that do not overlap. Trashing an entry
  leaves its share links open; only its permanent deletion takes them along.
- *Tokens and accounts.* Of two refreshes racing on one token the loser's new session stays
  valid for its full seven days without a holder, and no logout revokes it; a tab's logout
  does not stop another tab's refresh from storing new tokens after the wipe, so
  LogoutRevokes is stated for a single tab and arrived answers. A tab whose session is over
  clears the storage several awaits after its second look: tokens that a login in another
  tab has stored meanwhile are deleted too, so SignedOutForCause speaks of what went before
  (`Quiet`), not of the login that was lost. Without ADMIN_EMAIL two
  first registrations that race, or one whose COUNT fails, make further administrators; a
  late click on a verification link reactivates an account disabled meanwhile; a refresh
  renews the role of the presented token, so a demoted or disabled user keeps it; a second
  reset with one recovery link, already past its lookup, turns off a second factor enabled in
  between.
- *TUI.* A copied secret that ends in a line break stays on the clipboard for good, and so does
  any whose wipe meets a failing clipboard tool (`tui/main.go:1973`), though every copy is to
  be cleared after 20 seconds (`:1891`, `:1894`); CopyIsWiped says that a wipe comes, not that
  it works. A click under the help overlay opens the detail screen (`tui/main.go:1852`) and the
  overlay stays, while the keys, any of which should close it, drive the screen it hides
  (`:726`, `:734`). A PIN unlock that gets no access token leaves the decrypted keys in
  memory on the unlock screen, which the auto-lock skips (`tui/auth.go:392`,
  `tui/main.go:663`); KeysAreWatched excepts it by `offline`. A second Enter in a form sends
  a second submission, which closes whatever form is open by then; a PIN change reported
  after a lock or a logout shows the settings of the locked vault; a logout leaves the last
  detail's secrets in the Model; a load started before a logout and answered after the next
  login fills the new account's list.
- *CLI.* With two processes, one that still holds the placeholder configuration runs
  upgrade-keys again (`vault/upgrade.go:33`, `:52`): the server's key is replaced, and what
  was wrapped for the first key cannot be read. A stale copy saved late undoes a logout, a
  PIN's removal or its count. The wipe after the last wrong PIN follows the guess, so a
  process killed in between allows another, counted, guess.
- *CLI commands and formats.* `update` writes back the state it read, though its help says it
  changes only what the flags say; `totp add` shows its first code with default options
  (`cli/totp.go:133`); a 1Password export puts the product's name where an email belongs
  (`exporters/onepassword.go:295`), and on import a custom TOTP field overrides the login's
  (`importers/onepassword.go:210`); CSV import trims values; API keys and licences come back
  from Bitwarden as passwords, and fields without a place grow by a custom field with every
  cycle. ComesHome is worded per format accordingly.
- *Extension.* A logout from the options page while an unlock waits for its refresh stores
  the refresh's token after the wipe and opens a vault that is signed out
  (`message-handler.ts:603` says a logout wipes them); a worker that ends between clearing the
  account and the PIN, or a SET_PIN in flight, leaves the PIN record of a signed-out device;
  an old refresh answered after the next login overwrites the new token or ends that login.
  Outside the model: a listing in flight at a lock fills the entries' cache again, which
  `session-store.ts:120` says a lock drops.

## 4. What TLAPS proves

Assumptions are the named ASSUMEs of the modules (TLC evaluates them in the runs) and, where
given, a hypothesis of the theorem.

- **EntryStore_proofs.** `TypeCorrect`. `PurgeComplete`: PurgedIsEmpty, from *PurgeInv*: rows
  exist only while the entry does, and an open version transaction holds its entry (the
  foreign key's lock); without the second part a version insert could follow the purge.
  `KeysAlwaysOpen` and `AnswersAlwaysOpen`, from *KeyInv*: there is only the creator's data
  key, in the entry, the keys, the versions and everything any request carries. They assume
  that no entry was re-keyed by an older client, for which they are false.
  `VersionsStayBounded`: VersionsBounded, for overlapping requests too, by *VersionInv*. The
  bound alone is not inductive: whichever of the open transactions past their prune commit, and
  whichever roll back, at most MaxVersions and one for each request are left. A prune keeps that
  because versions have different times and no prune chooses what a rival has inserted and not
  committed (the lemmas count what the `OFFSET` leaves out). The other three are for requests that do not overlap
  (`OneAtATime`, as in the run EntryStore_serial; overlapping ones break them, see the
  findings); without a rival nothing waits. `HistoryStaysComplete`: HistoryComplete, by *HistoryInv*, that the snapshot of an
  open transaction is the entry's blob. `KeysStayMatched`: KeysMatchPermissions, by *MatchInv*,
  that the rows of keys and of permissions differ only by what the share or unshare under way
  has not done yet; a failing statement between the two leaves the difference (the hazard at
  `sharing.go`), so it assumes none fails. `OwnerAlwaysReads`: OwnerReads, by *OwnerInv*, that
  the owner's row is there and what a request has read is still so. It assumes that no share
  grants "owner": the comments at `models.go:115` and `:188` name "read" and "write", the
  handler takes any word, and a co-owner made that way could share his own stale key over
  the owner's after an older client's re-key (TLC finds it).
- **FolderTree_proofs.** `TypeCorrect`. `NothingStranded`: NoOrphans, by *OrphanInv*.
  `EntriesDieWithFolders`: an entry dies only in the step that deletes the folder it is filed
  in, by *DeletionInv*: what a transaction has deleted lies within what it collected and is
  locked by that transaction alone.
  `TreeStaysATree` and `NothingHidden` (Acyclic; and OwnFoldersListed, that ListFolders shows
  the owner every folder, which no run checks), for at most one moving
  slot, by *TreeInv*: every nonempty set of folders has a member whose parent lies outside
  (well-foundedness without induction), and a move past its guard is still safe when it
  writes. Two moving slots are the violation above. `FoldersImplementForest`: the refinement
  (RequestsActAtOnce), under the same assumption, from all three: MoveWrite is Forest's Move
  because a guarded move is still safe (TreeInv), DeleteCommit its Delete of the collected
  folders that still exist, because what is deleted lies in them (DeletionInv), what lies in
  them is deleted (the foreign keys) and nothing is filed in a folder that is gone
  (OrphanInv); every other statement of theirs is a stutter.
- **WebTabs_proofs.** `TypeCorrect`. `RetiredTokensDie` and `GracePeriodHolds`
  (RetiredForGood, GraceHolds), by *RowInv*: the row of an issued token that no logout has
  deleted ends exactly at `End(t)`, the signed expiry or the grace period after the first
  retirement, whichever is sooner. Equality is what makes it inductive: a second retirement
  changes nothing. `RacesSignNobodyOut`: SignedOutForCause, for any number of tabs. While
  nothing has ended a session (`Quiet`), *SessionInv* says that a rejected token was retired
  Grace ago at least, and that a retired token is the stored one only while the refresh that
  retired it is still on its way to the store. That takes MaxDelay at most, the second look
  comes Grace + Settle after the retirement, and MaxDelay < Grace + Settle is assumed of the
  constants: so the second look finds the successor. It rests on *WaitInv* (each waiting tab
  has a request of its own), *CarryInv* (a new token is on its way in one place, and nobody
  has stored, sent or retired it) and *RefusedInv* (what was rejected stays rejected).
  `LogoutLeavesNothing`: LogoutRevokes, by *AloneInv*: while one tab is used, one token at
  most may outlive the grace period, at each step a known one (`MayLive`), and it is the one
  the logout sends.
- **Accounts_proofs.** `TypeCorrect`, `InvitationsMakeOne`, `BootstrapMakesOne`,
  `PendingHoldsNothing`, `LoginsAskTheCode` and `TheSoleAdministratorStays`, one for each
  property of the run, by *Sound*, whose parts need one another: *Known* (tokens, links and
  requests past their checks are of existing accounts, so an insert meets none),
  *Allowed* (each account, and each registration about to insert, has its own address's
  invitation or may bootstrap), *Quiet* (nothing that leads to a token is under way for a
  pending account), *Armed* and *Earned* (whoever claims the role has had it). The proofs
  rest on lemmas that say once what any step can do: to a request (`OthersStay`,
  `Leads`), to an account's row (`Rows`), to tokens and links (`Sources`), to invitations
  and administrators (`Slow`).
- **ShareLinks_proofs.** `Types`. `LimiterImplementsBuckets`: the refinement, from *Recent*:
  a bucket was seen at most MaxStall before its last use, and a waiting request has read the
  clock at most MaxStall ago. With `TTL >= Burst + MaxStall` a bucket is full when the sweep
  forgets it, so forgetting is a stutter. `ClosedForever`: ClosedStaysClosed, since a request that arrives
  late finds the link closed and closed is for good. `ViewsBounded`: ViewsAreBounded, by
  counting: what was shown is at most what was counted and what failed to be.
- **Terminal_proofs.** `Types`, `LockedIsEmpty`, `SecretsFollowTheDetail`, `CopiesAreWiped`:
  given the types, each of the three properties is inductive as it stands. What carries the
  first is `DrivenScreen`, that a key reaches only the screen that is open, and the guard
  lateVaultResult; the third needs that only a command that wipes ends as one (`OthersWipe`).
  `KeysStayWatched`, for one session (`Vaults = {1}`), by *WatchInv*: on an auth screen the
  keys are open only while the command that opened them has not reported.
- **CommandLine_proofs.** `Types`, and from *Agreement*, for a single process (`Alone`):
  `UpgradeIsSafeAlone`, `GuessesAreCounted`, `SessionSurvives` and
  `MasterPasswordIsAskedAgain` (PinNeedsTheMasterPassword: no PIN unlock after the interval
  since the last master password, which no run checks). Agreement says how the process's
  copy, the file and the server differ at each step: the file lags by what the step in
  progress has not saved, and no more.
  Its second half is about Commands, for any vault, any files of other programs, any number of
  commands, changes by the other client and failures. `CommandsConstants` assumes that the
  entries there are have the fields of an entry, options that fit, finitely many unknown keys
  and a list of custom fields, and that a file of another program is a list of items with
  lists in it. All follow from *CommandsInv*. Its first part says that the vault, the
  file and the running command have that shape, and that a record an import deals with has a
  name and no options, which the importers do not read (the lemmas go through all eight
  formats): that gives `OptionsStayWithTheSecret` (OptionsFitTheSecret). Its second part gives
  `SecondImportMakesNothing` (ImportTwiceAddsNothing): whatever an import finds or writes keeps
  its *face*, the name, the username and the family of types by which it is looked up, so as
  long as the other client keeps still what the import knew of the vault stays true by face
  (*KnownIsThere*), each record done with has an entry of its face (*DoneIsHeld*), and so has
  each record of the file at the end (*FileIsHeld*), from which the next import begins.
  `MergesLoseNothing`: the action property MergeKeepsTheRest. Its core is a lemma about
  mergeCustomFields for lists of any length, by induction over the file's fields (*IsPairing*):
  each has gone to a place of its own and of its label, no later one takes that place, and a
  field is appended only when its label has none left; counting along that injection gives the
  number of fields per label. `ExportsTellAll`: NothingLeftOutSilently, for every format it
  speaks of; the Bitwarden item is joined from five lists, and each value of the entry is
  followed into one of them. `ExportsComeHome`: ComesHome. It needs nothing of the past but the
  shape of the entries (CommandsInv) and that the file's items are still those written, so its
  core is a lemma per format about the exporter and the importer together, for lists of any
  length (*GenericReturns*, *OnePasswordReturns*, *BitwardenReturns*, *OnePuxReturns*,
  *BackupReturns*): a cell is found again by the place of its column; a field of Bitwarden is
  picked by its name and stays what it was, a file or none, and the words of its tags are those
  of the one field for them; a 1Password section is found by its id, all sections of one id hold
  the value of one key (*MappedKey*, *SectionsPlace*), no section speaks for the keys of the
  login (*UnmappedKey*), and a code that is taken from a custom field touches none of the keys
  looked for.
- **Extension_proofs.** `Types`. `OnlyUnlocksOpen`, by *OpenInv*: an open memory is stored,
  what is stored was opened by an unlock, and while it is stored and not in memory no
  refresh, unlock or logout is under way. `GuessesBounded`, by *GuessInv*: the count on the record, and the
  one an attempt holds, stay above the wrong PINs tried. `TokenKept`, by *TokenInv*: the
  token stored is not a retired one, or the newest is on its way to the store.

Induction is done here over a set of numbers (lemma `Induction`, from the well-foundedness of
`<` on Nat), since the library's induction theorems take an operator that the provers cannot
instantiate. For that the recursions to be proved about are recursive functions
(`Listed`, `MergeCustomFields`) and lists are filtered by position (`Where`).

Every invariant and every action property a run checks is so proved, but for the assumptions
named. Only model-checked: liveness, EveryRequestAnswered and IdleVaultLocks, which like ENABLED
is out of the prover's reach.

## 5. What is left

Not modelled yet, in the order in which they would add most:

1. **Jobs** with the Flutter job runner: a late progress report against the final one, a lock
   or a cancel during a run.
2. **The Flutter vault session**: keys set after awaits against the auto-lock, the PIN's count
   across tabs, the router's redirects. Its tokens are in WebTabs and its key upgrade is the
   CLI's.
3. **The TUI's list**: folder stack, cursor and filter against late reloads.
4. **The extension's caches**, pending save and single sign-on.
5. **Abstract specifications** of EntryStore (a versioned cell) and TokenServer (one lifetime
   per token), as Forest is FolderTree's and TokenBuckets the limiter's.
6. The Dart port of import and export against Records.

Not modelled at all: SetFavorite, read-only list queries without a decision in them, random
generators, crypto primitives, mail, HTML, widgets, DOM heuristics, deployment: they keep no state that another
actor can meet halfway, or none that TLC's small instances would say something about.
