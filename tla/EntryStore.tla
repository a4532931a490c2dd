----------------------------- MODULE EntryStore -----------------------------
(***************************************************************************)
(* The rows the server keeps for one vault entry (entries, entry_keys,     *)
(* entry_permissions, entry_versions, entry_version_keys) and the API      *)
(* requests that read and write them, with the part of the clients that    *)
(* decides which data key an edit is encrypted with.                       *)
(*                                                                         *)
(* A request is a record in req that moves through its database            *)
(* statements one at a time, so requests interleave between statements as  *)
(* PostgreSQL's READ COMMITTED lets them.  Inside a transaction the last   *)
(* writes and the COMMIT are one step, Finish...: the UPDATE of the entry    *)
(* row locks it until the commit, and nothing a rival could do in between  *)
(* is visible or possible before it.                                       *)
(*                                                                         *)
(* Rows of different entries are never touched by one of these requests    *)
(* (folder deletion is module FolderTree), so one entry is enough.         *)
(***************************************************************************)
EXTENDS Integers, FiniteSets

CONSTANTS
  Users,          \* the accounts that may call the API
  Owner,          \* the account that creates the entry
  Requests,       \* request slots: how many requests may be in flight
  Folders,        \* folders an entry may be filed in (besides the root)
  Grants,         \* permissions a share may grant
  Ops,            \* the operations the clients issue
  MaxVersions,    \* maxVersionsPerEntry (20 in the code)
  MaxCalls,       \* bound on the requests ever started
  Starts,         \* the initial states considered
  Faults          \* TRUE: statements fail and requests die half-way

None == "none"
Root == "root"
NoUser == "nobody"

\* Where a request is: the statement it runs next.
Pcs == {"get", "getKey", "reply", "perm", "insert", "createKey", "createGrant",
        "snap", "snapKeys", "prune", "waiting", "finish", "restoring",
        "trash", "untrash", "purge",
        "key", "grant", "unperm", "unkey", "access", "ver", "verKey"}

AllOps == {"create", "edit", "move", "rewrap", "trash", "untrash", "purge",
           "share", "revoke", "restoreVersion", "read", "readVersion"}

ASSUME ConstantsAssumption ==
  /\ Owner \in Users
  /\ NoUser \notin Users
  /\ IsFiniteSet(Requests)
  /\ Root \notin Folders
  /\ Grants \subseteq {"read", "write", "owner"}
  /\ Ops \subseteq AllOps
  /\ MaxVersions \in Nat \ {0}
  /\ MaxCalls \in Nat
  /\ Starts \subseteq {"absent", "created", "shared", "edited", "rekeyed"}
  /\ Faults \in BOOLEAN

VARIABLES
  entry,      \* the entries row: life, blob (body, data key), folder
  keys,       \* entry_keys: the data key wrapped for a user, 0 = no row
  perms,      \* entry_permissions.permission, None = no row
  grantedBy,  \* entry_permissions.granted_by
  versions,   \* entry_versions with their entry_version_keys
  req,        \* the requests in flight
  calls,      \* requests started so far; also names the body an edit writes
  stamp,      \* transactions begun so far: NOW() of the next one
  owed        \* bodies that were overwritten and that no prune has removed

vars == <<entry, keys, perms, grantedBy, versions, req, calls, stamp, owed>>

Permissions == {None, "read", "write", "owner"}
DataKeys == 0 .. 2     \* 0: no key; 1: the creator's; 2: an older client's fresh one
Blobs == [body : 0 .. MaxCalls, dk : DataKeys]
Lives == {"absent", "live", "trash", "gone"}
Versions == [at : Nat, blob : Blobs, keys : [Users -> DataKeys]]

Empty == [body |-> 0, dk |-> 0]

Idle == [op |-> None, pc |-> "idle", user |-> NoUser, target |-> NoUser, grant |-> None,
         folder |-> Root, body |-> 0, blob |-> Empty, dk |-> 0, at |-> 0, ver |-> -1,
         snap |-> Empty, snapKeys |-> [u \in Users |-> 0], del |-> {}]

Versioned == {"edit", "restoreVersion"}

\* Transactions that have inserted a version row.  Its foreign key locks the
\* entry row against deletion (FOR KEY SHARE) until they end.
InTx == {r \in Requests :
           /\ req[r].op \in Versioned
           /\ req[r].pc \in {"snapKeys", "prune", "waiting", "finish", "restoring"}}

Exists == entry.life \in {"live", "trash"}

-----------------------------------------------------------------------------
(* The states the service is found in: no entry yet, a new one, one shared *)
(* with every user, the same with a history, and one whose current blob an *)
(* older client re-keyed (CHANGELOG: it stored a fresh data key for the    *)
(* editing user alone).                                                    *)

InitEntry(start) ==
  [life |-> IF start = "absent" THEN "absent" ELSE "live",
   blob |-> [body |-> 0, dk |-> IF start = "absent" THEN 0 ELSE IF start = "rekeyed" THEN 2 ELSE 1],
   folder |-> Root]

InitKey(start, u) ==
  IF start = "absent" \/ (start = "created" /\ u # Owner) THEN 0
  ELSE IF start = "rekeyed" /\ u = Owner THEN 2 ELSE 1

InitPerm(start, u) ==
  IF start = "absent" \/ (start = "created" /\ u # Owner) THEN None
  ELSE IF u = Owner THEN "owner" ELSE "write"

InitVersions(start) ==
  IF start \in {"edited", "rekeyed"}
    THEN {[at |-> 0, blob |-> [body |-> 0, dk |-> 1], keys |-> [u \in Users |-> 1]]}
    ELSE {}

Init ==
  /\ \E start \in Starts :
       /\ entry = InitEntry(start)
       /\ keys = [u \in Users |-> InitKey(start, u)]
       /\ perms = [u \in Users |-> InitPerm(start, u)]
       /\ grantedBy = [u \in Users |-> IF start \in {"shared", "edited", "rekeyed"} /\ u # Owner
                                         THEN Owner ELSE NoUser]
       /\ versions = InitVersions(start)
  /\ req = [r \in Requests |-> Idle]
  /\ calls = 0
  /\ stamp = 0
  /\ owed = {}

-----------------------------------------------------------------------------
(* Starting a request, and the steps that several handlers share.          *)

FirstPc(op) ==
  CASE op \in {"edit", "rewrap", "share", "read"} -> "get"
    [] op = "create" -> "insert"
    [] op = "revoke" -> "unperm"
    [] op = "readVersion" -> "access"
    [] OTHER -> "perm"

\* A client issues a request.  An edit carries a new body, named by its number.
Call(r, op, u) ==
  /\ req[r] = Idle
  /\ calls < MaxCalls
  /\ op = "create" => u = Owner /\ entry.life = "absent" /\ \A s \in Requests : req[s].op # op
  /\ calls' = calls + 1
  /\ \E t \in (IF op \in {"share", "revoke"} THEN Users ELSE {NoUser}),
        g \in (IF op = "share" THEN Grants ELSE {None}),
        f \in (IF op = "move" THEN Folders \cup {Root} ELSE {Root}),
        v \in (IF op \in {"restoreVersion", "readVersion"}
                 THEN {x.at : x \in versions} ELSE {-1}) :
       req' = [req EXCEPT ![r] = [Idle EXCEPT
                 !.op = op, !.pc = FirstPc(op), !.user = u, !.target = t, !.grant = g,
                 !.folder = f, !.body = calls + 1, !.ver = v]]
  /\ UNCHANGED <<entry, keys, perms, grantedBy, versions, stamp, owed>>

At(r, pc) == req[r].pc = pc

Goto(r, pc) == req' = [req EXCEPT ![r].pc = pc]

\* The handler answers, with success or an error, and the slot is free again.
Answer(r) == req' = [req EXCEPT ![r] = Idle]

\* The LEFT JOIN of ListEntries, GetEntry and requireEntryAccess.
MayRead(u) == Exists /\ (u = Owner \/ perms[u] # None)

\* Roles a handler passes to entryPerm; entryPerm looks at permission rows only.
Roles(op) == IF op \in {"edit", "move", "rewrap", "restoreVersion"}
               THEN {"write", "owner"} ELSE {"owner"}

AfterPerm(op) ==
  CASE op \in {"edit", "restoreVersion"} -> "snap"
    [] op \in {"move", "rewrap"} -> "finish"
    [] op \in {"trash", "untrash", "purge"} -> op
    [] OTHER -> "key"

\* BEGIN: NOW() of the transaction is taken, and orders its version.
Begin(r) ==
  /\ stamp' = stamp + 1
  /\ req' = [req EXCEPT ![r].pc = "snap", ![r].at = stamp + 1]

\* entryPerm.  A handler that writes in a transaction begins it here.
CheckPerm(r) ==
  /\ At(r, "perm")
  /\ IF perms[req[r].user] \in Roles(req[r].op)
       THEN IF AfterPerm(req[r].op) = "snap"
              THEN Begin(r)
              ELSE Goto(r, AfterPerm(req[r].op)) /\ UNCHANGED stamp
       ELSE Answer(r) /\ UNCHANGED stamp
  /\ UNCHANGED <<entry, keys, perms, grantedBy, versions, calls, owed>>

\* GetEntry, first statement: access check and blob.
GetBlob(r) ==
  /\ At(r, "get")
  /\ IF MayRead(req[r].user) /\ entry.life = "live"
       THEN req' = [req EXCEPT ![r].pc = "getKey", ![r].blob = entry.blob,
                               ![r].folder = entry.folder]
       ELSE Answer(r)
  /\ UNCHANGED <<entry, keys, perms, grantedBy, versions, calls, stamp, owed>>

\* GetEntry, second statement: the caller's wrapped key.  The client then goes
\* on: an edit, a re-wrap and a share need the data key, and stop without one;
\* an edit has decrypted the entry first, so it also stops when the key is stale.
GetKey(r) ==
  /\ At(r, "getKey")
  /\ LET k == keys[req[r].user] IN
       IF k = 0 \/ (req[r].op = "edit" /\ k # req[r].blob.dk) THEN Answer(r)
       ELSE req' = [req EXCEPT ![r].dk = k,
                               ![r].pc = IF req[r].op = "read" THEN "reply" ELSE "perm"]
  /\ UNCHANGED <<entry, keys, perms, grantedBy, versions, calls, stamp, owed>>

\* The client has its answer.
Reply(r) ==
  /\ At(r, "reply")
  /\ Answer(r)
  /\ UNCHANGED <<entry, keys, perms, grantedBy, versions, calls, stamp, owed>>

-----------------------------------------------------------------------------
(* CreateEntry: three statements without a transaction.  The errors of the *)
(* last two (a foreign key that is gone, for one) are ignored.             *)

CreateInsert(r) ==
  /\ At(r, "insert")
  /\ entry' = [life |-> "live", blob |-> [body |-> req[r].body, dk |-> 1], folder |-> Root]
  /\ Goto(r, "createKey")
  /\ UNCHANGED <<keys, perms, grantedBy, versions, calls, stamp, owed>>

CreateKey(r) ==
  /\ At(r, "createKey")
  /\ keys' = IF Exists THEN [keys EXCEPT ![req[r].user] = 1] ELSE keys
  /\ Goto(r, "createGrant")
  /\ UNCHANGED <<entry, perms, grantedBy, versions, calls, stamp, owed>>

CreateGrant(r) ==
  /\ At(r, "createGrant")
  /\ perms' = IF Exists /\ perms[req[r].user] = None
                THEN [perms EXCEPT ![req[r].user] = "owner"] ELSE perms
  /\ Answer(r)
  /\ UNCHANGED <<entry, keys, grantedBy, versions, calls, stamp, owed>>

-----------------------------------------------------------------------------
(* UpdateEntry (edit, move, rewrap) and RestoreVersion.                    *)

\* snapshotVersionTx, INSERT ... SELECT: no row to copy is an error.
SnapBlob(r) ==
  /\ At(r, "snap")
  /\ IF Exists THEN req' = [req EXCEPT ![r].pc = "snapKeys", ![r].snap = entry.blob]
               ELSE Answer(r)
  /\ UNCHANGED <<entry, keys, perms, grantedBy, versions, calls, stamp, owed>>

\* snapshotVersionTx, the entry_keys of the moment.
SnapKeys(r) ==
  /\ At(r, "snapKeys")
  /\ req' = [req EXCEPT ![r].pc = "prune", ![r].snapKeys = keys]
  /\ UNCHANGED <<entry, keys, perms, grantedBy, versions, calls, stamp, owed>>

\* What the transaction sees: the committed versions and its own.
Seen(r) == versions \cup {[at |-> req[r].at, blob |-> req[r].snap, keys |-> req[r].snapKeys]}

\* Mutant: the prune keeps one version more.
SurplusOffByOne(V, keep) ==
  {v.at : v \in {x \in V : Cardinality({y \in V : y.at > x.at}) > MaxVersions}} \ {keep}

\* ORDER BY created_at DESC OFFSET maxVersionsPerEntry, sparing keepVersionID.
Surplus(V, keep) ==
  {v.at : v \in {x \in V : Cardinality({y \in V : y.at > x.at}) >= MaxVersions}} \ {keep}

\* A transaction that has deleted its surplus and not yet committed.
HoldsRows(r) == r \in InTx /\ req[r].pc \in {"finish", "restoring"}

\* A rival has deleted one of these rows and not yet committed.
LockedByRival(r, del) == \E s \in Requests \ {r} : HoldsRows(s) /\ req[s].del \cap del # {}

\* snapshotVersionTx, the prune.  What it deletes is settled by what the statement
\* sees when it starts.  A row that a rival has deleted and not yet committed is
\* locked: the statement waits.
Prune(r) ==
  /\ At(r, "prune")
  /\ LET del == Surplus(Seen(r), req[r].ver) IN
       req' = [req EXCEPT ![r].pc = IF LockedByRival(r, del) THEN "waiting" ELSE "finish",
                          ![r].del = del]
  /\ UNCHANGED <<entry, keys, perms, grantedBy, versions, calls, stamp, owed>>

\* The rival is through, and the prune goes on with the rows it had found: those
\* the rival's commit took are passed over, and none takes their place.  (It takes
\* its rows at once: of two prunes that hold rows of one another's PostgreSQL
\* aborts one, which is Die.)
PruneWaited(r) ==
  /\ At(r, "waiting")
  /\ ~LockedByRival(r, req[r].del)
  /\ Goto(r, "finish")
  /\ UNCHANGED <<entry, keys, perms, grantedBy, versions, calls, stamp, owed>>

\* Mutant: the snapshot is not inserted.
KeptWithoutSnapshot(r) == {v \in versions : v.at \notin req[r].del}

\* The versions once the transaction has committed.
Kept(r) == {v \in Seen(r) : v.at \notin req[r].del}

\* Bodies the history owes a reader: the overwritten one joins, pruned ones leave.
Overwritten(r) ==
  (owed \cup {entry.blob.body}) \ {v.blob.body : v \in {x \in Seen(r) : x.at \in req[r].del}}

\* Mutant: the client draws a new data key for the edit.
EditBlobFreshKey(r) == [body |-> req[r].body, dk |-> 2]

\* reencryptEntry, updateEntry: the new body under the data key that was fetched.
EditBlob(r) == [body |-> req[r].body, dk |-> req[r].dk]

\* The clients echo the folder they fetched: the UPDATE always overwrites it.
EditFolder(r) == req[r].folder

\* UpdateEntry with a new blob: the UPDATE and the COMMIT.
FinishEdit(r) ==
  /\ At(r, "finish")
  /\ req[r].op = "edit"
  /\ entry' = [entry EXCEPT !.blob = EditBlob(r), !.folder = EditFolder(r)]
  /\ versions' = Kept(r)
  /\ owed' = Overwritten(r)
  /\ Answer(r)
  /\ UNCHANGED <<keys, perms, grantedBy, calls, stamp>>

\* UpdateEntry without a blob: a move, or a key re-wrapped for the caller.  Of a
\* purged entry the UPDATE finds no row, and the key upsert fails the commit.
FinishMeta(r) ==
  /\ At(r, "finish")
  /\ req[r].op \in {"move", "rewrap"}
  /\ entry' = IF Exists THEN [entry EXCEPT !.folder = req[r].folder] ELSE entry
  /\ keys' = IF Exists /\ req[r].op = "rewrap"
               THEN [keys EXCEPT ![req[r].user] = req[r].dk] ELSE keys
  /\ Answer(r)
  /\ UNCHANGED <<perms, grantedBy, versions, calls, stamp, owed>>

\* Mutants: only the blob is restored; the keys of the version replace the
\* current ones; everybody the version had a key for gets a key.
RestoredKeysUntouched(v) == keys
RestoredKeysReplaced(v) == v.keys
RestoredKeysAdded(v) == [u \in Users |-> IF v.keys[u] # 0 THEN v.keys[u] ELSE keys[u]]

\* Everyone with a key row now and one in the version gets the version's back.
RestoredKeys(v) ==
  [u \in Users |-> IF keys[u] # 0 /\ v.keys[u] # 0 THEN v.keys[u] ELSE keys[u]]

\* RestoreVersion.  A version that is gone rolls everything back (404).
FinishRestore(r) ==
  /\ At(r, "finish")
  /\ req[r].op = "restoreVersion"
  /\ IF \E v \in Kept(r) : v.at = req[r].ver
       THEN \E v \in Kept(r) :
              /\ v.at = req[r].ver
              /\ entry' = [entry EXCEPT !.blob = v.blob]
              /\ keys' = RestoredKeys(v)
              /\ versions' = Kept(r)
              /\ owed' = Overwritten(r)
       ELSE UNCHANGED <<entry, keys, versions, owed>>
  /\ Answer(r)
  /\ UNCHANGED <<perms, grantedBy, calls, stamp>>

\* RestoreVersion, the UPDATE while a rival has the entry row: the statement has
\* found its version, and waits.
RestoreWaits(r) ==
  /\ At(r, "finish")
  /\ req[r].op = "restoreVersion"
  /\ \E s \in InTx \ {r} : At(s, "finish")
  /\ \E v \in Kept(r) :
       /\ v.at = req[r].ver
       /\ req' = [req EXCEPT ![r].pc = "restoring", ![r].blob = v.blob]
  /\ UNCHANGED <<entry, keys, perms, grantedBy, versions, calls, stamp, owed>>

\* The rival is through: the UPDATE writes the blob it had found, even of a version
\* the rival has pruned.  The next statement then finds no keys of it to restore.
\* (Earlier than that the version is there, and this is FinishRestore.)
RestoreWaited(r) ==
  /\ At(r, "restoring")
  /\ req[r].op = "restoreVersion"
  /\ entry' = [entry EXCEPT !.blob = req[r].blob]
  /\ \/ \E v \in Kept(r) : v.at = req[r].ver /\ keys' = RestoredKeys(v)
     \/ (\A v \in Kept(r) : v.at # req[r].ver) /\ UNCHANGED keys
  /\ versions' = Kept(r)
  /\ owed' = Overwritten(r)
  /\ Answer(r)
  /\ UNCHANGED <<perms, grantedBy, calls, stamp>>

-----------------------------------------------------------------------------
(* Trash.                                                                  *)

DeleteEntry(r) ==
  /\ At(r, "trash")
  /\ entry' = [entry EXCEPT !.life = IF @ = "live" THEN "trash" ELSE @]
  /\ Answer(r)
  /\ UNCHANGED <<keys, perms, grantedBy, versions, calls, stamp, owed>>

RestoreEntry(r) ==
  /\ At(r, "untrash")
  /\ entry' = [entry EXCEPT !.life = IF @ = "trash" THEN "live" ELSE @]
  /\ Answer(r)
  /\ UNCHANGED <<keys, perms, grantedBy, versions, calls, stamp, owed>>

\* Mutant: entry_keys does not cascade.
DeleteRowsKeepingKeys ==
  /\ entry' = [life |-> "gone", blob |-> Empty, folder |-> Root]
  /\ perms' = [u \in Users |-> None]
  /\ grantedBy' = [u \in Users |-> NoUser]
  /\ versions' = {}
  /\ owed' = {}
  /\ UNCHANGED keys

\* DELETE FROM entries: every other row goes with it (ON DELETE CASCADE).
DeleteRows ==
  /\ entry' = [life |-> "gone", blob |-> Empty, folder |-> Root]
  /\ keys' = [u \in Users |-> 0]
  /\ perms' = [u \in Users |-> None]
  /\ grantedBy' = [u \in Users |-> NoUser]
  /\ versions' = {}
  /\ owed' = {}

\* Mutant: it waits for every other request on the entry, a purge too.
PurgeEntryAlone(r) ==
  /\ At(r, "purge")
  /\ \A s \in Requests \ {r} : req[s] = Idle
  /\ IF Exists THEN DeleteRows ELSE UNCHANGED <<entry, keys, perms, grantedBy, versions, owed>>
  /\ Answer(r)
  /\ UNCHANGED <<calls, stamp>>

\* PurgeEntry takes live entries too; it waits for open version inserts.
PurgeEntry(r) ==
  /\ At(r, "purge")
  /\ InTx = {}
  /\ IF Exists THEN DeleteRows ELSE UNCHANGED <<entry, keys, perms, grantedBy, versions, owed>>
  /\ Answer(r)
  /\ UNCHANGED <<calls, stamp>>

\* purgeOnce, when the retention of a trashed entry is over.
PurgeOnce ==
  /\ "trash" \in Ops
  /\ entry.life = "trash"
  /\ InTx = {}
  /\ DeleteRows
  /\ UNCHANGED <<req, calls, stamp>>

-----------------------------------------------------------------------------
(* Sharing: two statements without a transaction, each way.                *)

\* ShareEntry, the key: fails (foreign key) once the entry is purged.
ShareKey(r) ==
  /\ At(r, "key")
  /\ IF Exists
       THEN keys' = [keys EXCEPT ![req[r].target] = req[r].dk] /\ Goto(r, "grant")
       ELSE UNCHANGED keys /\ Answer(r)
  /\ UNCHANGED <<entry, perms, grantedBy, versions, calls, stamp, owed>>

\* ShareEntry, the permission: a row that exists keeps its granted_by.
ShareGrant(r) ==
  /\ At(r, "grant")
  /\ LET t == req[r].target IN
       IF Exists
         THEN /\ perms' = [perms EXCEPT ![t] = req[r].grant]
              /\ grantedBy' = [grantedBy EXCEPT ![t] = IF perms[t] = None
                                                         THEN req[r].user ELSE @]
         ELSE UNCHANGED <<perms, grantedBy>>
  /\ Answer(r)
  /\ UNCHANGED <<entry, keys, versions, calls, stamp, owed>>

\* RevokeEntryShare, the permission: by the owner or by whoever granted it.
\* The owner_id read before it never changes, so it is read here.
RevokePerm(r) ==
  /\ At(r, "unperm")
  /\ LET t == req[r].target IN
       IF perms[t] # None /\ req[r].user \in {grantedBy[t], Owner}
         THEN /\ perms' = [perms EXCEPT ![t] = None]
              /\ grantedBy' = [grantedBy EXCEPT ![t] = NoUser]
              /\ Goto(r, "unkey")
         ELSE UNCHANGED <<perms, grantedBy>> /\ Answer(r)
  /\ UNCHANGED <<entry, keys, versions, calls, stamp, owed>>

RevokeKey(r) ==
  /\ At(r, "unkey")
  /\ keys' = [keys EXCEPT ![req[r].target] = 0]
  /\ Answer(r)
  /\ UNCHANGED <<entry, perms, grantedBy, versions, calls, stamp, owed>>

-----------------------------------------------------------------------------
(* GetVersion: access check, blob, key.                                    *)

RequireAccess(r) ==
  /\ At(r, "access")
  /\ IF MayRead(req[r].user) THEN Goto(r, "ver") ELSE Answer(r)
  /\ UNCHANGED <<entry, keys, perms, grantedBy, versions, calls, stamp, owed>>

GetVersionBlob(r) ==
  /\ At(r, "ver")
  /\ IF \E v \in versions : v.at = req[r].ver
       THEN \E v \in versions :
              /\ v.at = req[r].ver
              /\ req' = [req EXCEPT ![r].pc = "verKey", ![r].blob = v.blob]
       ELSE Answer(r)
  /\ UNCHANGED <<entry, keys, perms, grantedBy, versions, calls, stamp, owed>>

\* The version, if the caller has a key to it.
Readable(r) == {v \in versions : v.at = req[r].ver /\ v.keys[req[r].user] # 0}

GetVersionKey(r) ==
  /\ At(r, "verKey")
  /\ IF Readable(r) # {}
       THEN \E v \in Readable(r) :
              req' = [req EXCEPT ![r].pc = "reply", ![r].dk = v.keys[req[r].user]]
       ELSE Answer(r)
  /\ UNCHANGED <<entry, keys, perms, grantedBy, versions, calls, stamp, owed>>

-----------------------------------------------------------------------------
(* Failures.                                                               *)

\* The process dies or the client hangs up, which cancels the request's context:
\* statements already run stay, an open transaction is rolled back.
Die(r) ==
  /\ Faults
  /\ req[r] # Idle
  /\ Answer(r)
  /\ UNCHANGED <<entry, keys, perms, grantedBy, versions, calls, stamp, owed>>

\* A statement whose error the handler ignores fails; the handler goes on.
StatementFails(r) ==
  /\ Faults
  /\ \/ At(r, "createKey") /\ Goto(r, "createGrant")
     \/ req[r].pc \in {"createGrant", "grant", "unkey"} /\ Answer(r)
  /\ UNCHANGED <<entry, keys, perms, grantedBy, versions, calls, stamp, owed>>

-----------------------------------------------------------------------------
Handle(r) ==
  \/ CheckPerm(r) \/ GetBlob(r) \/ GetKey(r) \/ Reply(r)
  \/ CreateInsert(r) \/ CreateKey(r) \/ CreateGrant(r)
  \/ SnapBlob(r) \/ SnapKeys(r) \/ Prune(r) \/ PruneWaited(r)
  \/ FinishEdit(r) \/ FinishMeta(r) \/ FinishRestore(r) \/ RestoreWaits(r) \/ RestoreWaited(r)
  \/ DeleteEntry(r) \/ RestoreEntry(r) \/ PurgeEntry(r)
  \/ ShareKey(r) \/ ShareGrant(r) \/ RevokePerm(r) \/ RevokeKey(r)
  \/ RequireAccess(r) \/ GetVersionBlob(r) \/ GetVersionKey(r)

Next ==
  \/ \E r \in Requests :
       \/ \E op \in Ops, u \in Users : Call(r, op, u)
       \/ Handle(r) \/ Die(r) \/ StatementFails(r)
  \/ PurgeOnce

Spec == Init /\ [][Next]_vars

\* net/http runs every request in a goroutine of its own, and PostgreSQL wakes a
\* statement once the lock it waits for is free: no request waits forever while
\* it could run its next statement.
FairSpec == Spec /\ \A r \in Requests : WF_vars(Handle(r))

-----------------------------------------------------------------------------
(* Types and safety.                                                       *)

RequestRecords ==
  [op : AllOps, pc : Pcs, user : Users,
   target : Users \cup {NoUser}, grant : Permissions, folder : Folders \cup {Root},
   body : 0 .. MaxCalls, blob : Blobs, dk : DataKeys, at : Nat,
   ver : Nat \cup {-1}, snap : Blobs, snapKeys : [Users -> DataKeys],
   del : SUBSET Nat]

\* Every variable has its type.
TypeOK ==
  /\ entry \in [life : Lives, blob : Blobs, folder : Folders \cup {Root}]
  /\ keys \in [Users -> DataKeys]
  /\ perms \in [Users -> Permissions]
  /\ grantedBy \in [Users -> Users \cup {NoUser}]
  /\ versions \in SUBSET Versions
  /\ req \in [Requests -> RequestRecords \cup {Idle}]
  /\ calls \in 0 .. MaxCalls
  /\ stamp \in Nat
  /\ owed \in SUBSET (0 .. MaxCalls)

\* Whoever has a wrapped key can open what it belongs to, the current blob or a
\* version, in every state between the statements of all requests: what the
\* clients' reuse of the data key is for ("rekeyed" starts apart).
StoredKeysOpen ==
  /\ \A u \in Users : keys[u] # 0 => keys[u] = entry.blob.dk
  /\ \A v \in versions, u \in Users : v.keys[u] # 0 => v.keys[u] = v.blob.dk

\* GetEntry and GetVersion read the blob and the key in two statements, and what
\* they answer still fits together, whatever committed in between.
AnswersOpen ==
  \A r \in Requests : req[r].dk # 0 => req[r].dk = req[r].blob.dk

\* The history does not outgrow maxVersionsPerEntry by more than the requests in
\* flight: a prune cannot see the versions rivals have not committed.
VersionsBounded == Cardinality(versions) <= MaxVersions + Cardinality(Requests)

\* Purging an entry leaves no row of it behind, and no request that was in flight
\* brings one back.
PurgedIsEmpty ==
  entry.life = "gone" =>
    /\ versions = {}
    /\ \A u \in Users : keys[u] = 0 /\ perms[u] = None

\* Every request is answered: no statements wait for one another for ever.
EveryRequestAnswered == \A r \in Requests : req[r] # Idle ~> req[r] = Idle

-----------------------------------------------------------------------------
(* What users rely on.  These hold while requests do not overlap, and the  *)
(* interleavings of two requests break them.                               *)

Quiet == \A r \in Requests : req[r] = Idle

\* "Every change saves the previous encrypted state": a body that was overwritten
\* is in the history until it is pruned.
HistoryComplete == owed \subseteq {v.blob.body : v \in versions}

\* The data key is wrapped for each authorized user, and for nobody else.
KeysMatchPermissions ==
  Quiet => \A u \in Users : (keys[u] # 0) = (perms[u] # None)

\* The owner can open the entry, whatever versions older clients left behind.
OwnerReads == Quiet /\ Exists /\ keys[Owner] # 0 => keys[Owner] = entry.blob.dk
=============================================================================
