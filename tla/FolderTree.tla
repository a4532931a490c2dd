----------------------------- MODULE FolderTree -----------------------------
(***************************************************************************)
(* One user's folders (folders.parent_id), the entries filed in them       *)
(* (entries.folder_id) and the permissions on them, with the requests that *)
(* create, move, delete and share folders and move entries.                *)
(*                                                                         *)
(* As in EntryStore a request runs one statement at a time.  Requests of a *)
(* single statement are one action; UpdateFolder and DeleteFolder have     *)
(* several.  DeleteFolder's last DELETE and its COMMIT are one step; the   *)
(* rows its first DELETE took stay locked until then.                      *)
(***************************************************************************)
EXTENDS Integers, FiniteSets

CONSTANTS
  Folders,        \* folder ids, used and unused
  Entries,        \* entry ids
  Requests,       \* request slots
  Movers,         \* the slots that may move a folder
  Ops,            \* the operations the clients issue
  MaxCalls        \* bound on the requests ever started

Root == "root"      \* parent_id and folder_id are NULL
Unused == "unused"  \* no row with this id yet
Gone == "gone"      \* the row is deleted
None == "none"

AllOps == {"move", "delete"}

ASSUME ConstantsAssumption ==
  /\ IsFiniteSet(Folders)
  /\ {Root, Unused, Gone, None} \cap (Folders \cup Entries) = {}
  /\ Movers \subseteq Requests
  /\ Ops \subseteq AllOps
  /\ MaxCalls \in Nat

VARIABLES
  parent,     \* folders: parent_id
  filed,      \* entries: folder_id
  shared,     \* folder_permissions: the folders a recipient may see
  req,        \* the requests in flight
  calls       \* requests started so far

vars == <<parent, filed, shared, req, calls>>

Places == Folders \cup {Root}

Idle == [op |-> None, pc |-> "idle", folder |-> None, to |-> None, ids |-> {}, del |-> {}]

IsFolder(f) == f \in Folders /\ parent[f] \in Places

IsEntry(e) == filed[e] \in Places

\* A place something may be filed in: the foreign keys demand the row.
IsPlace(p) == p = Root \/ IsFolder(p)

-----------------------------------------------------------------------------
(* The tree.                                                               *)

Existing == {f \in Folders : IsFolder(f)}

\* What hangs on p within V, however deep: in every set that holds the children
\* of p and of its own members.
Hanging(V, p) ==
  {f \in V : \A S \in SUBSET V : {g \in V : parent[g] \in S \cup {p}} \subseteq S => f \in S}

\* WITH RECURSIVE descendants: everything below a folder.
Descendants(f) == Hanging(Existing, f)

OnCycle(f) == f \in Descendants(f)

\* UNION ALL keeps duplicates: below a cycle the recursion never ends.
QueryEnds(f) == \A g \in {f} \cup Descendants(f) : ~OnCycle(g)

\* ListFolders: a row is listed at the root or below a parent that is visible to
\* the caller too.
Listed(visible) == Hanging(visible, Root)

-----------------------------------------------------------------------------
Init ==
  /\ parent \in {p \in [Folders -> Places \cup {Unused}] :
                   \A f \in Folders : p[f] \in Folders => p[p[f]] = Root}
  /\ filed \in [Entries -> {p \in Places : IsPlace(p)}]
  /\ shared = {}
  /\ req = [r \in Requests |-> Idle]
  /\ calls = 0

At(r, op, pc) == req[r].op = op /\ req[r].pc = pc

Answer(r) == req' = [req EXCEPT ![r] = Idle]

\* A client asks to move or delete a folder it has listed; a move to the root is
\* not checked.
Call(r, op, f) ==
  /\ req[r] = Idle
  /\ calls < MaxCalls
  /\ IsFolder(f)
  /\ op = "move" => r \in Movers
  /\ calls' = calls + 1
  /\ \E p \in (IF op = "move" THEN {q \in Places : IsPlace(q)} ELSE {None}) :
       req' = [req EXCEPT ![r] =
                [Idle EXCEPT !.op = op, !.folder = f, !.to = p,
                             !.pc = IF p = Root THEN "write" ELSE "check"]]
  /\ UNCHANGED <<parent, filed, shared>>

\* Mutant: only the folder itself is refused as its new parent.
MoveRefusedIntoItself(f, to) == to = f

\* The cycle guard of UpdateFolder.
MoveRefused(f, to) == to = f \/ to \in Descendants(f)

\* UpdateFolder, the guard.
MoveCheck(r) ==
  /\ At(r, "move", "check")
  /\ QueryEnds(req[r].folder)
  /\ IF MoveRefused(req[r].folder, req[r].to)
       THEN Answer(r)
       ELSE req' = [req EXCEPT ![r].pc = "write"]
  /\ UNCHANGED <<parent, filed, shared, calls>>

\* UpdateFolder, the UPDATE: no row if the folder is gone, an error (foreign key)
\* if the new parent is.
MoveWrite(r) ==
  /\ At(r, "move", "write")
  /\ parent' = IF IsFolder(req[r].folder) /\ IsPlace(req[r].to)
                 THEN [parent EXCEPT ![req[r].folder] = req[r].to] ELSE parent
  /\ Answer(r)
  /\ UNCHANGED <<filed, shared, calls>>

\* DeleteFolder, the SELECT: the folder and everything below it.
DeleteCollect(r) ==
  /\ At(r, "delete", "check")
  /\ QueryEnds(req[r].folder)
  /\ IF IsFolder(req[r].folder)
       THEN req' = [req EXCEPT ![r].pc = "entries",
                               ![r].ids = {req[r].folder} \cup Descendants(req[r].folder)]
       ELSE Answer(r)
  /\ UNCHANGED <<parent, filed, shared, calls>>

\* Mutant: the entries are collected, and not deleted before the end.
LockedNone == {}

\* Entries a transaction has deleted and not yet committed: their rows are locked.
Locked == UNION {req[r].del : r \in Requests}

Doomed(r) == {e \in Entries : filed[e] \in req[r].ids}

\* DeleteFolder, DELETE FROM entries: waits for rows a rival has deleted.
DeleteEntries(r) ==
  /\ At(r, "delete", "entries")
  /\ Doomed(r) \cap Locked = {}
  /\ req' = [req EXCEPT ![r].pc = "commit", ![r].del = Doomed(r)]
  /\ UNCHANGED <<parent, filed, shared, calls>>

\* Mutant: the foreign keys of folder_id and parent_id are not declared.
StrandsNothing(r) == TRUE

\* What the foreign keys of folder_id and parent_id demand of DELETE FROM folders.
NoneLeftInside(r) ==
  /\ \A e \in Entries \ req[r].del : filed[e] \notin req[r].ids
  /\ \A f \in Folders \ req[r].ids : parent[f] \notin req[r].ids

\* DeleteFolder, DELETE FROM folders and COMMIT, or ROLLBACK.
DeleteCommit(r) ==
  /\ At(r, "delete", "commit")
  /\ IF NoneLeftInside(r)
       THEN /\ parent' = [f \in Folders |-> IF f \in req[r].ids /\ IsFolder(f)
                                              THEN Gone ELSE parent[f]]
            /\ filed' = [e \in Entries |-> IF e \in req[r].del THEN Gone ELSE filed[e]]
            /\ shared' = shared \ req[r].ids
       ELSE UNCHANGED <<parent, filed, shared>>
  /\ Answer(r)
  /\ UNCHANGED calls

\* ShareFolder.  The owner check before it can only have seen the same or more: the
\* permission's foreign key decides, and its error is ignored.
Share(f) ==
  /\ calls < MaxCalls
  /\ IsFolder(f)
  /\ shared' = shared \cup {f}
  /\ calls' = calls + 1
  /\ UNCHANGED <<parent, filed, req>>

\* RevokeFolderShare.
Revoke(f) ==
  /\ f \in shared
  /\ shared' = shared \ {f}
  /\ UNCHANGED <<parent, filed, req, calls>>

\* CreateFolder, with a parent the client has listed; the foreign key holds.
CreateFolder(f, p) ==
  /\ calls < MaxCalls
  /\ parent[f] = Unused
  /\ IsPlace(p)
  /\ parent' = [parent EXCEPT ![f] = p]
  /\ calls' = calls + 1
  /\ UNCHANGED <<filed, shared, req>>

\* UpdateEntry of a move (the whole request is module EntryStore): waits while the
\* row is locked; the foreign key refuses a folder that is gone.
MoveEntry(e, p) ==
  /\ calls < MaxCalls
  /\ IsEntry(e)
  /\ e \notin Locked
  /\ IsPlace(p)
  /\ filed' = [filed EXCEPT ![e] = p]
  /\ calls' = calls + 1
  /\ UNCHANGED <<parent, shared, req>>

\* The request's context is cancelled or the process dies: an open transaction is
\* rolled back.
Die(r) ==
  /\ req[r] # Idle
  /\ Answer(r)
  /\ UNCHANGED <<parent, filed, shared, calls>>

Handle(r) ==
  \/ MoveCheck(r) \/ MoveWrite(r)
  \/ DeleteCollect(r) \/ DeleteEntries(r) \/ DeleteCommit(r)

Next ==
  \/ \E r \in Requests :
       \/ \E op \in Ops, f \in Folders : Call(r, op, f)
       \/ Handle(r) \/ Die(r)
  \/ \E f \in Folders : Share(f) \/ Revoke(f) \/ \E p \in Places : CreateFolder(f, p)
  \/ \E e \in Entries, p \in Places : MoveEntry(e, p)

Spec == Init /\ [][Next]_vars

\* Every request has a goroutine, and a lock is passed on when it is free.
FairSpec == Spec /\ \A r \in Requests : WF_vars(Handle(r))

-----------------------------------------------------------------------------
RequestRecords ==
  [op : AllOps, pc : {"check", "write", "entries", "commit"},
   folder : Folders, to : Places \cup {None}, ids : SUBSET Folders, del : SUBSET Entries]

\* Every variable has its type.
TypeOK ==
  /\ parent \in [Folders -> Places \cup {Unused, Gone}]
  /\ filed \in [Entries -> Places \cup {Gone}]
  /\ shared \in SUBSET Folders
  /\ req \in [Requests -> RequestRecords \cup {Idle}]
  /\ calls \in 0 .. MaxCalls

\* Nothing is filed in a folder that is gone, and no permission on one is left,
\* whatever is moved or created while DeleteFolder is under way.
NoOrphans ==
  /\ \A e \in Entries : IsEntry(e) => IsPlace(filed[e])
  /\ \A f \in Folders : IsFolder(f) => IsPlace(parent[f])
  /\ \A f \in shared : IsFolder(f)

\* UpdateFolder's guard keeps the folders a tree: none is below itself.
Acyclic == \A f \in Folders : ~OnCycle(f)

\* ListFolders shows the owner every folder there is.
OwnFoldersListed == Listed(Existing) = Existing

\* Statement by statement, among stale ids, checks made too early and requests that die
\* half-way, the requests act as single steps on a forest.  DeleteFolder takes exactly
\* the entries filed in the folders that go with it: one moved out before survives, one
\* moved in keeps its folder.
Trees == INSTANCE Forest
RequestsActAtOnce == Trees!Spec

\* Every request ends; a recursive query over a cycle would not.
EveryRequestAnswered == \A r \in Requests : req[r] # Idle ~> req[r] = Idle
=============================================================================
