------------------------- MODULE EntryStore_proofs -------------------------
(***************************************************************************)
(* Theorems about EntryStore, for every number of users, slots, calls and  *)
(* versions.                                                               *)
(***************************************************************************)
EXTENDS EntryStore, FiniteSetTheorems, WellFoundedInduction, TLAPS

\* The initial rows are well typed.
LEMMA InitType == Init => TypeOK
<1> SUFFICES ASSUME Init PROVE TypeOK
  OBVIOUS
<1>1. PICK start \in Starts :
        /\ entry = InitEntry(start)
        /\ keys = [u \in Users |-> InitKey(start, u)]
        /\ perms = [u \in Users |-> InitPerm(start, u)]
        /\ grantedBy = [u \in Users |-> IF start \in {"shared", "edited", "rekeyed"} /\ u # Owner
                                         THEN Owner ELSE NoUser]
        /\ versions = InitVersions(start)
  BY DEF Init
<1>2. entry \in [life : Lives, blob : Blobs, folder : Folders \cup {Root}]
  BY <1>1, ConstantsAssumption DEF ConstantsAssumption, InitEntry, Lives, Blobs, DataKeys
<1>3. keys \in [Users -> DataKeys]
  BY <1>1 DEF InitKey, DataKeys
<1>4. perms \in [Users -> Permissions]
  BY <1>1 DEF InitPerm, Permissions, None
<1>5. grantedBy \in [Users -> Users \cup {NoUser}]
  BY <1>1, ConstantsAssumption DEF ConstantsAssumption
<1>6. versions \in SUBSET Versions
  <2>1. [u \in Users |-> 1] \in [Users -> DataKeys]
    BY DEF DataKeys
  <2>2. [body |-> 0, dk |-> 1] \in Blobs
    BY ConstantsAssumption DEF ConstantsAssumption, Blobs, DataKeys
  <2> QED
    BY <1>1, <2>1, <2>2 DEF InitVersions, Versions
<1>7. req \in [Requests -> RequestRecords \cup {Idle}]
  BY DEF Init
<1>8. calls \in 0 .. MaxCalls /\ stamp \in Nat /\ owed \in SUBSET (0 .. MaxCalls)
  BY ConstantsAssumption DEF ConstantsAssumption, Init
<1> QED
  BY <1>2, <1>3, <1>4, <1>5, <1>6, <1>7, <1>8 DEF TypeOK

\* A slot at a statement holds a request.
LEMMA BusyType ==
  ASSUME TypeOK, NEW r \in Requests, NEW pc \in Pcs, At(r, pc)
  PROVE  req[r] \in RequestRecords
  BY DEF TypeOK, At, Idle, Pcs

\* A freed slot is well typed, and so is a request that changes in its slot.
LEMMA AnswerType ==
  ASSUME TypeOK, NEW r \in Requests, Answer(r)
  PROVE  req' \in [Requests -> RequestRecords \cup {Idle}]
  BY DEF Answer, TypeOK

LEMMA SlotType ==
  ASSUME TypeOK, NEW r \in Requests, NEW q \in RequestRecords, req' = [req EXCEPT ![r] = q]
  PROVE  req' \in [Requests -> RequestRecords \cup {Idle}]
  BY DEF TypeOK

LEMMA GotoType ==
  ASSUME TypeOK, NEW r \in Requests, req[r] \in RequestRecords, NEW pc \in Pcs, Goto(r, pc)
  PROVE  req' \in [Requests -> RequestRecords \cup {Idle}]
<1>1. [req[r] EXCEPT !.pc = pc] \in RequestRecords
  BY DEF RequestRecords
<1> QED
  BY <1>1, SlotType DEF Goto

LEMMA CallType ==
  ASSUME TypeOK, NEW r \in Requests, NEW op \in Ops, NEW u \in Users, Call(r, op, u)
  PROVE  TypeOK'
<1>1. calls' \in 0 .. MaxCalls
  BY ConstantsAssumption DEF ConstantsAssumption, Call, TypeOK
<1>2. PICK t \in Users \cup {NoUser}, g \in Permissions, f \in Folders \cup {Root}, v \in Nat \cup {-1} :
        req' = [req EXCEPT ![r] = [Idle EXCEPT
                 !.op = op, !.pc = FirstPc(op), !.user = u, !.target = t, !.grant = g,
                 !.folder = f, !.body = calls + 1, !.ver = v]]
  <2>1. PICK t \in (IF op \in {"share", "revoke"} THEN Users ELSE {NoUser}),
             g \in (IF op = "share" THEN Grants ELSE {None}),
             f \in (IF op = "move" THEN Folders \cup {Root} ELSE {Root}),
             v \in (IF op \in {"restoreVersion", "readVersion"}
                      THEN {x.at : x \in versions} ELSE {-1}) :
          req' = [req EXCEPT ![r] = [Idle EXCEPT
                   !.op = op, !.pc = FirstPc(op), !.user = u, !.target = t, !.grant = g,
                   !.folder = f, !.body = calls + 1, !.ver = v]]
    BY DEF Call
  <2>2. t \in Users \cup {NoUser} /\ f \in Folders \cup {Root}
    OBVIOUS
  <2>3. g \in Permissions
    BY ConstantsAssumption DEF ConstantsAssumption, Permissions
  <2>4. v \in Nat \cup {-1}
    BY DEF TypeOK, Versions
  <2> QED
    BY <2>1, <2>2, <2>3, <2>4
<1>3. FirstPc(op) \in Pcs
  BY ConstantsAssumption DEF ConstantsAssumption, AllOps, FirstPc, Pcs
<1>4. calls + 1 \in 0 .. MaxCalls
  BY ConstantsAssumption DEF ConstantsAssumption, Call, TypeOK
<1>5. op \in AllOps
  BY ConstantsAssumption DEF ConstantsAssumption
<1>6. [Idle EXCEPT !.op = op, !.pc = FirstPc(op), !.user = u, !.target = t, !.grant = g,
                   !.folder = f, !.body = calls + 1, !.ver = v] \in RequestRecords
  <2>1. Empty \in Blobs
    BY ConstantsAssumption DEF ConstantsAssumption, Empty, Blobs, DataKeys
  <2>2. [x \in Users |-> 0] \in [Users -> DataKeys] /\ 0 \in DataKeys
    BY DEF DataKeys
  <2> QED
    BY <1>3, <1>4, <1>5, <2>1, <2>2 DEF Idle, RequestRecords
<1>7. req' \in [Requests -> RequestRecords \cup {Idle}]
  BY <1>2, <1>6 DEF TypeOK
<1> QED
  BY <1>1, <1>7 DEF Call, TypeOK

\* A call puts its request before its first statement.
LEMMA CallPc ==
  ASSUME TypeOK, NEW r \in Requests, NEW op \in Ops, NEW u \in Users, Call(r, op, u)
  PROVE  req'[r].op = op /\ req'[r].pc = FirstPc(op)
<1>1. PICK t \in (IF op \in {"share", "revoke"} THEN Users ELSE {NoUser}),
           g \in (IF op = "share" THEN Grants ELSE {None}),
           f \in (IF op = "move" THEN Folders \cup {Root} ELSE {Root}),
           v \in (IF op \in {"restoreVersion", "readVersion"}
                    THEN {x.at : x \in versions} ELSE {-1}) :
        req' = [req EXCEPT ![r] = [Idle EXCEPT
                 !.op = op, !.pc = FirstPc(op), !.user = u, !.target = t, !.grant = g,
                 !.folder = f, !.body = calls + 1, !.ver = v]]
  BY DEF Call
<1>2. req'[r] = [Idle EXCEPT
                 !.op = op, !.pc = FirstPc(op), !.user = u, !.target = t, !.grant = g,
                 !.folder = f, !.body = calls + 1, !.ver = v]
  BY <1>1 DEF TypeOK
<1> QED
  BY <1>2 DEF Idle

\* A step of one request leaves the other slots alone.
LEMMA OneSlot ==
  ASSUME NEW r \in Requests,
         (\E op \in Ops, u \in Users : Call(r, op, u)) \/ Handle(r) \/ Die(r) \/ StatementFails(r)
  PROVE  \E q : req' = [req EXCEPT ![r] = q]
<1>1. Answer(r) => \E q : req' = [req EXCEPT ![r] = q]
  BY DEF Answer
<1>2. \A pc : Goto(r, pc) => \E q : req' = [req EXCEPT ![r] = q]
  BY DEF Goto
<1>3. Begin(r) => \E q : req' = [req EXCEPT ![r] = q]
  BY DEF Begin
<1>4. ASSUME NEW op \in Ops, NEW u \in Users, Call(r, op, u)
      PROVE  \E q : req' = [req EXCEPT ![r] = q]
  BY <1>4, Zenon DEF Call
<1>5. CASE \/ GetBlob(r) \/ GetKey(r) \/ SnapBlob(r) \/ SnapKeys(r) \/ Prune(r)
           \/ RestoreWaits(r) \/ GetVersionBlob(r) \/ GetVersionKey(r)
  BY <1>1, <1>5 DEF GetBlob, GetKey, SnapBlob, SnapKeys, Prune, RestoreWaits, GetVersionBlob,
     GetVersionKey
<1>6. CASE \/ CheckPerm(r) \/ CreateInsert(r) \/ CreateKey(r) \/ ShareKey(r) \/ RevokePerm(r)
           \/ RequireAccess(r) \/ PruneWaited(r) \/ StatementFails(r)
  BY <1>1, <1>2, <1>3, <1>6 DEF CheckPerm, CreateInsert, CreateKey, ShareKey, RevokePerm,
     RequireAccess, PruneWaited, StatementFails
<1> QED
  BY <1>1, <1>4, <1>5, <1>6 DEF Handle, Die, Reply, CreateGrant, FinishEdit, FinishMeta,
     FinishRestore, RestoreWaited, DeleteEntry, RestoreEntry, PurgeEntry, ShareGrant, RevokeKey

\* What a transaction leaves in the history is a set of versions.
LEMMA KeptType ==
  ASSUME TypeOK, NEW r \in Requests, req[r] \in RequestRecords
  PROVE  Kept(r) \subseteq Versions /\ Overwritten(r) \subseteq 0 .. MaxCalls
<1>1. Seen(r) \subseteq Versions
  BY DEF Seen, TypeOK, RequestRecords, Versions
<1> QED
  BY <1>1 DEF Kept, Overwritten, TypeOK, Blobs, Versions

\* What a request may pick up from the tables is well typed.
LEMMA RequestType ==
  ASSUME TypeOK, NEW r \in Requests, req[r] \in RequestRecords
  PROVE  /\ req[r].user \in Users /\ req[r].op \in AllOps
         /\ req[r].body \in 0 .. MaxCalls /\ req[r].dk \in DataKeys
         /\ req[r].folder \in Folders \cup {Root} /\ req[r].grant \in Permissions
         /\ keys[req[r].user] \in DataKeys
         /\ entry.blob \in Blobs /\ entry.folder \in Folders \cup {Root}
         /\ \A v \in versions : v.blob \in Blobs /\ v.keys[req[r].user] \in DataKeys
<1>1. req[r].user \in Users
  BY DEF RequestRecords
<1>2. /\ req[r].op \in AllOps /\ req[r].body \in 0 .. MaxCalls /\ req[r].dk \in DataKeys
      /\ req[r].folder \in Folders \cup {Root} /\ req[r].grant \in Permissions
  BY DEF RequestRecords
<1>3. keys[req[r].user] \in DataKeys
  BY <1>1 DEF TypeOK
<1>4. entry.blob \in Blobs /\ entry.folder \in Folders \cup {Root}
  BY DEF TypeOK
<1>5. \A v \in versions : v.blob \in Blobs /\ v.keys \in [Users -> DataKeys]
  BY DEF TypeOK, Versions
<1> QED
  BY <1>1, <1>2, <1>3, <1>4, <1>5

\* The permission check begins a transaction, goes on, or refuses.
LEMMA CheckPermType ==
  ASSUME TypeOK, NEW r \in Requests, CheckPerm(r)
  PROVE  TypeOK'
<1>1. req[r] \in RequestRecords
  BY BusyType DEF CheckPerm, Pcs
<1>2. req[r].op \in AllOps
  BY <1>1 DEF RequestRecords
<1>3. AfterPerm(req[r].op) \in Pcs
  BY <1>2 DEF AfterPerm, AllOps, Pcs
<1>4. CASE Begin(r)
  <2>1. stamp + 1 \in Nat
    BY DEF TypeOK
  <2>2. "snap" \in Pcs
    BY DEF Pcs
  <2>3. [req[r] EXCEPT !.pc = "snap", !.at = stamp + 1] \in RequestRecords
    BY <1>1, <2>1, <2>2 DEF RequestRecords
  <2>4. req' = [req EXCEPT ![r] = [req[r] EXCEPT !.pc = "snap", !.at = stamp + 1]]
    BY <1>4 DEF Begin, TypeOK
  <2>5. req' \in [Requests -> RequestRecords \cup {Idle}]
    BY <2>3, <2>4, SlotType
  <2> QED
    BY <1>4, <2>1, <2>5 DEF CheckPerm, Begin, TypeOK
<1>5. CASE Goto(r, AfterPerm(req[r].op)) /\ UNCHANGED stamp
  <2>1. req' \in [Requests -> RequestRecords \cup {Idle}]
    BY <1>1, <1>3, <1>5, GotoType
  <2> QED
    BY <1>5, <2>1 DEF CheckPerm, TypeOK
<1>6. CASE Answer(r) /\ UNCHANGED stamp
  BY <1>6, AnswerType DEF CheckPerm, TypeOK
<1> QED
  BY <1>4, <1>5, <1>6 DEF CheckPerm

\* The reads change nothing but the request.
LEMMA ReadType ==
  ASSUME TypeOK, NEW r \in Requests,
         GetBlob(r) \/ GetKey(r) \/ Reply(r)
         \/ RequireAccess(r) \/ GetVersionBlob(r) \/ GetVersionKey(r)
  PROVE  TypeOK'
<1>0. req[r] \in RequestRecords
  BY BusyType DEF GetBlob, GetKey, Reply, RequireAccess, GetVersionBlob, GetVersionKey, Pcs
<1>a. SUFFICES req' \in [Requests -> RequestRecords \cup {Idle}]
  BY DEF GetBlob, GetKey, Reply, RequireAccess, GetVersionBlob, GetVersionKey, TypeOK
<1>b. {"getKey", "reply", "perm", "ver", "verKey"} \subseteq Pcs
  BY DEF Pcs
<1>1. CASE GetBlob(r)
  <2>1. [req[r] EXCEPT !.pc = "getKey", !.blob = entry.blob, !.folder = entry.folder]
          \in RequestRecords
    BY <1>0, <1>b, RequestType DEF RequestRecords
  <2>2. Answer(r) \/ req' = [req EXCEPT ![r] =
          [req[r] EXCEPT !.pc = "getKey", !.blob = entry.blob, !.folder = entry.folder]]
    BY <1>1 DEF GetBlob
  <2> QED
    BY <2>1, <2>2, SlotType, AnswerType
<1>2. CASE GetKey(r)
  <2>1. \A pc \in Pcs : [req[r] EXCEPT !.dk = keys[req[r].user], !.pc = pc] \in RequestRecords
    BY <1>0, RequestType DEF RequestRecords
  <2>2. \/ Answer(r)
        \/ \E pc \in Pcs : req' = [req EXCEPT ![r] =
             [req[r] EXCEPT !.dk = keys[req[r].user], !.pc = pc]]
    BY <1>2, <1>b DEF GetKey
  <2> QED
    BY <2>1, <2>2, SlotType, AnswerType
<1>3. CASE Reply(r)
  BY <1>3, AnswerType DEF Reply
<1>4. CASE RequireAccess(r)
  BY <1>0, <1>b, <1>4, GotoType, AnswerType DEF RequireAccess
<1>5. CASE GetVersionBlob(r)
  <2>1. \A v \in versions : [req[r] EXCEPT !.pc = "verKey", !.blob = v.blob] \in RequestRecords
    BY <1>0, <1>b, RequestType DEF RequestRecords
  <2>2. \/ Answer(r)
        \/ \E v \in versions :
             req' = [req EXCEPT ![r] = [req[r] EXCEPT !.pc = "verKey", !.blob = v.blob]]
    BY <1>5 DEF GetVersionBlob
  <2> QED
    BY <2>1, <2>2, SlotType, AnswerType
<1>6. CASE GetVersionKey(r)
  <2>1. \A v \in versions :
          [req[r] EXCEPT !.pc = "reply", !.dk = v.keys[req[r].user]] \in RequestRecords
    BY <1>0, <1>b, RequestType DEF RequestRecords
  <2>2. \/ Answer(r)
        \/ \E v \in versions : req' = [req EXCEPT ![r] =
             [req[r] EXCEPT !.pc = "reply", !.dk = v.keys[req[r].user]]]
    BY <1>6 DEF GetVersionKey, Readable
  <2> QED
    BY <2>1, <2>2, SlotType, AnswerType
<1> QED
  BY <1>1, <1>2, <1>3, <1>4, <1>5, <1>6

\* Creating an entry fills in its rows one after the other.
LEMMA CreateType ==
  ASSUME TypeOK, NEW r \in Requests, CreateInsert(r) \/ CreateKey(r) \/ CreateGrant(r)
  PROVE  TypeOK'
<1>0. req[r] \in RequestRecords
  BY BusyType DEF CreateInsert, CreateKey, CreateGrant, Pcs
<1>b. {"createKey", "createGrant"} \subseteq Pcs /\ 1 \in DataKeys /\ "owner" \in Permissions
  BY DEF Pcs, DataKeys, Permissions
<1>1. CASE CreateInsert(r)
  <2>1. [body |-> req[r].body, dk |-> 1] \in Blobs
    BY <1>0, <1>b, RequestType DEF Blobs
  <2>2. entry' \in [life : Lives, blob : Blobs, folder : Folders \cup {Root}]
    BY <1>1, <2>1 DEF CreateInsert, Lives
  <2>3. req' \in [Requests -> RequestRecords \cup {Idle}]
    BY <1>0, <1>1, <1>b, GotoType DEF CreateInsert
  <2> QED
    BY <1>1, <2>2, <2>3 DEF CreateInsert, TypeOK
<1>2. CASE CreateKey(r)
  <2>1. req' \in [Requests -> RequestRecords \cup {Idle}]
    BY <1>0, <1>2, <1>b, GotoType DEF CreateKey
  <2>2. keys' \in [Users -> DataKeys]
    BY <1>2, <1>b DEF CreateKey, TypeOK
  <2> QED
    BY <1>2, <2>1, <2>2 DEF CreateKey, TypeOK
<1>3. CASE CreateGrant(r)
  <2>1. perms' \in [Users -> Permissions]
    BY <1>3, <1>b DEF CreateGrant, TypeOK
  <2> QED
    BY <1>3, <2>1, AnswerType DEF CreateGrant, TypeOK
<1> QED
  BY <1>1, <1>2, <1>3

\* The prune settles what it deletes, and then waits or goes on.
LEMMA PruneEffect ==
  ASSUME NEW r \in Requests, Prune(r)
  PROVE  \E pc \in {"waiting", "finish"} :
           /\ req' = [req EXCEPT ![r] = [req[r] EXCEPT !.pc = pc,
                                                      !.del = Surplus(Seen(r), req[r].ver)]]
           /\ UNCHANGED <<entry, keys, perms, grantedBy, versions, calls, stamp, owed>>
  BY DEF Prune

\* The snapshot and the prune live in the transaction.
LEMMA SnapType ==
  ASSUME TypeOK, NEW r \in Requests,
         SnapBlob(r) \/ SnapKeys(r) \/ Prune(r) \/ PruneWaited(r) \/ RestoreWaits(r)
  PROVE  TypeOK'
<1>0. req[r] \in RequestRecords
  BY BusyType DEF SnapBlob, SnapKeys, Prune, PruneWaited, RestoreWaits, Pcs
<1>a. SUFFICES req' \in [Requests -> RequestRecords \cup {Idle}]
  BY DEF SnapBlob, SnapKeys, Prune, PruneWaited, RestoreWaits, TypeOK
<1>b. {"snapKeys", "prune", "waiting", "finish", "restoring"} \subseteq Pcs
  BY DEF Pcs
<1>1. CASE SnapBlob(r)
  <2>1. [req[r] EXCEPT !.pc = "snapKeys", !.snap = entry.blob] \in RequestRecords
    BY <1>0, <1>b, RequestType DEF RequestRecords
  <2>2. \/ Answer(r)
        \/ req' = [req EXCEPT ![r] = [req[r] EXCEPT !.pc = "snapKeys", !.snap = entry.blob]]
    BY <1>1 DEF SnapBlob
  <2> QED
    BY <2>1, <2>2, SlotType, AnswerType
<1>2. CASE SnapKeys(r)
  <2>1. keys \in [Users -> DataKeys]
    BY DEF TypeOK
  <2>2. [req[r] EXCEPT !.pc = "prune", !.snapKeys = keys] \in RequestRecords
    BY <1>0, <1>b, <2>1 DEF RequestRecords
  <2>3. req' = [req EXCEPT ![r] = [req[r] EXCEPT !.pc = "prune", !.snapKeys = keys]]
    BY <1>2 DEF SnapKeys
  <2> QED
    BY <2>2, <2>3, SlotType
<1>3. CASE Prune(r)
  <2>1. Seen(r) \subseteq Versions
    BY <1>0 DEF Seen, TypeOK, RequestRecords, Versions
  <2>2. Surplus(Seen(r), req[r].ver) \in SUBSET Nat
    BY <2>1 DEF Surplus, Versions
  <2>3. \A pc \in {"waiting", "finish"}, D \in SUBSET Nat :
          [req[r] EXCEPT !.pc = pc, !.del = D] \in RequestRecords
    BY <1>0, <1>b DEF RequestRecords
  <2>4. \E pc \in {"waiting", "finish"}, D \in SUBSET Nat :
          req' = [req EXCEPT ![r] = [req[r] EXCEPT !.pc = pc, !.del = D]]
    BY <1>3, <2>2, PruneEffect
  <2> QED
    BY <2>3, <2>4, SlotType
<1>4. CASE PruneWaited(r)
  BY <1>0, <1>4, <1>b, GotoType DEF PruneWaited
<1>5. CASE RestoreWaits(r)
  <2>1. PICK v \in Kept(r) :
          req' = [req EXCEPT ![r] = [req[r] EXCEPT !.pc = "restoring", !.blob = v.blob]]
    BY <1>5 DEF RestoreWaits
  <2>2. v.blob \in Blobs
    BY <1>0, KeptType DEF Versions
  <2>3. [req[r] EXCEPT !.pc = "restoring", !.blob = v.blob] \in RequestRecords
    BY <1>0, <1>b, <2>2 DEF RequestRecords
  <2> QED
    BY <2>1, <2>3, SlotType
<1> QED
  BY <1>1, <1>2, <1>3, <1>4, <1>5

\* The last writes of UpdateEntry and RestoreVersion.
LEMMA FinishType ==
  ASSUME TypeOK, NEW r \in Requests,
         FinishEdit(r) \/ FinishMeta(r) \/ FinishRestore(r) \/ RestoreWaited(r)
  PROVE  TypeOK'
<1>0. req[r] \in RequestRecords
  BY BusyType DEF FinishEdit, FinishMeta, FinishRestore, RestoreWaited, Pcs
<1>1. CASE FinishEdit(r)
  <2>1. EditBlob(r) \in Blobs /\ EditFolder(r) \in Folders \cup {Root}
    BY <1>0, RequestType DEF EditBlob, EditFolder, Blobs
  <2>2. entry' \in [life : Lives, blob : Blobs, folder : Folders \cup {Root}]
    BY <1>1, <2>1 DEF FinishEdit, TypeOK
  <2>3. versions' \in SUBSET Versions /\ owed' \in SUBSET (0 .. MaxCalls)
    BY <1>0, <1>1, KeptType DEF FinishEdit
  <2> QED
    BY <1>1, <2>2, <2>3, AnswerType DEF FinishEdit, TypeOK
<1>2. CASE FinishMeta(r)
  <2>1. entry' \in [life : Lives, blob : Blobs, folder : Folders \cup {Root}]
    BY <1>0, <1>2, RequestType DEF FinishMeta, TypeOK
  <2>2. keys' \in [Users -> DataKeys]
    BY <1>0, <1>2, RequestType DEF FinishMeta, TypeOK
  <2> QED
    BY <1>2, <2>1, <2>2, AnswerType DEF FinishMeta, TypeOK
<1>3. CASE FinishRestore(r)
  <2>1. \A v \in Kept(r) : v.blob \in Blobs /\ v.keys \in [Users -> DataKeys]
    BY <1>0, KeptType DEF Versions
  <2>2. \A v \in Kept(r) : RestoredKeys(v) \in [Users -> DataKeys]
    BY <2>1 DEF RestoredKeys, TypeOK
  <2>3. entry' \in [life : Lives, blob : Blobs, folder : Folders \cup {Root}]
    BY <1>3, <2>1 DEF FinishRestore, TypeOK
  <2>4. keys' \in [Users -> DataKeys]
    BY <1>3, <2>2 DEF FinishRestore, TypeOK
  <2>5. versions' \in SUBSET Versions /\ owed' \in SUBSET (0 .. MaxCalls)
    BY <1>0, <1>3, KeptType DEF FinishRestore, TypeOK
  <2> QED
    BY <1>3, <2>3, <2>4, <2>5, AnswerType DEF FinishRestore, TypeOK
<1>4. CASE RestoreWaited(r)
  <2>1. req[r].blob \in Blobs
    BY <1>0 DEF RequestRecords
  <2>2. \A v \in Kept(r) : RestoredKeys(v) \in [Users -> DataKeys]
    BY <1>0, KeptType DEF Versions, RestoredKeys, TypeOK
  <2>3. entry' \in [life : Lives, blob : Blobs, folder : Folders \cup {Root}]
    BY <1>4, <2>1 DEF RestoreWaited, TypeOK
  <2>4. keys' \in [Users -> DataKeys]
    BY <1>4, <2>2 DEF RestoreWaited, TypeOK
  <2>5. versions' \in SUBSET Versions /\ owed' \in SUBSET (0 .. MaxCalls)
    BY <1>0, <1>4, KeptType DEF RestoreWaited, TypeOK
  <2> QED
    BY <1>4, <2>3, <2>4, <2>5, AnswerType DEF RestoreWaited, TypeOK
<1> QED
  BY <1>1, <1>2, <1>3, <1>4

\* The cascade leaves well-typed rows.
LEMMA DeleteRowsType ==
  ASSUME TypeOK, DeleteRows
  PROVE  /\ entry' \in [life : Lives, blob : Blobs, folder : Folders \cup {Root}]
         /\ keys' \in [Users -> DataKeys] /\ perms' \in [Users -> Permissions]
         /\ grantedBy' \in [Users -> Users \cup {NoUser}]
         /\ versions' \in SUBSET Versions /\ owed' \in SUBSET (0 .. MaxCalls)
<1>1. Empty \in Blobs
  BY ConstantsAssumption DEF ConstantsAssumption, Empty, Blobs, DataKeys
<1> QED
  BY <1>1 DEF DeleteRows, Lives, DataKeys, Permissions

\* Trash and purge.
LEMMA TrashType ==
  ASSUME TypeOK, NEW r \in Requests, DeleteEntry(r) \/ RestoreEntry(r) \/ PurgeEntry(r)
  PROVE  TypeOK'
<1>1. CASE DeleteEntry(r) \/ RestoreEntry(r)
  <2>1. entry' \in [life : Lives, blob : Blobs, folder : Folders \cup {Root}]
    BY <1>1 DEF DeleteEntry, RestoreEntry, TypeOK, Lives
  <2> QED
    BY <1>1, <2>1, AnswerType DEF DeleteEntry, RestoreEntry, TypeOK
<1>2. CASE PurgeEntry(r)
  BY <1>2, DeleteRowsType, AnswerType DEF PurgeEntry, TypeOK
<1> QED
  BY <1>1, <1>2

\* Sharing and revoking.
LEMMA ShareType ==
  ASSUME TypeOK, NEW r \in Requests,
         ShareKey(r) \/ ShareGrant(r) \/ RevokePerm(r) \/ RevokeKey(r)
  PROVE  TypeOK'
<1>0. req[r] \in RequestRecords
  BY BusyType DEF ShareKey, ShareGrant, RevokePerm, RevokeKey, Pcs
<1>b. {"grant", "unkey"} \subseteq Pcs /\ 0 \in DataKeys /\ None \in Permissions
  BY DEF Pcs, DataKeys, Permissions
<1>1. CASE ShareKey(r)
  <2>1. keys' \in [Users -> DataKeys]
    BY <1>0, <1>1, RequestType DEF ShareKey, TypeOK
  <2>2. req' \in [Requests -> RequestRecords \cup {Idle}]
    BY <1>0, <1>1, <1>b, GotoType, AnswerType DEF ShareKey
  <2> QED
    BY <1>1, <2>1, <2>2 DEF ShareKey, TypeOK
<1>2. CASE ShareGrant(r)
  <2>1. perms' \in [Users -> Permissions]
    BY <1>0, <1>2, RequestType DEF ShareGrant, TypeOK
  <2>2. grantedBy' \in [Users -> Users \cup {NoUser}]
    BY <1>0, <1>2, RequestType DEF ShareGrant, TypeOK
  <2> QED
    BY <1>2, <2>1, <2>2, AnswerType DEF ShareGrant, TypeOK
<1>3. CASE RevokePerm(r)
  <2>1. perms' \in [Users -> Permissions] /\ grantedBy' \in [Users -> Users \cup {NoUser}]
    BY <1>3, <1>b DEF RevokePerm, TypeOK
  <2>2. req' \in [Requests -> RequestRecords \cup {Idle}]
    BY <1>0, <1>3, <1>b, GotoType, AnswerType DEF RevokePerm
  <2> QED
    BY <1>3, <2>1, <2>2 DEF RevokePerm, TypeOK
<1>4. CASE RevokeKey(r)
  <2>1. keys' \in [Users -> DataKeys]
    BY <1>4, <1>b DEF RevokeKey, TypeOK
  <2> QED
    BY <1>4, <2>1, AnswerType DEF RevokeKey, TypeOK
<1> QED
  BY <1>1, <1>2, <1>3, <1>4

\* A request that dies or skips a statement.
LEMMA FaultType ==
  ASSUME TypeOK, NEW r \in Requests, Die(r) \/ StatementFails(r)
  PROVE  TypeOK'
<1>1. CASE Die(r)
  BY <1>1, AnswerType DEF Die, TypeOK
<1>2. CASE StatementFails(r)
  <2>1. ASSUME At(r, "createKey"), Goto(r, "createGrant")
        PROVE  req' \in [Requests -> RequestRecords \cup {Idle}]
    <3>1. req[r] \in RequestRecords
      BY <2>1, BusyType DEF Pcs
    <3> QED
      BY <2>1, <3>1, GotoType DEF Pcs
  <2>2. req' \in [Requests -> RequestRecords \cup {Idle}]
    BY <1>2, <2>1, AnswerType DEF StatementFails
  <2> QED
    BY <1>2, <2>2 DEF StatementFails, TypeOK
<1> QED
  BY <1>1, <1>2

\* Every step keeps the types.
LEMMA StepType == TypeOK /\ [Next]_vars => TypeOK'
<1> SUFFICES ASSUME TypeOK, [Next]_vars PROVE TypeOK'
  OBVIOUS
<1>1. ASSUME NEW r \in Requests, Handle(r)
      PROVE  TypeOK'
  BY <1>1, CheckPermType, ReadType, CreateType, SnapType, FinishType, TrashType, ShareType
     DEF Handle
<1>2. CASE PurgeOnce
  BY <1>2, DeleteRowsType DEF PurgeOnce, TypeOK
<1>3. CASE UNCHANGED vars
  BY <1>3 DEF vars, TypeOK
<1> QED
  BY <1>1, <1>2, <1>3, CallType, FaultType DEF Next

\* Every variable keeps its type: no handler of EntryStore stores a row, or
\* leaves a request in a state, that the others do not expect.
THEOREM TypeCorrect == Spec => []TypeOK
  BY InitType, StepType, PTL DEF Spec

-----------------------------------------------------------------------------
(* Purging.  No row exists without the entry, and an open transaction that *)
(* is about to commit a version has an entry to commit it to.              *)

\* No entry, no rows.
RowsNeedEntry ==
  ~Exists => /\ versions = {}
             /\ \A u \in Users : keys[u] = 0 /\ perms[u] = None

\* The lock a version row takes on its entry.
TransactionsHoldEntry == InTx # {} => Exists

PurgeInv == TypeOK /\ RowsNeedEntry /\ TransactionsHoldEntry

\* Mapped steps: a request joins the open transactions at a statement that has
\* found the entry.
LEMMA TransactionStep ==
  ASSUME TypeOK, NEW r \in Requests,
         (\E op \in Ops, u \in Users : Call(r, op, u)) \/ Handle(r) \/ Die(r) \/ StatementFails(r)
  PROVE  InTx' # {} => InTx # {} \/ Exists
<1>1. SUFFICES ASSUME InTx' # {}, InTx = {}, ~Exists PROVE FALSE
  OBVIOUS
<1>2. PICK s \in Requests :
        /\ req'[s].op \in Versioned
        /\ req'[s].pc \in {"snapKeys", "prune", "waiting", "finish", "restoring"}
  BY <1>1 DEF InTx
<1>3. ~(/\ req[s].op \in Versioned
        /\ req[s].pc \in {"snapKeys", "prune", "waiting", "finish", "restoring"})
  BY <1>1 DEF InTx
<1>4. s # r => req'[s] = req[s]
  BY OneSlot DEF TypeOK
<1>5. s = r /\ req'[r] # Idle
  BY <1>2, <1>3, <1>4 DEF Idle
<1>6. ~Answer(r)
  BY <1>5 DEF Answer, TypeOK
<1>7. ASSUME NEW op \in Ops, NEW u \in Users, Call(r, op, u) PROVE FALSE
  <2>1. req'[r].pc = FirstPc(op)
    BY <1>7, CallPc
  <2> QED
    BY <1>2, <1>5, <2>1 DEF FirstPc
<1>8. req[r] \in RequestRecords /\ req[r].op \in AllOps
  <2>1. req[r] # Idle
    BY <1>5, <1>6, <1>7, BusyType DEF Handle, Die, StatementFails, At, Idle, CheckPerm, GetBlob,
       GetKey, Reply, CreateInsert, CreateKey, CreateGrant, SnapBlob, SnapKeys, Prune,
       PruneWaited, RestoreWaits, RestoreWaited, FinishEdit, FinishMeta, FinishRestore,
       DeleteEntry, RestoreEntry, PurgeEntry, ShareKey, ShareGrant, RevokePerm, RevokeKey, RequireAccess, GetVersionBlob, GetVersionKey
  <2> QED
    BY <2>1 DEF TypeOK, RequestRecords
<1>9. CASE CheckPerm(r)
  <2>1. CASE Begin(r)
    BY <1>2, <1>5, <1>8, <2>1 DEF Begin, TypeOK, RequestRecords
  <2>2. CASE Goto(r, AfterPerm(req[r].op))
    <3>1. req'[r].op = req[r].op /\ req'[r].pc = AfterPerm(req[r].op)
      BY <1>8, <2>2 DEF Goto, TypeOK, RequestRecords
    <3> QED
      BY <1>2, <1>5, <3>1 DEF Versioned, AfterPerm
  <2> QED
    BY <1>6, <1>9, <2>1, <2>2 DEF CheckPerm
<1>10. CASE SnapBlob(r) \/ SnapKeys(r) \/ Prune(r) \/ PruneWaited(r) \/ RestoreWaits(r)
  <2>1. req'[r].op = req[r].op
    BY <1>6, <1>8, <1>10 DEF SnapBlob, SnapKeys, Prune, PruneWaited, RestoreWaits, Goto, TypeOK,
       RequestRecords
  <2> QED
    BY <1>1, <1>2, <1>3, <1>5, <1>6, <1>10, <2>1 DEF SnapBlob, SnapKeys, Prune, PruneWaited,
       RestoreWaits, At
<1>11. CASE \/ GetBlob(r) \/ GetKey(r) \/ CreateInsert(r) \/ CreateKey(r) \/ ShareKey(r)
            \/ RevokePerm(r) \/ RequireAccess(r) \/ GetVersionBlob(r) \/ GetVersionKey(r)
            \/ StatementFails(r)
  <2>1. req'[r].pc \notin {"snapKeys", "prune", "waiting", "finish", "restoring"}
    BY <1>6, <1>8, <1>11 DEF GetBlob, GetKey, CreateInsert, CreateKey, ShareKey, RevokePerm,
       RequireAccess, GetVersionBlob, GetVersionKey, StatementFails, Goto, TypeOK, RequestRecords
  <2> QED
    BY <1>2, <1>5, <2>1
<1> QED
  BY <1>6, <1>7, <1>9, <1>10, <1>11 DEF Handle, Die, Reply, CreateGrant, FinishEdit, FinishMeta,
     FinishRestore, RestoreWaited, DeleteEntry, RestoreEntry, PurgeEntry, ShareGrant, RevokeKey

\* The initial states have no rows without an entry, and no transaction.
LEMMA InitPurge == Init => PurgeInv
<1> SUFFICES ASSUME Init PROVE PurgeInv
  OBVIOUS
<1>1. PICK start \in Starts :
        /\ entry = InitEntry(start)
        /\ keys = [u \in Users |-> InitKey(start, u)]
        /\ perms = [u \in Users |-> InitPerm(start, u)]
        /\ versions = InitVersions(start)
  BY DEF Init
<1>2. RowsNeedEntry
  BY <1>1 DEF RowsNeedEntry, Exists, InitEntry, InitKey, InitPerm, InitVersions
<1>3. TransactionsHoldEntry
  BY DEF Init, TransactionsHoldEntry, InTx, Idle, Versioned, None
<1> QED
  BY <1>2, <1>3, InitType DEF PurgeInv

\* A purge takes every row, and finds no transaction that would add one.
LEMMA PurgeStep ==
  ASSUME PurgeInv, PurgeOnce \/ \E r \in Requests : PurgeEntry(r)
  PROVE  RowsNeedEntry' /\ TransactionsHoldEntry'
<1>1. InTx' = {}
  <2>1. InTx = {}
    BY DEF PurgeOnce, PurgeEntry
  <2>2. \A s \in Requests : req'[s] = req[s] \/ req'[s] = Idle
    BY DEF PurgeInv, TypeOK, PurgeOnce, PurgeEntry, Answer
  <2> QED
    BY <2>1, <2>2 DEF InTx, Idle, Versioned, None
<1>2. RowsNeedEntry'
  BY DEF PurgeInv, RowsNeedEntry, Exists, PurgeOnce, PurgeEntry, DeleteRows
<1> QED
  BY <1>1, <1>2 DEF TransactionsHoldEntry

\* Every other step leaves an entry that is there, and adds rows to no other.
LEMMA RowStep ==
  ASSUME PurgeInv, NEW r \in Requests,
         \/ \E op \in Ops, u \in Users : Call(r, op, u)
         \/ (Handle(r) /\ ~PurgeEntry(r)) \/ Die(r) \/ StatementFails(r)
  PROVE  (Exists => Exists') /\ RowsNeedEntry'
<1>1. CASE (\E op \in Ops, u \in Users : Call(r, op, u)) \/ Die(r) \/ StatementFails(r)
  BY <1>1 DEF Call, Die, StatementFails, PurgeInv, RowsNeedEntry, Exists
<1>2. CASE \/ CheckPerm(r) \/ GetBlob(r) \/ GetKey(r) \/ Reply(r) \/ RequireAccess(r)
           \/ GetVersionBlob(r) \/ GetVersionKey(r) \/ SnapBlob(r) \/ SnapKeys(r) \/ Prune(r)
           \/ PruneWaited(r) \/ RestoreWaits(r)
  BY <1>2 DEF CheckPerm, GetBlob, GetKey, Reply, RequireAccess, GetVersionBlob, GetVersionKey,
     SnapBlob, SnapKeys, Prune, PruneWaited, RestoreWaits, PurgeInv, RowsNeedEntry, Exists
<1>3. CASE CreateInsert(r) \/ CreateKey(r) \/ CreateGrant(r)
  BY <1>3 DEF CreateInsert, CreateKey, CreateGrant, PurgeInv, RowsNeedEntry, Exists
<1>4. CASE FinishEdit(r) \/ FinishRestore(r) \/ RestoreWaited(r)
  <2>1. r \in InTx
    BY <1>4 DEF FinishEdit, FinishRestore, RestoreWaited, InTx, Versioned, At
  <2>2. Exists
    BY <2>1 DEF PurgeInv, TransactionsHoldEntry
  <2>3. Exists'
    BY <1>4, <2>2 DEF FinishEdit, FinishRestore, RestoreWaited, Exists, PurgeInv, TypeOK
  <2> QED
    BY <2>3 DEF RowsNeedEntry
<1>5. CASE FinishMeta(r) \/ DeleteEntry(r) \/ RestoreEntry(r)
  <2>1. Exists => Exists'
    BY <1>5 DEF FinishMeta, DeleteEntry, RestoreEntry, Exists, PurgeInv, TypeOK
  <2>2. ~Exists => UNCHANGED <<keys, perms, versions>>
    BY <1>5 DEF FinishMeta, DeleteEntry, RestoreEntry
  <2> QED
    BY <2>1, <2>2 DEF PurgeInv, RowsNeedEntry
<1>6. CASE ShareKey(r) \/ ShareGrant(r) \/ RevokePerm(r) \/ RevokeKey(r)
  BY <1>6 DEF ShareKey, ShareGrant, RevokePerm, RevokeKey, PurgeInv, RowsNeedEntry, Exists, TypeOK
<1> QED
  BY <1>1, <1>2, <1>3, <1>4, <1>5, <1>6 DEF Handle

LEMMA PurgeInvStep == PurgeInv /\ [Next]_vars => PurgeInv'
<1> SUFFICES ASSUME PurgeInv, [Next]_vars PROVE PurgeInv'
  OBVIOUS
<1>1. TypeOK'
  BY StepType DEF PurgeInv
<1>2. CASE PurgeOnce \/ \E r \in Requests : PurgeEntry(r)
  BY <1>1, <1>2, PurgeStep DEF PurgeInv
<1>3. ASSUME NEW r \in Requests,
             \/ \E op \in Ops, u \in Users : Call(r, op, u)
             \/ (Handle(r) /\ ~PurgeEntry(r)) \/ Die(r) \/ StatementFails(r)
      PROVE  PurgeInv'
  <2>1. (Exists => Exists') /\ RowsNeedEntry'
    BY <1>3, RowStep
  <2>2. InTx' # {} => InTx # {} \/ Exists
    BY <1>3, TransactionStep DEF PurgeInv
  <2>3. TransactionsHoldEntry'
    BY <2>1, <2>2 DEF PurgeInv, TransactionsHoldEntry
  <2> QED
    BY <1>1, <2>1, <2>3 DEF PurgeInv
<1>4. CASE UNCHANGED vars
  <2>1. RowsNeedEntry'
    BY <1>4 DEF vars, PurgeInv, RowsNeedEntry, Exists
  <2>2. TransactionsHoldEntry'
    BY <1>4 DEF vars, PurgeInv, TransactionsHoldEntry, InTx, Exists
  <2> QED
    BY <1>1, <2>1, <2>2 DEF PurgeInv
<1> QED
  BY <1>2, <1>3, <1>4 DEF Next

\* Once PurgeEntry or purgeOnce has deleted the entry, no request that was in
\* flight leaves a key, a permission or a version of it behind.
THEOREM PurgeComplete == Spec => []PurgedIsEmpty
<1>1. PurgeInv => PurgedIsEmpty
  BY DEF PurgeInv, RowsNeedEntry, PurgedIsEmpty, Exists
<1> QED
  BY <1>1, InitPurge, PurgeInvStep, PTL DEF Spec

-----------------------------------------------------------------------------
(* The data key.  Unless an older client re-keyed the entry, the creator's *)
(* data key (1) is the only one that any row or any request ever holds.    *)

OneKey == {0, 1}

\* The current blob.
EntryOpens == entry.blob.dk \in OneKey /\ (Exists => entry.blob.dk = 1)

KeysOpen == \A u \in Users : keys[u] \in OneKey

VersionOpens(v) == v.blob.dk = 1 /\ \A u \in Users : v.keys[u] \in OneKey

VersionsOpen == \A v \in versions : VersionOpens(v)

\* What a request has read, and what an edit, a re-wrap or a share will write.
RequestOpens(q) ==
  /\ q.dk \in OneKey
  /\ q.dk = 1 \/ q.pc \in {"getKey", "verKey", "restoring"} => q.blob.dk = 1
  /\ q.op \in {"edit", "rewrap", "share"} /\ q.pc \notin {"get", "getKey"} => q.dk = 1
  /\ \/ q.pc \in {"snapKeys", "prune", "waiting", "restoring"}
     \/ q.pc = "finish" /\ q.op \in Versioned
     => q.snap.dk = 1
  /\ \A u \in Users : q.snapKeys[u] \in OneKey

RequestsOpen == \A r \in Requests : RequestOpens(req[r])

KeyInv == PurgeInv /\ EntryOpens /\ KeysOpen /\ VersionsOpen /\ RequestsOpen

LEMMA IdleOpens == RequestOpens(Idle)
  BY DEF RequestOpens, Idle, OneKey, Empty, None, Versioned

LEMMA InitKeyInv ==
  ASSUME "rekeyed" \notin Starts
  PROVE  Init => KeyInv
<1> SUFFICES ASSUME Init PROVE KeyInv
  OBVIOUS
<1>1. PICK start \in Starts :
        /\ entry = InitEntry(start)
        /\ keys = [u \in Users |-> InitKey(start, u)]
        /\ versions = InitVersions(start)
  BY DEF Init
<1>2. EntryOpens /\ KeysOpen
  BY <1>1 DEF EntryOpens, KeysOpen, InitEntry, InitKey, Exists, OneKey
<1>4. VersionsOpen
  <2>1. \A v \in versions : v = [at |-> 0, blob |-> [body |-> 0, dk |-> 1], keys |-> [u \in Users |-> 1]]
    BY <1>1 DEF InitVersions
  <2> QED BY <2>1 DEF VersionsOpen, VersionOpens, OneKey
<1>3. RequestsOpen
  BY IdleOpens DEF RequestsOpen, Init
<1> QED
  BY <1>2, <1>3, <1>4, InitPurge DEF KeyInv

\* Only the request of the step is to be looked at.
LEMMA OneOpens ==
  ASSUME KeyInv, NEW r \in Requests, NEW q, req' = [req EXCEPT ![r] = q], RequestOpens(q)
  PROVE  RequestsOpen'
<1>1. \A s \in Requests : req'[s] = IF s = r THEN q ELSE req[s]
  BY DEF KeyInv, PurgeInv, TypeOK
<1> QED
  BY <1>1 DEF KeyInv, RequestsOpen

LEMMA AnswerOpens ==
  ASSUME KeyInv, NEW r \in Requests, Answer(r)
  PROVE  RequestsOpen'
  BY IdleOpens, OneOpens DEF Answer

\* A request that goes on to a statement that reads nothing it depends on.
LEMMA GotoOpens ==
  ASSUME KeyInv, NEW r \in Requests, req[r] \in RequestRecords,
         req[r].pc \notin {"get", "getKey"}, NEW pc \in Pcs,
         pc \notin {"getKey", "verKey", "snapKeys", "prune", "waiting", "restoring"},
         pc = "finish" => req[r].op \notin Versioned, Goto(r, pc)
  PROVE  RequestsOpen'
<1>1. RequestOpens(req[r])
  BY DEF KeyInv, RequestsOpen
<1>2. RequestOpens([req[r] EXCEPT !.pc = pc])
  BY <1>1 DEF RequestOpens, RequestRecords
<1> QED
  BY <1>2, OneOpens DEF Goto

LEMMA CallOpens ==
  ASSUME KeyInv, NEW r \in Requests, NEW op \in Ops, NEW u \in Users, Call(r, op, u)
  PROVE  RequestsOpen'
<1>1. PICK t \in (IF op \in {"share", "revoke"} THEN Users ELSE {NoUser}),
           g \in (IF op = "share" THEN Grants ELSE {None}),
           f \in (IF op = "move" THEN Folders \cup {Root} ELSE {Root}),
           v \in (IF op \in {"restoreVersion", "readVersion"}
                    THEN {x.at : x \in versions} ELSE {-1}) :
        req' = [req EXCEPT ![r] = [Idle EXCEPT
                 !.op = op, !.pc = FirstPc(op), !.user = u, !.target = t, !.grant = g,
                 !.folder = f, !.body = calls + 1, !.ver = v]]
  BY DEF Call
<1>2. /\ FirstPc(op) \notin {"getKey", "verKey", "snapKeys", "prune", "waiting", "finish",
                            "restoring"}
      /\ op \in {"edit", "rewrap", "share"} => FirstPc(op) = "get"
  BY DEF FirstPc
<1>3. RequestOpens([Idle EXCEPT
                 !.op = op, !.pc = FirstPc(op), !.user = u, !.target = t, !.grant = g,
                 !.folder = f, !.body = calls + 1, !.ver = v])
  BY <1>2 DEF RequestOpens, Idle, OneKey
<1> QED
  BY <1>1, <1>3, OneOpens

\* The reads, the permission check and the statements of a snapshot.
LEMMA ReadOpens ==
  ASSUME KeyInv, NEW r \in Requests,
         \/ CheckPerm(r) \/ GetBlob(r) \/ GetKey(r) \/ SnapBlob(r) \/ SnapKeys(r) \/ Prune(r)
         \/ PruneWaited(r) \/ RestoreWaits(r)
         \/ RequireAccess(r) \/ GetVersionBlob(r) \/ GetVersionKey(r) \/ Reply(r)
  PROVE  RequestsOpen'
<1>0. req[r] \in RequestRecords
  BY BusyType DEF KeyInv, PurgeInv, CheckPerm, GetBlob, GetKey, SnapBlob, SnapKeys, Prune,
     PruneWaited, RestoreWaits, RequireAccess, GetVersionBlob, GetVersionKey, Reply, Pcs
<1>a. RequestOpens(req[r])
  BY DEF KeyInv, RequestsOpen
<1>b. req[r].user \in Users /\ req[r].op \in AllOps
  BY <1>0 DEF RequestRecords
<1>1. CASE CheckPerm(r)
  <2>1. CASE Begin(r)
    <3>1. RequestOpens([req[r] EXCEPT !.pc = "snap", !.at = stamp + 1])
      BY <1>0, <1>a, <1>1 DEF RequestOpens, RequestRecords, CheckPerm, At
    <3> QED
      BY <2>1, <3>1, OneOpens DEF Begin
  <2>2. CASE Goto(r, AfterPerm(req[r].op)) /\ AfterPerm(req[r].op) # "snap"
    <3>1. /\ AfterPerm(req[r].op) \in Pcs
          /\ AfterPerm(req[r].op) \notin {"getKey", "verKey", "snapKeys", "prune", "waiting",
                                         "restoring"}
          /\ AfterPerm(req[r].op) = "finish" => req[r].op \notin Versioned
      BY <1>b DEF AfterPerm, Pcs, Versioned
    <3> QED
      BY <1>0, <1>1, <2>2, <3>1, GotoOpens DEF CheckPerm, At
  <2> QED
    BY <1>1, <2>1, <2>2, AnswerOpens DEF CheckPerm
<1>2. CASE GetBlob(r)
  <2>1. entry.life = "live" => entry.blob.dk = 1
    BY DEF KeyInv, EntryOpens, Exists
  <2>2. entry.life = "live" => RequestOpens([req[r] EXCEPT !.pc = "getKey", !.blob = entry.blob,
                                                           !.folder = entry.folder])
    BY <1>0, <1>a, <2>1 DEF RequestOpens, RequestRecords
  <2>3. \/ Answer(r)
        \/ entry.life = "live" /\ req' = [req EXCEPT ![r] =
             [req[r] EXCEPT !.pc = "getKey", !.blob = entry.blob, !.folder = entry.folder]]
    BY <1>2 DEF GetBlob
  <2> QED
    BY <2>2, <2>3, OneOpens, AnswerOpens
<1>3. CASE GetKey(r)
  <2>1. keys[req[r].user] \in OneKey
    BY <1>b DEF KeyInv, KeysOpen
  <2>2. \A pc \in {"reply", "perm"} : keys[req[r].user] # 0 =>
          RequestOpens([req[r] EXCEPT !.dk = keys[req[r].user], !.pc = pc])
    BY <1>0, <1>a, <1>3, <2>1 DEF RequestOpens, RequestRecords, GetKey, At, OneKey
  <2>3. \/ Answer(r)
        \/ keys[req[r].user] # 0 /\ \E pc \in {"reply", "perm"} : req' = [req EXCEPT ![r] =
             [req[r] EXCEPT !.dk = keys[req[r].user], !.pc = pc]]
    BY <1>3 DEF GetKey
  <2> QED
    BY <2>2, <2>3, OneOpens, AnswerOpens
<1>4. CASE SnapBlob(r)
  <2>1. Exists => RequestOpens([req[r] EXCEPT !.pc = "snapKeys", !.snap = entry.blob])
    BY <1>0, <1>a, <1>4 DEF KeyInv, EntryOpens, RequestOpens, RequestRecords, SnapBlob, At
  <2>2. \/ Answer(r)
        \/ Exists /\ req' = [req EXCEPT ![r] = [req[r] EXCEPT !.pc = "snapKeys", !.snap = entry.blob]]
    BY <1>4 DEF SnapBlob
  <2> QED
    BY <2>1, <2>2, OneOpens, AnswerOpens
<1>5. CASE SnapKeys(r)
  <2>1. RequestOpens([req[r] EXCEPT !.pc = "prune", !.snapKeys = keys])
    BY <1>0, <1>a, <1>5 DEF KeyInv, KeysOpen, RequestOpens, RequestRecords, SnapKeys, At
  <2> QED
    BY <1>5, <2>1, OneOpens DEF SnapKeys
<1>6. CASE Prune(r)
  <2>1. \A D : \A pc \in {"waiting", "finish"} :
          RequestOpens([req[r] EXCEPT !.pc = pc, !.del = D])
    BY <1>0, <1>a, <1>6 DEF RequestOpens, RequestRecords, Prune, At
  <2> QED
    BY <1>6, <2>1, OneOpens, PruneEffect
<1>7. CASE RequireAccess(r)
  BY <1>0, <1>7, GotoOpens, AnswerOpens DEF RequireAccess, At, Pcs
<1>8. CASE GetVersionBlob(r)
  <2>1. \A v \in versions : RequestOpens([req[r] EXCEPT !.pc = "verKey", !.blob = v.blob])
    BY <1>0, <1>a, <1>8 DEF KeyInv, VersionsOpen, VersionOpens, RequestOpens, RequestRecords,
       GetVersionBlob, At
  <2>2. \/ Answer(r)
        \/ \E v \in versions :
             req' = [req EXCEPT ![r] = [req[r] EXCEPT !.pc = "verKey", !.blob = v.blob]]
    BY <1>8 DEF GetVersionBlob
  <2> QED
    BY <2>1, <2>2, OneOpens, AnswerOpens
<1>9. CASE GetVersionKey(r)
  <2>1. \A v \in Readable(r) : v.keys[req[r].user] = 1
    BY <1>b DEF Readable, KeyInv, VersionsOpen, VersionOpens, OneKey
  <2>2. \A v \in Readable(r) :
          RequestOpens([req[r] EXCEPT !.pc = "reply", !.dk = v.keys[req[r].user]])
    BY <1>0, <1>a, <1>9, <2>1 DEF RequestOpens, RequestRecords, GetVersionKey, At, OneKey
  <2>3. \/ Answer(r)
        \/ \E v \in Readable(r) : req' = [req EXCEPT ![r] =
             [req[r] EXCEPT !.pc = "reply", !.dk = v.keys[req[r].user]]]
    BY <1>9 DEF GetVersionKey
  <2> QED
    BY <2>2, <2>3, OneOpens, AnswerOpens
<1>10. CASE Reply(r)
  BY <1>10, AnswerOpens DEF Reply
<1>11. CASE PruneWaited(r)
  <2>1. RequestOpens([req[r] EXCEPT !.pc = "finish"])
    BY <1>0, <1>a, <1>11 DEF RequestOpens, RequestRecords, PruneWaited, At
  <2> QED
    BY <1>11, <2>1, OneOpens DEF PruneWaited, Goto
<1>12. CASE RestoreWaits(r)
  <2>1. \A v \in Kept(r) : v.blob.dk = 1
    BY <1>a, <1>12 DEF Kept, Seen, KeyInv, VersionsOpen, VersionOpens, RequestOpens,
       RestoreWaits, At, Versioned
  <2>2. \A v \in Kept(r) : RequestOpens([req[r] EXCEPT !.pc = "restoring", !.blob = v.blob])
    BY <1>0, <1>a, <1>12, <2>1 DEF RequestOpens, RequestRecords, RestoreWaits, At, Versioned
  <2>3. \E v \in Kept(r) :
          req' = [req EXCEPT ![r] = [req[r] EXCEPT !.pc = "restoring", !.blob = v.blob]]
    BY <1>12 DEF RestoreWaits
  <2> QED
    BY <2>2, <2>3, OneOpens
<1> QED
  BY <1>1, <1>2, <1>3, <1>4, <1>5, <1>6, <1>7, <1>8, <1>9, <1>10, <1>11, <1>12

\* The writes keep the rows open, and hold nothing that was not.
LEMMA WriteOpens ==
  ASSUME KeyInv, NEW r \in Requests,
         \/ CreateInsert(r) \/ CreateKey(r) \/ FinishEdit(r) \/ FinishMeta(r) \/ FinishRestore(r)
         \/ RestoreWaited(r) \/ ShareKey(r)
  PROVE  EntryOpens' /\ KeysOpen' /\ VersionsOpen'
<1>0. req[r] \in RequestRecords
  BY BusyType DEF KeyInv, PurgeInv, CreateInsert, CreateKey, FinishEdit, FinishMeta,
     FinishRestore, RestoreWaited, ShareKey, Pcs
<1>a. RequestOpens(req[r])
  BY DEF KeyInv, RequestsOpen
<1>t. /\ entry \in [life : Lives, blob : Blobs, folder : Folders \cup {Root}]
      /\ keys \in [Users -> DataKeys]
  BY DEF KeyInv, PurgeInv, TypeOK
<1>k. r \in InTx => \A v \in Kept(r) : VersionOpens(v)
  BY <1>a DEF Kept, Seen, VersionOpens, KeyInv, VersionsOpen, InTx, RequestOpens
<1>1. CASE CreateInsert(r)
  BY <1>1 DEF CreateInsert, KeyInv, EntryOpens, KeysOpen, VersionsOpen, OneKey
<1>2. CASE CreateKey(r)
  BY <1>2, <1>t DEF CreateKey, KeyInv, EntryOpens, KeysOpen, VersionsOpen, Exists, OneKey
<1>3. CASE FinishEdit(r)
  <2>1. req[r].dk = 1 /\ r \in InTx
    BY <1>a, <1>3 DEF FinishEdit, At, RequestOpens, InTx, Versioned
  <2>2. entry'.blob.dk = 1
    BY <1>3, <1>t, <2>1 DEF FinishEdit, EditBlob
  <2> QED
    BY <1>3, <1>k, <2>1, <2>2 DEF FinishEdit, KeyInv, EntryOpens, KeysOpen, VersionsOpen, OneKey
<1>4. CASE FinishMeta(r)
  <2>1. entry'.blob = entry.blob /\ (Exists' => Exists)
    BY <1>4, <1>t DEF FinishMeta, Exists
  <2>2. KeysOpen'
    BY <1>a, <1>4, <1>t DEF FinishMeta, KeyInv, KeysOpen, RequestOpens
  <2> QED
    BY <1>4, <2>1, <2>2 DEF FinishMeta, KeyInv, EntryOpens, VersionsOpen
<1>5. CASE FinishRestore(r)
  <2>1. r \in InTx
    BY <1>5 DEF FinishRestore, At, InTx, Versioned
  <2>2. CASE UNCHANGED <<entry, keys, versions>>
    BY <2>2 DEF KeyInv, EntryOpens, KeysOpen, VersionsOpen, Exists
  <2>3. ASSUME NEW v \in Kept(r), entry' = [entry EXCEPT !.blob = v.blob],
               keys' = RestoredKeys(v), versions' = Kept(r)
        PROVE  EntryOpens' /\ KeysOpen' /\ VersionsOpen'
    <3>1. VersionOpens(v) /\ \A w \in Kept(r) : VersionOpens(w)
      BY <1>k, <2>1
    <3>2. entry'.blob.dk = 1
      BY <1>t, <2>3, <3>1 DEF VersionOpens
    <3>3. KeysOpen'
      BY <2>3, <3>1 DEF KeyInv, KeysOpen, RestoredKeys, VersionOpens
    <3> QED
      BY <2>3, <3>1, <3>2, <3>3 DEF EntryOpens, VersionsOpen, OneKey
  <2> QED
    BY <1>5, <2>2, <2>3 DEF FinishRestore
<1>6. CASE ShareKey(r)
  BY <1>a, <1>6, <1>t DEF ShareKey, KeyInv, EntryOpens, KeysOpen, VersionsOpen, Exists, RequestOpens
<1>7. CASE RestoreWaited(r)
  <2>1. r \in InTx /\ req[r].blob.dk = 1
    BY <1>a, <1>7 DEF RestoreWaited, At, InTx, Versioned, RequestOpens
  <2>2. entry'.blob.dk = 1
    BY <1>7, <1>t, <2>1 DEF RestoreWaited
  <2>3. \A v \in Kept(r) : VersionOpens(v)
    BY <1>k, <2>1
  <2>4. KeysOpen'
    BY <1>7, <2>3 DEF RestoreWaited, KeyInv, KeysOpen, RestoredKeys, VersionOpens
  <2>5. versions' = Kept(r)
    BY <1>7 DEF RestoreWaited
  <2> QED
    BY <2>2, <2>3, <2>4, <2>5 DEF EntryOpens, VersionsOpen, OneKey
<1> QED
  BY <1>1, <1>2, <1>3, <1>4, <1>5, <1>6, <1>7

LEMMA WriteRequestOpens ==
  ASSUME KeyInv, NEW r \in Requests,
         \/ CreateInsert(r) \/ CreateKey(r) \/ CreateGrant(r)
         \/ FinishEdit(r) \/ FinishMeta(r) \/ FinishRestore(r) \/ RestoreWaited(r)
         \/ DeleteEntry(r) \/ RestoreEntry(r) \/ PurgeEntry(r)
         \/ ShareKey(r) \/ ShareGrant(r) \/ RevokePerm(r) \/ RevokeKey(r)
         \/ Die(r) \/ StatementFails(r)
  PROVE  RequestsOpen'
<1>1. CASE Answer(r)
  BY <1>1, AnswerOpens
<1>2. ASSUME NEW from \in {"insert", "createKey", "key", "unperm"},
             NEW to \in {"createKey", "createGrant", "grant", "unkey"},
             At(r, from), Goto(r, to)
      PROVE  RequestsOpen'
  <2>1. req[r] \in RequestRecords
    BY <1>2, BusyType DEF KeyInv, PurgeInv, Pcs
  <2> QED
    BY <1>2, <2>1, GotoOpens DEF At, Pcs
<1> QED
  BY <1>1, <1>2 DEF CreateInsert, CreateKey, CreateGrant, FinishEdit, FinishMeta, FinishRestore,
     RestoreWaited, DeleteEntry, RestoreEntry, PurgeEntry, ShareKey, ShareGrant, RevokePerm, RevokeKey, Die,
     StatementFails

\* The other steps hand out no key.
LEMMA OtherOpens ==
  ASSUME KeyInv, NEW r \in Requests,
         \/ CheckPerm(r) \/ GetBlob(r) \/ GetKey(r) \/ SnapBlob(r) \/ SnapKeys(r) \/ Prune(r)
         \/ PruneWaited(r) \/ RestoreWaits(r)
         \/ RequireAccess(r) \/ GetVersionBlob(r) \/ GetVersionKey(r) \/ Reply(r)
         \/ CreateGrant(r) \/ DeleteEntry(r) \/ RestoreEntry(r) \/ PurgeEntry(r)
         \/ ShareGrant(r) \/ RevokePerm(r) \/ RevokeKey(r) \/ Die(r) \/ StatementFails(r)
         \/ \E op \in Ops, u \in Users : Call(r, op, u)
  PROVE  EntryOpens' /\ KeysOpen' /\ VersionsOpen'
<1>t. /\ entry \in [life : Lives, blob : Blobs, folder : Folders \cup {Root}]
      /\ keys \in [Users -> DataKeys]
  BY DEF KeyInv, PurgeInv, TypeOK
<1>1. CASE UNCHANGED <<entry, keys, versions>>
  BY <1>1 DEF KeyInv, EntryOpens, KeysOpen, VersionsOpen, Exists
<1>2. CASE DeleteRows
  BY <1>2 DEF DeleteRows, EntryOpens, KeysOpen, VersionsOpen, Exists, Empty, OneKey
<1>3. CASE DeleteEntry(r) \/ RestoreEntry(r)
  <2>1. entry'.blob = entry.blob /\ (Exists' => Exists)
    BY <1>3, <1>t DEF DeleteEntry, RestoreEntry, Exists
  <2> QED
    BY <1>3, <2>1 DEF DeleteEntry, RestoreEntry, KeyInv, EntryOpens, KeysOpen, VersionsOpen
<1>4. CASE RevokeKey(r)
  BY <1>4, <1>t DEF RevokeKey, KeyInv, EntryOpens, KeysOpen, VersionsOpen, Exists, OneKey
<1> QED
  BY <1>1, <1>2, <1>3, <1>4 DEF CheckPerm, GetBlob, GetKey, SnapBlob, SnapKeys, Prune,
     PruneWaited, RestoreWaits, RequireAccess, GetVersionBlob, GetVersionKey, Reply,
     CreateGrant, PurgeEntry, ShareGrant,
     RevokePerm, Die, StatementFails, Call

LEMMA KeyInvStep == KeyInv /\ [Next]_vars => KeyInv'
<1> SUFFICES ASSUME KeyInv, [Next]_vars PROVE KeyInv'
  OBVIOUS
<1>1. PurgeInv'
  BY PurgeInvStep DEF KeyInv
<1>2. ASSUME NEW r \in Requests, Handle(r)
      PROVE  EntryOpens' /\ KeysOpen' /\ VersionsOpen' /\ RequestsOpen'
  BY <1>2, ReadOpens, WriteOpens, WriteRequestOpens, OtherOpens DEF Handle
<1>3. ASSUME NEW r \in Requests,
             (\E op \in Ops, u \in Users : Call(r, op, u)) \/ Die(r) \/ StatementFails(r)
      PROVE  EntryOpens' /\ KeysOpen' /\ VersionsOpen' /\ RequestsOpen'
  BY <1>3, CallOpens, WriteRequestOpens, OtherOpens
<1>4. CASE PurgeOnce
  <2>1. EntryOpens' /\ KeysOpen' /\ VersionsOpen'
    BY <1>4 DEF PurgeOnce, DeleteRows, EntryOpens, KeysOpen, VersionsOpen, Exists, Empty, OneKey
  <2>2. req' = req
    BY <1>4 DEF PurgeOnce
  <2> QED
    BY <1>1, <2>1, <2>2 DEF KeyInv, RequestsOpen
<1>5. CASE UNCHANGED vars
  <2>1. EntryOpens' /\ KeysOpen' /\ VersionsOpen'
    BY <1>5 DEF vars, KeyInv, EntryOpens, KeysOpen, VersionsOpen, Exists
  <2>2. req' = req
    BY <1>5 DEF vars
  <2> QED
    BY <1>1, <2>1, <2>2 DEF KeyInv, RequestsOpen
<1> QED
  BY <1>1, <1>2, <1>3, <1>4, <1>5 DEF Next, KeyInv

\* As long as no older client has re-keyed the entry, every wrapped key opens the
\* blob or the version it belongs to, between any two statements of any number of
\* requests: reencryptEntry and the CLI's updateEntry reuse the fetched data key.
THEOREM KeysAlwaysOpen ==
  ASSUME "rekeyed" \notin Starts
  PROVE  Spec => []StoredKeysOpen
<1>1. KeyInv => StoredKeysOpen
  BY DEF KeyInv, PurgeInv, RowsNeedEntry, EntryOpens, KeysOpen, VersionsOpen, VersionOpens,
     StoredKeysOpen, OneKey
<1> QED
  BY <1>1, InitKeyInv, KeyInvStep, PTL DEF Spec

\* So is every answer of GetEntry and GetVersion, though they read the blob and
\* the key in two statements.
THEOREM AnswersAlwaysOpen ==
  ASSUME "rekeyed" \notin Starts
  PROVE  Spec => []AnswersOpen
<1>1. KeyInv => AnswersOpen
  BY DEF KeyInv, RequestsOpen, RequestOpens, AnswersOpen, OneKey
<1> QED
  BY <1>1, InitKeyInv, KeyInvStep, PTL DEF Spec

-----------------------------------------------------------------------------
(* The history is bounded.  A prune leaves at most MaxVersions versions of *)
(* those it sees, besides the one a restore spares; but it sees none that  *)
(* rivals have not committed, and the rows it deletes may be gone when it  *)
(* gets them.  So the invariant looks ahead: whichever of the transactions *)
(* past their prune commit, what is left is within the bound.              *)

\* A transaction has fixed what it deletes; it has taken its NOW().
Pruned(q) == q.pc \in {"waiting", "restoring"} \/ (q.pc = "finish" /\ q.op \in Versioned)
Begun(q) == q.pc \in {"snap", "snapKeys", "prune"} \/ Pruned(q)

Committing == {r \in Requests : Pruned(req[r])}

\* The version a transaction has inserted.
Own(r) == [at |-> req[r].at, blob |-> req[r].snap, keys |-> req[r].snapKeys]

\* What is left of the history once the transactions in Q have committed.
Left(Q) ==
  {v \in versions \cup {Own(r) : r \in Q} : \A r \in Q : v.at \notin req[r].del}

\* created_at tells versions apart, committed or not.
StampInv ==
  /\ \A v \in versions : v.at <= stamp
  /\ \A v, w \in versions : v.at = w.at => v = w
  /\ \A r \in Requests :
       Begun(req[r]) => /\ req[r].op \in Versioned /\ req[r].at <= stamp
                        /\ \A v \in versions : v.at # req[r].at
  /\ \A r, s \in Requests : Begun(req[r]) /\ Begun(req[s]) /\ r # s => req[r].at # req[s].at

\* A prune deletes no version that a rival has inserted and not committed.
PruneInv ==
  /\ \A r \in Requests : req[r].del # {} => Pruned(req[r])
  /\ \A r \in Requests : \A d \in req[r].del : d <= stamp
  /\ \A r, s \in Requests : r # s /\ Begun(req[s]) => req[s].at \notin req[r].del

Bounded ==
  \A Q \in SUBSET Committing : Cardinality(Left(Q)) <= MaxVersions + Cardinality(Requests)

VersionInv == StampInv /\ PruneInv /\ IsFiniteSet(versions) /\ Bounded

\* Of finitely many versions one is the oldest.
LEMMA OneIsOldest ==
  ASSUME NEW V, IsFiniteSet(V), \A v \in V : v.at \in Nat, NEW T \in SUBSET V, T # {}
  PROVE  \E t \in T : \A x \in T : ~ (x.at < t.at)
<1> DEFINE Older(x) == {y \in V : y.at < x.at}
           Sets == {Older(x) : x \in T}
<1>1. Sets \subseteq FiniteSubsetsOf(V) /\ Sets # {}
  <2>1. \A x \in T : Older(x) \in SUBSET V
    OBVIOUS
  <2>2. \A x \in T : Older(x) \in FiniteSubsetsOf(V)
    BY <2>1, FS_FiniteSubsetsOfFinite
  <2> QED
    BY <2>2
<1>2. IsWellFoundedOn(StrictSubsetOrdering(V), FiniteSubsetsOf(V))
  BY FS_StrictSubsetOrderingWellFounded
<1>3. PICK A \in Sets : \A B \in Sets : ~ (<<B, A>> \in StrictSubsetOrdering(V))
  <2> HIDE DEF Sets
  <2> QED
    BY <1>1, <1>2, WFMin
<1>4. PICK t \in T : A = Older(t)
  OBVIOUS
<1>5. ASSUME NEW x \in T, x.at < t.at
      PROVE  FALSE
  <2>1. Older(x) \subseteq Older(t) /\ x \in Older(t) /\ x \notin Older(x)
    BY <1>5
  <2>2. <<Older(x), Older(t)>> \in StrictSubsetOrdering(V)
    BY <2>1 DEF StrictSubsetOrdering
  <2> QED
    BY <1>3, <1>4, <2>2
<1> QED
  BY <1>5

\* Of a set of versions with times of their own, fewer than n are newer than the
\* n-th newest: at most n have fewer than n newer ones.
LEMMA NewestAreFew ==
  ASSUME NEW V, IsFiniteSet(V), \A v \in V : v.at \in Nat,
         \A v, w \in V : v.at = w.at => v = w, NEW n \in Nat
  PROVE  LET T == {x \in V : Cardinality({y \in V : y.at > x.at}) < n}
         IN  IsFiniteSet(T) /\ Cardinality(T) <= n
<1> DEFINE T == {x \in V : Cardinality({y \in V : y.at > x.at}) < n}
<1>1. IsFiniteSet(T) /\ Cardinality(T) \in Nat
  BY FS_Subset, FS_CardinalityType
<1>2. CASE T = {}
  <2>1. IsFiniteSet(T) /\ Cardinality(T) = 0
    BY <1>2, FS_EmptySet
  <2> QED
    BY <2>1
<1>3. CASE T # {}
  <2>3. PICK t \in T : \A x \in T : ~ (x.at < t.at)
    <3>1. T \in SUBSET V
      OBVIOUS
    <3> HIDE DEF T
    <3> QED
      BY <1>3, <3>1, OneIsOldest
  <2> DEFINE G == {y \in V : y.at > t.at}
  <2>4. IsFiniteSet(G) /\ Cardinality(G) \in Nat /\ Cardinality(G) < n
    BY <2>3, FS_Subset, FS_CardinalityType
  <2>5. T \ {t} \in SUBSET G
    BY <2>3
  <2>6. Cardinality(T \ {t}) <= Cardinality(G)
    BY <2>4, <2>5, FS_Subset
  <2>7. Cardinality(T \ {t}) = Cardinality(T) - 1
    BY <1>1, FS_RemoveElement
  <2> QED
    BY <1>1, <2>4, <2>6, <2>7
<1> QED
  BY <1>2, <1>3

\* A prune leaves at most MaxVersions versions and the one a restore spares.
LEMMA FewKept ==
  ASSUME NEW V, IsFiniteSet(V), \A v \in V : v.at \in Nat,
         \A v, w \in V : v.at = w.at => v = w, NEW keep
  PROVE  LET K == {v \in V : v.at \notin Surplus(V, keep)}
         IN  IsFiniteSet(K) /\ Cardinality(K) <= MaxVersions + 1
<1> DEFINE T == {x \in V : Cardinality({y \in V : y.at > x.at}) < MaxVersions}
           R == {x \in V : x.at = keep}
           K == {v \in V : v.at \notin Surplus(V, keep)}
<1>m. MaxVersions \in Nat
  BY ConstantsAssumption DEF ConstantsAssumption
<1>1. IsFiniteSet(T) /\ Cardinality(T) <= MaxVersions /\ Cardinality(T) \in Nat
  BY <1>m, NewestAreFew, FS_CardinalityType
<1>2. \A x, y \in R : x = y
  OBVIOUS
<1>3. IsFiniteSet(R) /\ Cardinality(R) <= 1 /\ Cardinality(R) \in Nat
  <2> HIDE DEF R
  <2>1. CASE R = {}
    BY <2>1, FS_EmptySet
  <2>2. CASE R # {}
    <3>1. PICK x \in R : TRUE
      BY <2>2
    <3>2. R = {x}
      BY <1>2, <3>1
    <3> QED
      BY <3>2, FS_Singleton
  <2> QED
    BY <2>1, <2>2
<1>4. K \subseteq T \cup R
  <2>1. \A x \in V : Cardinality({y \in V : y.at > x.at}) \in Nat
    BY FS_Subset, FS_CardinalityType
  <2>2. ASSUME NEW x \in K, x \notin R
        PROVE  ~(Cardinality({y \in V : y.at > x.at}) >= MaxVersions)
    BY <2>2 DEF Surplus
  <2> QED
    BY <1>m, <2>1, <2>2
<1>5. /\ IsFiniteSet(T \cup R)
      /\ Cardinality(T \cup R) = Cardinality(T) + Cardinality(R) - Cardinality(T \cap R)
  <2> HIDE DEF T, R
  <2> QED
    BY <1>1, <1>3, FS_Union
<1>6. Cardinality(T \cap R) \in Nat
  <2> HIDE DEF T, R
  <2> QED
    BY <1>1, FS_Intersection, FS_CardinalityType
<1>7. IsFiniteSet(K) /\ Cardinality(K) <= Cardinality(T \cup R) /\ Cardinality(K) \in Nat
  <2> HIDE DEF T, R, K
  <2> QED
    BY <1>4, <1>5, FS_Subset, FS_CardinalityType
<1> QED
  BY <1>1, <1>3, <1>5, <1>6, <1>7, <1>m

\* Transactions add at most one version each.
LEMMA OneEach ==
  ASSUME NEW S, IsFiniteSet(S), NEW Q \in SUBSET Requests
  PROVE  LET T == S \cup {Own(r) : r \in Q}
         IN  /\ IsFiniteSet(T) /\ Cardinality(T) \in Nat
             /\ Cardinality(T) <= Cardinality(S) + Cardinality(Q)
<1> DEFINE O == {Own(r) : r \in Q}
<1>1. IsFiniteSet(Q) /\ Cardinality(Q) \in Nat
  BY ConstantsAssumption, FS_Subset, FS_CardinalityType DEF ConstantsAssumption
<1>2. IsFiniteSet(O) /\ Cardinality(O) <= Cardinality(Q)
  <2>1. [r \in Q |-> Own(r)] \in Surjection(Q, O)
    BY DEF Surjection
  <2> QED
    BY <1>1, <2>1, FS_Surjection
<1> HIDE DEF O
<1>3. /\ IsFiniteSet(S \cup O)
      /\ Cardinality(S \cup O) = Cardinality(S) + Cardinality(O) - Cardinality(S \cap O)
  BY <1>2, FS_Union
<1>4. /\ Cardinality(S) \in Nat /\ Cardinality(O) \in Nat /\ Cardinality(S \cup O) \in Nat
      /\ Cardinality(S \cap O) \in Nat
  BY <1>2, <1>3, FS_Intersection, FS_CardinalityType
<1>5. Cardinality(S \cup O) <= Cardinality(S) + Cardinality(Q)
  BY <1>1, <1>2, <1>3, <1>4
<1> QED
  BY <1>3, <1>4, <1>5 DEF O

LEMMA Counts ==
  ASSUME VersionInv
  PROVE  /\ IsFiniteSet(Requests) /\ Cardinality(Requests) \in Nat
         /\ Cardinality(versions) \in Nat /\ MaxVersions \in Nat
<1>1. IsFiniteSet(Requests) /\ MaxVersions \in Nat
  BY ConstantsAssumption DEF ConstantsAssumption
<1> QED
  BY <1>1, FS_CardinalityType DEF VersionInv

\* A step that fixes no prune and commits nothing leaves what was to be left.
LEMMA Steady ==
  ASSUME VersionInv, UNCHANGED versions,
         \A s \in Requests : Pruned(req'[s]) =>
           /\ Pruned(req[s]) /\ req'[s].at = req[s].at /\ req'[s].snap = req[s].snap
           /\ req'[s].snapKeys = req[s].snapKeys /\ req'[s].del = req[s].del
  PROVE  Bounded'
<1> SUFFICES ASSUME NEW Q \in SUBSET Committing'
             PROVE  Cardinality(Left(Q)') <= MaxVersions + Cardinality(Requests)
  BY DEF Bounded
<1>1. Q \in SUBSET Committing
  BY DEF Committing
<1>2. \A s \in Q : Own(s)' = Own(s) /\ req'[s].del = req[s].del
  BY DEF Own, Committing
<1>3. Left(Q)' = Left(Q)
  BY <1>2 DEF Left
<1> QED
  BY <1>1, <1>3 DEF VersionInv, Bounded

\* A request that is in no transaction after its step.
LEMMA OutsideTransaction ==
  ASSUME TypeOK, VersionInv, NEW r \in Requests, NEW q, req' = [req EXCEPT ![r] = q],
         ~Begun(q), q.del = {}, UNCHANGED <<versions, stamp>>
  PROVE  VersionInv'
<1>1. \A s \in Requests : req'[s] = IF s = r THEN q ELSE req[s]
  BY DEF TypeOK
<1>2. StampInv'
  BY <1>1 DEF VersionInv, StampInv
<1>3. PruneInv'
  BY <1>1 DEF VersionInv, PruneInv
<1>4. Bounded'
  BY <1>1, Steady DEF Begun
<1> QED
  BY <1>2, <1>3, <1>4 DEF VersionInv

\* A request that has not pruned has nothing to delete.
LEMMA NothingToDelete ==
  ASSUME VersionInv, NEW r \in Requests, ~Pruned(req[r])
  PROVE  req[r].del = {}
  BY DEF VersionInv, PruneInv

LEMMA AnswerKeepsVersions ==
  ASSUME TypeOK, VersionInv, NEW r \in Requests, Answer(r), UNCHANGED <<versions, stamp>>
  PROVE  VersionInv'
<1>1. ~Begun(Idle) /\ Idle.del = {}
  BY DEF Begun, Pruned, Idle
<1> QED
  BY <1>1, OutsideTransaction DEF Answer

\* A transaction that goes on without having pruned.
LEMMA InsideTransaction ==
  ASSUME TypeOK, VersionInv, NEW r \in Requests, NEW q, req' = [req EXCEPT ![r] = q],
         Begun(req[r]), Begun(q), q.op = req[r].op, q.at = req[r].at,
         ~Pruned(q), q.del = {}, UNCHANGED <<versions, stamp>>
  PROVE  VersionInv'
<1>1. \A s \in Requests : req'[s] = IF s = r THEN q ELSE req[s]
  BY DEF TypeOK
<1>2. StampInv'
  BY <1>1 DEF VersionInv, StampInv
<1>3. PruneInv'
  BY <1>1 DEF VersionInv, PruneInv
<1>4. Bounded'
  BY <1>1, Steady
<1> QED
  BY <1>2, <1>3, <1>4 DEF VersionInv

\* A transaction that waits, or goes on, after its prune.
LEMMA PastPrune ==
  ASSUME TypeOK, VersionInv, NEW r \in Requests, PruneWaited(r) \/ RestoreWaits(r)
  PROVE  VersionInv'
<1>0. req[r] \in RequestRecords /\ Pruned(req[r])
  BY BusyType DEF PruneWaited, RestoreWaits, At, Pcs, Pruned, Versioned
<1>v. Begun(req[r]) /\ req[r].op \in Versioned
  BY <1>0 DEF Begun, VersionInv, StampInv
<1>1. PICK q : /\ req' = [req EXCEPT ![r] = q]
               /\ Pruned(q) /\ q.op = req[r].op /\ q.at = req[r].at /\ q.snap = req[r].snap
               /\ q.snapKeys = req[r].snapKeys /\ q.del = req[r].del
  <2>1. CASE PruneWaited(r)
    <3> DEFINE w == [req[r] EXCEPT !.pc = "finish"]
    <3>1. /\ Pruned(w) /\ w.op = req[r].op /\ w.at = req[r].at /\ w.snap = req[r].snap
          /\ w.snapKeys = req[r].snapKeys /\ w.del = req[r].del
      BY <1>0, <1>v DEF RequestRecords, Pruned
    <3>2. req' = [req EXCEPT ![r] = w]
      BY <2>1 DEF PruneWaited, Goto
    <3> HIDE DEF w
    <3> QED
      BY <3>1, <3>2
  <2>2. CASE RestoreWaits(r)
    <3>1. PICK v \in Kept(r) :
            req' = [req EXCEPT ![r] = [req[r] EXCEPT !.pc = "restoring", !.blob = v.blob]]
      BY <2>2 DEF RestoreWaits
    <3> DEFINE w == [req[r] EXCEPT !.pc = "restoring", !.blob = v.blob]
    <3>2. /\ Pruned(w) /\ w.op = req[r].op /\ w.at = req[r].at /\ w.snap = req[r].snap
          /\ w.snapKeys = req[r].snapKeys /\ w.del = req[r].del
      BY <1>0 DEF RequestRecords, Pruned
    <3>3. req' = [req EXCEPT ![r] = w]
      BY <3>1
    <3> HIDE DEF w
    <3> QED
      BY <3>2, <3>3
  <2> QED
    BY <2>1, <2>2
<1>u. UNCHANGED <<versions, stamp>>
  BY DEF PruneWaited, RestoreWaits
<1>2. \A s \in Requests : req'[s] = IF s = r THEN q ELSE req[s]
  BY <1>1 DEF TypeOK
<1>b. Begun(q)
  BY <1>1 DEF Begun
<1>3. StampInv'
  BY <1>1, <1>2, <1>b, <1>u, <1>v DEF VersionInv, StampInv
<1>4. PruneInv'
  BY <1>0, <1>1, <1>2, <1>b, <1>u, <1>v DEF VersionInv, PruneInv
<1>5. Bounded'
  BY <1>0, <1>1, <1>2, <1>u, Steady
<1> QED
  BY <1>3, <1>4, <1>5, <1>u DEF VersionInv

\* A request that passes between statements outside a transaction.
LEMMA PassingKeepsVersions ==
  ASSUME TypeOK, VersionInv, NEW r \in Requests, req[r] \in RequestRecords,
         ~Pruned(req[r]), NEW q, req' = [req EXCEPT ![r] = q], q.del = req[r].del,
         ~Begun(q), UNCHANGED <<versions, stamp>>
  PROVE  VersionInv'
  BY NothingToDelete, OutsideTransaction

LEMMA CallKeepsVersions ==
  ASSUME TypeOK, VersionInv, NEW r \in Requests, NEW op \in Ops, NEW u \in Users, Call(r, op, u)
  PROVE  VersionInv'
<1>1. PICK t \in (IF op \in {"share", "revoke"} THEN Users ELSE {NoUser}),
           g \in (IF op = "share" THEN Grants ELSE {None}),
           f \in (IF op = "move" THEN Folders \cup {Root} ELSE {Root}),
           v \in (IF op \in {"restoreVersion", "readVersion"}
                    THEN {x.at : x \in versions} ELSE {-1}) :
        req' = [req EXCEPT ![r] = [Idle EXCEPT
                 !.op = op, !.pc = FirstPc(op), !.user = u, !.target = t, !.grant = g,
                 !.folder = f, !.body = calls + 1, !.ver = v]]
  BY DEF Call
<1> DEFINE q == [Idle EXCEPT
                 !.op = op, !.pc = FirstPc(op), !.user = u, !.target = t, !.grant = g,
                 !.folder = f, !.body = calls + 1, !.ver = v]
<1>2. FirstPc(op) \notin {"snap", "snapKeys", "prune", "waiting", "finish", "restoring"}
  BY DEF FirstPc
<1>3. ~Begun(q) /\ q.del = {}
  BY <1>2 DEF Begun, Pruned, Idle
<1>4. req' = [req EXCEPT ![r] = q] /\ UNCHANGED <<versions, stamp>>
  BY <1>1 DEF Call
<1> HIDE DEF q
<1> QED
  BY <1>3, <1>4, OutsideTransaction

\* BEGIN takes a time later than any version, committed or not.
LEMMA CheckPermKeepsVersions ==
  ASSUME TypeOK, VersionInv, NEW r \in Requests, CheckPerm(r)
  PROVE  VersionInv'
<1>0. req[r] \in RequestRecords /\ ~Pruned(req[r]) /\ req[r].op \in AllOps
  BY BusyType DEF CheckPerm, Pcs, At, Pruned, RequestRecords
<1>d. req[r].del = {}
  BY <1>0, NothingToDelete
<1>u. UNCHANGED versions
  BY DEF CheckPerm
<1>1. CASE Begin(r) /\ AfterPerm(req[r].op) = "snap"
  <2> DEFINE q == [req[r] EXCEPT !.pc = "snap", !.at = stamp + 1]
  <2>1. req[r].op \in Versioned
    BY <1>0, <1>1 DEF AfterPerm, AllOps, Versioned
  <2>2. Begun(q) /\ ~Pruned(q) /\ q.op \in Versioned /\ q.at = stamp + 1 /\ q.del = {}
    BY <1>0, <1>d, <2>1 DEF RequestRecords, Begun, Pruned
  <2>3. req' = [req EXCEPT ![r] = q] /\ stamp' = stamp + 1
    BY <1>1 DEF Begin
  <2> HIDE DEF q
  <2>4. \A s \in Requests : req'[s] = IF s = r THEN q ELSE req[s]
    BY <2>3 DEF TypeOK
  <2>t. stamp \in Nat /\ \A v \in versions : v.at \in Nat
    BY DEF TypeOK, Versions
  <2>r. \A s \in Requests : Begun(req[s]) => req[s].at \in Nat
    BY DEF TypeOK, RequestRecords, Begun, Idle
  <2>5. StampInv'
    <3>1. \A v \in versions : v.at <= stamp' /\ v.at # q.at
      BY <2>2, <2>3, <2>t DEF VersionInv, StampInv
    <3>2. \A s \in Requests : Begun(req[s]) =>
            req[s].op \in Versioned /\ req[s].at <= stamp' /\ req[s].at # q.at
      BY <2>2, <2>3, <2>t, <2>r DEF VersionInv, StampInv
    <3>3. q.at <= stamp'
      BY <2>2, <2>3, <2>t
    <3> QED
      BY <1>u, <2>2, <2>4, <3>1, <3>2, <3>3 DEF VersionInv, StampInv
  <2>6. PruneInv'
    <3>1. \A s \in Requests : req[s].del \subseteq Nat
      BY DEF TypeOK, RequestRecords, Idle
    <3>2. \A s \in Requests : \A d \in req[s].del : d <= stamp' /\ d # q.at
      BY <2>2, <2>3, <2>t, <3>1 DEF VersionInv, PruneInv
    <3> QED
      BY <1>d, <2>2, <2>4, <3>2 DEF VersionInv, PruneInv
  <2>7. Bounded'
    BY <1>u, <2>2, <2>4, Steady
  <2> QED
    BY <1>u, <2>5, <2>6, <2>7 DEF VersionInv
<1>2. CASE Goto(r, AfterPerm(req[r].op)) /\ UNCHANGED stamp /\ AfterPerm(req[r].op) # "snap"
  <2> DEFINE q == [req[r] EXCEPT !.pc = AfterPerm(req[r].op)]
  <2>1. ~Begun(q) /\ q.del = req[r].del
    BY <1>0, <1>2 DEF AfterPerm, Begun, Pruned, Versioned, RequestRecords
  <2>2. req' = [req EXCEPT ![r] = q]
    BY <1>2 DEF Goto
  <2> HIDE DEF q
  <2> QED
    BY <1>0, <1>2, <1>u, <2>1, <2>2, PassingKeepsVersions
<1>3. CASE Answer(r) /\ UNCHANGED stamp
  BY <1>3, <1>u, AnswerKeepsVersions
<1> QED
  BY <1>1, <1>2, <1>3 DEF CheckPerm

LEMMA SnapKeepsVersions ==
  ASSUME TypeOK, VersionInv, NEW r \in Requests, SnapBlob(r) \/ SnapKeys(r)
  PROVE  VersionInv'
<1>0. req[r] \in RequestRecords /\ ~Pruned(req[r]) /\ Begun(req[r])
  BY BusyType DEF SnapBlob, SnapKeys, Pcs, At, Pruned, Begun
<1>d. req[r].del = {}
  BY <1>0, NothingToDelete
<1>u. UNCHANGED <<versions, stamp>>
  BY DEF SnapBlob, SnapKeys
<1>1. CASE Answer(r)
  BY <1>1, <1>u, AnswerKeepsVersions
<1>2. ASSUME NEW q, q \in {[req[r] EXCEPT !.pc = "snapKeys", !.snap = entry.blob],
                           [req[r] EXCEPT !.pc = "prune", !.snapKeys = keys]},
             req' = [req EXCEPT ![r] = q]
      PROVE  VersionInv'
  <2>1. Begun(q) /\ q.op = req[r].op /\ q.at = req[r].at /\ ~Pruned(q) /\ q.del = {}
    BY <1>0, <1>d, <1>2 DEF RequestRecords, Begun, Pruned
  <2> QED
    BY <1>0, <1>2, <1>u, <2>1, InsideTransaction
<1> QED
  BY <1>1, <1>2 DEF SnapBlob, SnapKeys

\* What a prune deletes are times of versions it sees.
LEMMA SurplusIsSeen ==
  ASSUME NEW V, NEW keep, NEW d \in Surplus(V, keep)
  PROVE  \E v \in V : v.at = d
  BY DEF Surplus

\* The prune: what it leaves of the versions it sees is within the cap, and the
\* rivals past their prune add at most one version each.
LEMMA PruneKeepsVersions ==
  ASSUME TypeOK, VersionInv, NEW r \in Requests, Prune(r)
  PROVE  VersionInv'
<1> DEFINE del == Surplus(Seen(r), req[r].ver)
<1>0. req[r] \in RequestRecords /\ ~Pruned(req[r]) /\ Begun(req[r])
  BY BusyType DEF Prune, Pcs, At, Pruned, Begun
<1>v. req[r].op \in Versioned
  BY <1>0 DEF VersionInv, StampInv
<1>1. PICK pc \in {"waiting", "finish"} :
        /\ req' = [req EXCEPT ![r] = [req[r] EXCEPT !.pc = pc, !.del = del]]
        /\ UNCHANGED <<versions, stamp>>
  BY PruneEffect
<1> DEFINE q == [req[r] EXCEPT !.pc = pc, !.del = del]
<1>2. /\ Pruned(q) /\ q.op = req[r].op /\ q.at = req[r].at /\ q.del = del
      /\ q.snap = req[r].snap /\ q.snapKeys = req[r].snapKeys
  BY <1>0, <1>v DEF RequestRecords, Pruned
<1>b. Begun(q)
  BY <1>2 DEF Begun
<1>3. \A d \in del : d = req[r].at \/ \E v \in versions : v.at = d
  <2>1. \A d \in del : \E v \in Seen(r) : v.at = d
    BY SurplusIsSeen
  <2> HIDE DEF del
  <2> QED
    BY <2>1 DEF Seen
<1> HIDE DEF q
<1>4. \A s \in Requests : req'[s] = IF s = r THEN q ELSE req[s]
  BY <1>1 DEF TypeOK, q
<1>5. StampInv'
  BY <1>0, <1>1, <1>2, <1>b, <1>4 DEF VersionInv, StampInv
<1>7. PruneInv'
  <2> HIDE DEF del
  <2>1. \A s \in Requests : req'[s].del # {} => Pruned(req'[s])
    BY <1>2, <1>4 DEF VersionInv, PruneInv
  <2>2. \A d \in del : d <= stamp
    BY <1>0, <1>3 DEF VersionInv, StampInv
  <2>3. \A s \in Requests : \A d \in req'[s].del : d <= stamp
    BY <1>2, <1>4, <2>2 DEF VersionInv, PruneInv
  <2>4. \A s \in Requests : s # r /\ Begun(req[s]) => req[s].at \notin del
    BY <1>0, <1>3 DEF VersionInv, StampInv
  <2>5. \A s, t \in Requests : s # t /\ Begun(req'[t]) => req'[t].at \notin req'[s].del
    BY <1>0, <1>2, <1>4, <2>4 DEF VersionInv, PruneInv
  <2> QED
    BY <1>1, <2>1, <2>3, <2>5 DEF PruneInv
<1>8. Bounded'
  <2> SUFFICES ASSUME NEW Q \in SUBSET Committing'
               PROVE  Cardinality(Left(Q)') <= MaxVersions + Cardinality(Requests)
    BY DEF Bounded
  <2> HIDE DEF del
  <2>o. \A s \in Requests : Own(s)' = Own(s) /\ (s # r => req'[s] = req[s])
    BY <1>2, <1>4 DEF Own
  <2>q. Q \in SUBSET Requests
    BY DEF Committing
  <2>1. CASE r \notin Q
    <3>1. Q \in SUBSET Committing
      BY <1>4, <2>1 DEF Committing
    <3>2. Left(Q)' = Left(Q)
      BY <1>1, <2>1, <2>o, <2>q DEF Left
    <3> QED
      BY <3>1, <3>2 DEF VersionInv, Bounded
  <2>2. CASE r \in Q
    <3> DEFINE K == {v \in Seen(r) : v.at \notin del}
               O == Q \ {r}
    <3>1. Seen(r) = versions \cup {Own(r)} /\ IsFiniteSet(Seen(r))
      <4>1. Seen(r) = versions \cup {Own(r)}
        BY DEF Seen, Own
      <4> QED
        BY <4>1, FS_AddElement DEF VersionInv
    <3>2. \A v \in Seen(r) : v.at \in Nat
      BY <1>0, <3>1 DEF Own, TypeOK, Versions, RequestRecords
    <3>3. \A v, w \in Seen(r) : v.at = w.at => v = w
      BY <1>0, <3>1 DEF Own, VersionInv, StampInv
    <3>4. IsFiniteSet(K) /\ Cardinality(K) <= MaxVersions + 1
      BY <3>1, <3>2, <3>3, FewKept DEF del
    <3>5. Left(Q)' \subseteq K \cup {Own(s) : s \in O}
      <4>1. ASSUME NEW v \in Left(Q)' PROVE v \in K \cup {Own(s) : s \in O}
        <5>1. v.at \notin del
          BY <1>2, <1>4, <2>2, <4>1 DEF Left
        <5>2. v \in versions \/ \E s \in Q : v = Own(s)
          BY <1>1, <2>o, <2>q DEF Left
        <5> QED
          BY <3>1, <5>1, <5>2
      <4> QED
        BY <4>1
    <3>6. O \in SUBSET Requests /\ Cardinality(O) = Cardinality(Q) - 1
          /\ Cardinality(Q) \in Nat /\ Cardinality(Q) <= Cardinality(Requests)
      BY <2>2, <2>q, Counts, FS_Subset, FS_RemoveElement, FS_CardinalityType
    <3> HIDE DEF K, O
    <3>7. /\ IsFiniteSet(K \cup {Own(s) : s \in O})
          /\ Cardinality(K \cup {Own(s) : s \in O}) \in Nat
          /\ Cardinality(K \cup {Own(s) : s \in O}) <= Cardinality(K) + Cardinality(O)
      BY <3>4, <3>6, OneEach
    <3>8. /\ Cardinality(Left(Q)') <= Cardinality(K \cup {Own(s) : s \in O})
          /\ Cardinality(Left(Q)') \in Nat
      BY <3>5, <3>7, FS_Subset, FS_CardinalityType
    <3>9. Cardinality(K) \in Nat
      BY <3>4, FS_CardinalityType
    <3> QED
      BY <3>4, <3>6, <3>7, <3>8, <3>9, Counts
  <2> QED
    BY <2>1, <2>2
<1> QED
  BY <1>1, <1>5, <1>7, <1>8 DEF VersionInv

\* The commit: what is left of it and of others is what was to be left.
LEMMA CommitKeepsVersions ==
  ASSUME TypeOK, VersionInv, NEW r \in Requests, Pruned(req[r]), Answer(r),
         versions' = Kept(r), UNCHANGED stamp
  PROVE  VersionInv'
<1> DEFINE own == Own(r)
<1>0. Begun(req[r])
  BY DEF Begun
<1>1. \A s \in Requests : req'[s] = IF s = r THEN Idle ELSE req[s]
  BY DEF Answer, TypeOK
<1>2. ~Begun(Idle) /\ ~Pruned(Idle) /\ Idle.del = {}
  BY DEF Begun, Pruned, Idle
<1>3. Seen(r) = versions \cup {own} /\ own.at = req[r].at
  BY DEF Seen, Own
<1> HIDE DEF own
<1>4. versions' \subseteq versions \cup {own}
  BY <1>3 DEF Kept
<1>5. StampInv'
  <2>1. \A v \in versions' : v.at <= stamp
    BY <1>0, <1>3, <1>4 DEF VersionInv, StampInv
  <2>2. \A v, w \in versions' : v.at = w.at => v = w
    BY <1>0, <1>3, <1>4 DEF VersionInv, StampInv
  <2>3. \A s \in Requests : s # r /\ Begun(req[s]) => \A v \in versions' : v.at # req[s].at
    BY <1>0, <1>3, <1>4 DEF VersionInv, StampInv
  <2> QED
    BY <1>1, <1>2, <2>1, <2>2, <2>3 DEF VersionInv, StampInv
<1>6. PruneInv'
  BY <1>1, <1>2 DEF VersionInv, PruneInv
<1>7. IsFiniteSet(versions')
  BY <1>4, FS_AddElement, FS_Subset DEF VersionInv
<1>8. Bounded'
  <2> SUFFICES ASSUME NEW Q \in SUBSET Committing'
               PROVE  Cardinality(Left(Q)') <= MaxVersions + Cardinality(Requests)
    BY DEF Bounded
  <2> DEFINE P == Q \cup {r}
  <2>1. r \notin Q /\ P \in SUBSET Committing /\ P \in SUBSET Requests
    BY <1>1, <1>2 DEF Committing
  <2>2. \A s \in Q : req'[s] = req[s] /\ Own(s)' = Own(s) /\ Begun(req[s])
    BY <1>1, <2>1 DEF Own, Committing, Begun
  <2>3. Left(Q)' \subseteq Left(P)
    <3>1. ASSUME NEW v \in Left(Q)' PROVE v \in Left(P)
      <4>1. \A s \in Q : v.at \notin req[s].del
        BY <2>2 DEF Left
      <4>2. v \in Kept(r) \/ \E s \in Q : v = Own(s)
        BY <2>2 DEF Left
      <4>3. v.at \notin req[r].del
        <5>1. CASE v \in Kept(r)
          BY <5>1 DEF Kept
        <5>2. CASE \E s \in Q : v = Own(s)
          <6>1. PICK s \in Q : v = Own(s)
            BY <5>2
          <6>2. s \in Requests /\ s # r /\ Begun(req[s]) /\ v.at = req[s].at
            BY <2>1, <2>2, <6>1 DEF Own
          <6> QED
            BY <6>2 DEF VersionInv, PruneInv
        <5> QED
          BY <4>2, <5>1, <5>2
      <4>4. v \in versions \cup {Own(s) : s \in P}
        BY <1>3, <4>2 DEF Kept, own
      <4> QED
        BY <4>1, <4>3, <4>4 DEF Left
    <3> QED
      BY <3>1
  <2> HIDE DEF P
  <2>4. IsFiniteSet(versions \cup {Own(s) : s \in P})
    BY <2>1, OneEach DEF VersionInv
  <2>5. IsFiniteSet(Left(P))
    BY <2>4, FS_Subset DEF Left
  <2>6. /\ Cardinality(Left(Q)') <= Cardinality(Left(P))
        /\ Cardinality(Left(Q)') \in Nat /\ Cardinality(Left(P)) \in Nat
    BY <2>3, <2>5, FS_Subset, FS_CardinalityType
  <2>7. Cardinality(Left(P)) <= MaxVersions + Cardinality(Requests)
    BY <2>1 DEF VersionInv, Bounded
  <2> QED
    BY <2>6, <2>7, Counts
<1> QED
  BY <1>5, <1>6, <1>7, <1>8 DEF VersionInv

\* A purge waits for the transactions that have inserted a version, and leaves none.
LEMMA DeleteKeepsVersions ==
  ASSUME TypeOK, VersionInv, InTx = {}, DeleteRows, UNCHANGED stamp,
         req' = req \/ \E r \in Requests : Answer(r)
  PROVE  VersionInv'
<1>1. \A s \in Requests : ~Pruned(req[s]) /\ req[s].del = {}
  <2>1. \A s \in Requests : Pruned(req[s]) => s \in InTx
    BY DEF InTx, Pruned, Begun, VersionInv, StampInv
  <2> QED
    BY <2>1, NothingToDelete
<1>2. versions' = {}
  BY DEF DeleteRows
<1>3. \A s \in Requests : req'[s] = req[s] \/ req'[s] = Idle
  BY DEF TypeOK, Answer
<1>4. ~Begun(Idle) /\ ~Pruned(Idle) /\ Idle.del = {}
  BY DEF Begun, Pruned, Idle
<1>5. StampInv'
  BY <1>2, <1>3, <1>4 DEF VersionInv, StampInv
<1>6. PruneInv'
  BY <1>1, <1>3, <1>4 DEF PruneInv
<1>7. Bounded'
  <2>1. Committing' = {}
    BY <1>1, <1>3, <1>4 DEF Committing
  <2>2. Left({})' = {}
    BY <1>2 DEF Left
  <2>3. \A Q \in SUBSET Committing' : Left(Q)' = {}
    BY <2>1, <2>2
  <2> QED
    BY <2>3, FS_EmptySet, Counts DEF Bounded
<1>8. IsFiniteSet(versions')
  BY <1>2, FS_EmptySet
<1> QED
  BY <1>5, <1>6, <1>7, <1>8 DEF VersionInv

\* The reads.
LEMMA ReadKeepsVersions ==
  ASSUME TypeOK, VersionInv, NEW r \in Requests,
         GetBlob(r) \/ GetKey(r) \/ RequireAccess(r) \/ GetVersionBlob(r) \/ GetVersionKey(r)
  PROVE  VersionInv'
<1>0. req[r] \in RequestRecords /\ ~Pruned(req[r])
  BY BusyType DEF GetBlob, GetKey, RequireAccess, GetVersionBlob, GetVersionKey, Pcs, At, Pruned
<1>u. UNCHANGED <<versions, stamp>>
  BY DEF GetBlob, GetKey, RequireAccess, GetVersionBlob, GetVersionKey
<1>a. CASE Answer(r)
  BY <1>a, <1>u, AnswerKeepsVersions
<1>1. ASSUME NEW pc \in {"getKey", "reply", "perm", "ver", "verKey"}, NEW q,
             q.pc = pc, q.del = req[r].del, req' = [req EXCEPT ![r] = q]
      PROVE  VersionInv'
  <2>1. ~Begun(q)
    BY <1>1 DEF Begun, Pruned
  <2> QED
    BY <1>0, <1>1, <1>u, <2>1, PassingKeepsVersions
<1>2. CASE GetBlob(r)
  <2> DEFINE q == [req[r] EXCEPT !.pc = "getKey", !.blob = entry.blob, !.folder = entry.folder]
  <2>1. q.pc = "getKey" /\ q.del = req[r].del
    BY <1>0 DEF RequestRecords
  <2>2. Answer(r) \/ req' = [req EXCEPT ![r] = q]
    BY <1>2 DEF GetBlob
  <2> HIDE DEF q
  <2> QED
    BY <1>a, <1>1, <2>1, <2>2
<1>3. CASE GetKey(r)
  <2>1. \A pc \in {"reply", "perm"} :
          /\ [req[r] EXCEPT !.dk = keys[req[r].user], !.pc = pc].pc = pc
          /\ [req[r] EXCEPT !.dk = keys[req[r].user], !.pc = pc].del = req[r].del
    BY <1>0 DEF RequestRecords
  <2>2. \/ Answer(r)
        \/ \E pc \in {"reply", "perm"} : req' = [req EXCEPT ![r] =
             [req[r] EXCEPT !.dk = keys[req[r].user], !.pc = pc]]
    BY <1>3 DEF GetKey
  <2> QED
    BY <1>a, <1>1, <2>1, <2>2
<1>4. CASE RequireAccess(r)
  <2> DEFINE q == [req[r] EXCEPT !.pc = "ver"]
  <2>1. q.pc = "ver" /\ q.del = req[r].del
    BY <1>0 DEF RequestRecords
  <2>2. Answer(r) \/ req' = [req EXCEPT ![r] = q]
    BY <1>4 DEF RequireAccess, Goto
  <2> HIDE DEF q
  <2> QED
    BY <1>a, <1>1, <2>1, <2>2
<1>5. CASE GetVersionBlob(r)
  <2>1. \A v \in versions :
          /\ [req[r] EXCEPT !.pc = "verKey", !.blob = v.blob].pc = "verKey"
          /\ [req[r] EXCEPT !.pc = "verKey", !.blob = v.blob].del = req[r].del
    BY <1>0 DEF RequestRecords
  <2>2. \/ Answer(r)
        \/ \E v \in versions :
             req' = [req EXCEPT ![r] = [req[r] EXCEPT !.pc = "verKey", !.blob = v.blob]]
    BY <1>5 DEF GetVersionBlob
  <2> QED
    BY <1>a, <1>1, <2>1, <2>2
<1>6. CASE GetVersionKey(r)
  <2>1. \A v \in versions :
          /\ [req[r] EXCEPT !.pc = "reply", !.dk = v.keys[req[r].user]].pc = "reply"
          /\ [req[r] EXCEPT !.pc = "reply", !.dk = v.keys[req[r].user]].del = req[r].del
    BY <1>0 DEF RequestRecords
  <2>2. \/ Answer(r)
        \/ \E v \in versions : req' = [req EXCEPT ![r] =
             [req[r] EXCEPT !.pc = "reply", !.dk = v.keys[req[r].user]]]
    BY <1>6 DEF GetVersionKey, Readable
  <2> QED
    BY <1>a, <1>1, <2>1, <2>2
<1> QED
  BY <1>2, <1>3, <1>4, <1>5, <1>6

\* The steps between two statements of a handler without a transaction.
LEMMA GotoKeepsVersions ==
  ASSUME TypeOK, VersionInv, NEW r \in Requests,
         NEW from \in {"insert", "createKey", "key", "unperm"}, At(r, from),
         NEW to \in {"createKey", "createGrant", "grant", "unkey"}, Goto(r, to),
         UNCHANGED <<versions, stamp>>
  PROVE  VersionInv'
<1>1. req[r] \in RequestRecords /\ ~Pruned(req[r])
  BY BusyType DEF Pcs, At, Pruned
<1> DEFINE q == [req[r] EXCEPT !.pc = to]
<1>2. ~Begun(q) /\ q.del = req[r].del
  BY <1>1 DEF Begun, Pruned, RequestRecords
<1>3. req' = [req EXCEPT ![r] = q]
  BY DEF Goto
<1> HIDE DEF q
<1> QED
  BY <1>1, <1>2, <1>3, PassingKeepsVersions

\* The commit of an edit or a restore; a restore of a version that is gone is
\* rolled back.
LEMMA FinishKeepsVersions ==
  ASSUME TypeOK, VersionInv, NEW r \in Requests,
         FinishEdit(r) \/ FinishRestore(r) \/ RestoreWaited(r)
  PROVE  VersionInv'
<1>1. Pruned(req[r]) /\ Answer(r) /\ UNCHANGED stamp
  BY DEF FinishEdit, FinishRestore, RestoreWaited, At, Pruned, Versioned
<1>2. versions' = Kept(r) \/ UNCHANGED versions
  BY DEF FinishEdit, FinishRestore, RestoreWaited
<1> QED
  BY <1>1, <1>2, CommitKeepsVersions, AnswerKeepsVersions

LEMMA VersionInvStep == TypeOK /\ VersionInv /\ [Next]_vars => VersionInv'
<1> SUFFICES ASSUME TypeOK, VersionInv, [Next]_vars PROVE VersionInv'
  OBVIOUS
<1>1. ASSUME NEW r \in Requests, Handle(r)
      PROVE  VersionInv'
  <2>1. CASE Answer(r) /\ UNCHANGED <<versions, stamp>>
    BY <2>1, AnswerKeepsVersions
  <2>2. CASE \/ CheckPerm(r) \/ SnapBlob(r) \/ SnapKeys(r) \/ Prune(r)
             \/ PruneWaited(r) \/ RestoreWaits(r)
             \/ FinishEdit(r) \/ FinishRestore(r) \/ RestoreWaited(r)
    BY <2>2, CheckPermKeepsVersions, SnapKeepsVersions, PruneKeepsVersions, PastPrune,
       FinishKeepsVersions
  <2>3. CASE GetBlob(r) \/ GetKey(r) \/ RequireAccess(r) \/ GetVersionBlob(r) \/ GetVersionKey(r)
    BY <2>3, ReadKeepsVersions
  <2>4. CASE CreateInsert(r) \/ CreateKey(r) \/ ShareKey(r) \/ RevokePerm(r)
    BY <2>1, <2>4, GotoKeepsVersions DEF CreateInsert, CreateKey, ShareKey, RevokePerm
  <2>5. CASE PurgeEntry(r)
    BY <2>1, <2>5, DeleteKeepsVersions DEF PurgeEntry
  <2>6. CASE \/ Reply(r) \/ CreateGrant(r) \/ FinishMeta(r) \/ DeleteEntry(r) \/ RestoreEntry(r)
             \/ ShareGrant(r) \/ RevokeKey(r)
    BY <2>1, <2>6 DEF Reply, CreateGrant, FinishMeta, DeleteEntry, RestoreEntry, ShareGrant,
       RevokeKey
  <2> QED
    BY <1>1, <2>2, <2>3, <2>4, <2>5, <2>6 DEF Handle
<1>2. ASSUME NEW r \in Requests, Die(r) \/ StatementFails(r)
      PROVE  VersionInv'
  BY <1>2, AnswerKeepsVersions, GotoKeepsVersions DEF Die, StatementFails
<1>3. CASE PurgeOnce
  BY <1>3, DeleteKeepsVersions DEF PurgeOnce
<1>4. CASE UNCHANGED vars
  <2>1. UNCHANGED <<versions, stamp, req>>
    BY <1>4 DEF vars
  <2> QED
    BY <2>1 DEF VersionInv, StampInv, PruneInv, Bounded, Committing, Left, Own
<1> QED
  BY <1>1, <1>2, <1>3, <1>4, CallKeepsVersions DEF Next

LEMMA InitVersionInv == Init => VersionInv
<1> SUFFICES ASSUME Init PROVE VersionInv
  OBVIOUS
<1>1. PICK start \in Starts : versions = InitVersions(start)
  BY DEF Init
<1>2. stamp = 0 /\ \A r \in Requests : req[r] = Idle
  BY DEF Init
<1>3. ~Begun(Idle) /\ ~Pruned(Idle) /\ Idle.del = {}
  BY DEF Begun, Pruned, Idle
<1>4. versions = {} \/ \E v : versions = {v} /\ v.at = 0
  BY <1>1 DEF InitVersions
<1>5. StampInv /\ PruneInv
  BY <1>2, <1>3, <1>4 DEF StampInv, PruneInv
<1>6. IsFiniteSet(versions) /\ Cardinality(versions) <= 1 /\ Cardinality(versions) \in Nat
  <2>1. CASE versions = {}
    BY <2>1, FS_EmptySet
  <2>2. ASSUME NEW v, versions = {v}
        PROVE  IsFiniteSet(versions) /\ Cardinality(versions) = 1
    BY <2>2, FS_Singleton
  <2> QED
    BY <1>4, <2>1, <2>2
<1>7. Committing = {}
  BY <1>2, <1>3 DEF Committing
<1>8. Left({}) = versions
  BY DEF Left
<1>9. MaxVersions \in Nat \ {0} /\ Cardinality(Requests) \in Nat
  BY ConstantsAssumption, FS_CardinalityType DEF ConstantsAssumption
<1>10. Bounded
  BY <1>6, <1>7, <1>8, <1>9 DEF Bounded
<1> QED
  BY <1>5, <1>6, <1>10 DEF VersionInv

\* However many edits and restores overlap, whatever the order of their snapshots,
\* prunes and commits, and whichever of them die half-way: the history never holds
\* more than maxVersionsPerEntry versions and one for every request in flight.
THEOREM VersionsStayBounded == Spec => []VersionsBounded
<1>1. VersionInv => VersionsBounded
  <2>1. Left({}) = versions /\ {} \in SUBSET Committing
    BY DEF Left
  <2> QED
    BY <2>1 DEF VersionInv, Bounded, VersionsBounded
<1>2. TypeOK /\ VersionInv /\ [Next]_vars => (TypeOK /\ VersionInv)'
  BY StepType, VersionInvStep
<1> QED
  BY <1>1, <1>2, InitType, InitVersionInv, PTL DEF Spec

-----------------------------------------------------------------------------
(* One request at a time, from here on.  What each handler's next          *)
(* statement then makes of its request: the fields the invariants below    *)
(* look at, whatever else the statement writes.                            *)

OneAtATime == \A r, s \in Requests : r = s

SameCall(p, q) == p.op = q.op /\ p.user = q.user /\ p.target = q.target /\ p.grant = q.grant

SameRead(p, q) == p.dk = q.dk /\ p.blob = q.blob

SameSnap(p, q) == p.snap = q.snap /\ p.snapKeys = q.snapKeys

LEMMA AnswerEffect ==
  ASSUME TypeOK, NEW r \in Requests, Answer(r)
  PROVE  req'[r] = Idle
  BY DEF Answer, TypeOK

LEMMA GotoEffect ==
  ASSUME TypeOK, NEW r \in Requests, req[r] \in RequestRecords, NEW pc, Goto(r, pc)
  PROVE  /\ req'[r].pc = pc /\ SameCall(req'[r], req[r])
         /\ SameRead(req'[r], req[r]) /\ SameSnap(req'[r], req[r])
<1>1. req'[r] = [req[r] EXCEPT !.pc = pc]
  BY DEF Goto, TypeOK
<1> QED
  BY <1>1 DEF RequestRecords, SameCall, SameRead, SameSnap

LEMMA CallEffect ==
  ASSUME TypeOK, NEW r \in Requests, NEW op \in Ops, NEW u \in Users, Call(r, op, u)
  PROVE  LET q == req'[r] IN
           /\ q.op = op /\ q.pc = FirstPc(op) /\ q.user = u
           /\ op \in {"share", "revoke"} => q.target \in Users
           /\ op = "share" => q.grant \in Grants
           /\ op # "share" => q.grant = None
           /\ q.dk = 0
<1>1. PICK t \in (IF op \in {"share", "revoke"} THEN Users ELSE {NoUser}),
           g \in (IF op = "share" THEN Grants ELSE {None}),
           f \in (IF op = "move" THEN Folders \cup {Root} ELSE {Root}),
           v \in (IF op \in {"restoreVersion", "readVersion"}
                    THEN {x.at : x \in versions} ELSE {-1}) :
        req' = [req EXCEPT ![r] = [Idle EXCEPT
                 !.op = op, !.pc = FirstPc(op), !.user = u, !.target = t, !.grant = g,
                 !.folder = f, !.body = calls + 1, !.ver = v]]
  BY DEF Call
<1>2. req'[r] = [Idle EXCEPT
                 !.op = op, !.pc = FirstPc(op), !.user = u, !.target = t, !.grant = g,
                 !.folder = f, !.body = calls + 1, !.ver = v]
  BY <1>1 DEF TypeOK
<1> QED
  BY <1>2 DEF Idle

LEMMA CheckPermEffect ==
  ASSUME TypeOK, NEW r \in Requests, CheckPerm(r)
  PROVE  \/ req'[r] = Idle
         \/ /\ req'[r].pc = AfterPerm(req[r].op) /\ perms[req[r].user] \in Roles(req[r].op)
            /\ SameCall(req'[r], req[r]) /\ SameRead(req'[r], req[r])
<1>0. req[r] \in RequestRecords
  BY BusyType DEF CheckPerm, Pcs
<1>1. CASE Begin(r) /\ AfterPerm(req[r].op) = "snap" /\ perms[req[r].user] \in Roles(req[r].op)
  <2>1. req'[r] = [req[r] EXCEPT !.pc = "snap", !.at = stamp + 1]
    BY <1>1 DEF Begin, TypeOK
  <2> QED
    BY <1>0, <1>1, <2>1 DEF RequestRecords, SameCall, SameRead
<1> QED
  BY <1>0, <1>1, GotoEffect, AnswerEffect DEF CheckPerm

LEMMA GetBlobEffect ==
  ASSUME TypeOK, NEW r \in Requests, GetBlob(r)
  PROVE  \/ req'[r] = Idle
         \/ req'[r].pc = "getKey" /\ req'[r].blob = entry.blob /\ SameCall(req'[r], req[r])
<1>0. req[r] \in RequestRecords
  BY BusyType DEF GetBlob, Pcs
<1>1. \/ Answer(r)
      \/ req'[r] = [req[r] EXCEPT !.pc = "getKey", !.blob = entry.blob, !.folder = entry.folder]
  BY DEF GetBlob, TypeOK
<1> QED
  BY <1>0, <1>1, AnswerEffect DEF RequestRecords, SameCall

LEMMA GetKeyEffect ==
  ASSUME TypeOK, NEW r \in Requests, GetKey(r)
  PROVE  \/ req'[r] = Idle
         \/ /\ req'[r].pc = IF req[r].op = "read" THEN "reply" ELSE "perm"
            /\ req'[r].dk = keys[req[r].user] /\ keys[req[r].user] # 0
            /\ req[r].op = "edit" => keys[req[r].user] = req[r].blob.dk
            /\ req'[r].blob = req[r].blob /\ SameCall(req'[r], req[r])
<1>0. req[r] \in RequestRecords
  BY BusyType DEF GetKey, Pcs
<1> DEFINE k == keys[req[r].user]
           pc == IF req[r].op = "read" THEN "reply" ELSE "perm"
<1>1. \/ Answer(r)
      \/ /\ k # 0 /\ (req[r].op = "edit" => k = req[r].blob.dk)
         /\ req'[r] = [req[r] EXCEPT !.dk = k, !.pc = pc]
  BY DEF GetKey, TypeOK
<1> HIDE DEF k, pc
<1>2. CASE req'[r] = [req[r] EXCEPT !.dk = k, !.pc = pc]
  <2>1. /\ req'[r].pc = pc /\ req'[r].dk = k
        /\ req'[r].blob = req[r].blob /\ SameCall(req'[r], req[r])
    BY <1>0, <1>2 DEF RequestRecords, SameCall
  <2> QED
    BY <1>1, <2>1, AnswerEffect DEF k, pc
<1> QED
  BY <1>1, <1>2, AnswerEffect DEF k, pc

\* Without rivals a prune finds no row locked.
LEMMA NoRival ==
  ASSUME OneAtATime, TypeOK, NEW r \in Requests, Prune(r)
  PROVE  \E D : req'[r] = [req[r] EXCEPT !.pc = "finish", !.del = D]
<1>1. Requests \ {r} = {}
  BY DEF OneAtATime
<1>2. \A D : ~LockedByRival(r, D)
  BY <1>1 DEF LockedByRival
<1>3. req' = [req EXCEPT ![r] = [req[r] EXCEPT !.pc = "finish",
                                              !.del = Surplus(Seen(r), req[r].ver)]]
  BY <1>2 DEF Prune
<1> QED
  BY <1>3 DEF TypeOK

LEMMA SnapEffect ==
  ASSUME OneAtATime, TypeOK, NEW r \in Requests, SnapBlob(r) \/ SnapKeys(r) \/ Prune(r)
  PROVE  \/ req'[r] = Idle
         \/ /\ SameCall(req'[r], req[r]) /\ SameRead(req'[r], req[r])
            /\ SnapBlob(r) => req'[r].pc = "snapKeys" /\ req'[r].snap = entry.blob
            /\ SnapKeys(r) => /\ req'[r].pc = "prune" /\ req'[r].snap = req[r].snap
                              /\ req'[r].snapKeys = keys
            /\ Prune(r) => req'[r].pc = "finish" /\ SameSnap(req'[r], req[r])
<1>0. req[r] \in RequestRecords
  BY BusyType DEF SnapBlob, SnapKeys, Prune, Pcs
<1>1. CASE SnapBlob(r)
  <2>1. Answer(r) \/ req'[r] = [req[r] EXCEPT !.pc = "snapKeys", !.snap = entry.blob]
    BY <1>1 DEF SnapBlob, TypeOK
  <2>2. ~SnapKeys(r) /\ ~Prune(r)
    BY <1>1 DEF SnapBlob, SnapKeys, Prune, At
  <2> QED
    BY <1>0, <2>1, <2>2, AnswerEffect DEF RequestRecords, SameCall, SameRead
<1>2. CASE SnapKeys(r)
  <2>1. req'[r] = [req[r] EXCEPT !.pc = "prune", !.snapKeys = keys]
    BY <1>2 DEF SnapKeys, TypeOK
  <2>2. ~SnapBlob(r) /\ ~Prune(r)
    BY <1>2 DEF SnapBlob, SnapKeys, Prune, At
  <2> QED
    BY <1>0, <2>1, <2>2 DEF RequestRecords, SameCall, SameRead
<1>3. CASE Prune(r)
  <2>1. PICK D : req'[r] = [req[r] EXCEPT !.pc = "finish", !.del = D]
    BY <1>3, NoRival
  <2>2. ~SnapBlob(r) /\ ~SnapKeys(r)
    BY <1>3 DEF SnapBlob, SnapKeys, Prune, At
  <2> QED
    BY <1>0, <2>1, <2>2 DEF RequestRecords, SameCall, SameRead, SameSnap
<1> QED
  BY <1>1, <1>2, <1>3

\* The statements that only move on.
LEMMA MoveOnEffect ==
  ASSUME TypeOK, NEW r \in Requests,
         RequireAccess(r) \/ CreateInsert(r) \/ CreateKey(r) \/ ShareKey(r) \/ RevokePerm(r)
  PROVE  \/ req'[r] = Idle
         \/ /\ SameCall(req'[r], req[r]) /\ SameRead(req'[r], req[r])
            /\ RequireAccess(r) => req'[r].pc = "ver"
            /\ CreateInsert(r) => req'[r].pc = "createKey"
            /\ CreateKey(r) => req'[r].pc = "createGrant"
            /\ ShareKey(r) => req'[r].pc = "grant"
            /\ RevokePerm(r) => req'[r].pc = "unkey"
<1>0. req[r] \in RequestRecords
  BY BusyType DEF RequireAccess, CreateInsert, CreateKey, ShareKey, RevokePerm, Pcs
<1>1. CASE RequireAccess(r)
  BY <1>0, <1>1, GotoEffect, AnswerEffect
     DEF RequireAccess, CreateInsert, CreateKey, ShareKey, RevokePerm, At
<1>2. CASE CreateInsert(r)
  BY <1>0, <1>2, GotoEffect, AnswerEffect
     DEF RequireAccess, CreateInsert, CreateKey, ShareKey, RevokePerm, At
<1>3. CASE CreateKey(r)
  BY <1>0, <1>3, GotoEffect, AnswerEffect
     DEF RequireAccess, CreateInsert, CreateKey, ShareKey, RevokePerm, At
<1>4. CASE ShareKey(r)
  BY <1>0, <1>4, GotoEffect, AnswerEffect
     DEF RequireAccess, CreateInsert, CreateKey, ShareKey, RevokePerm, At
<1>5. CASE RevokePerm(r)
  BY <1>0, <1>5, GotoEffect, AnswerEffect
     DEF RequireAccess, CreateInsert, CreateKey, ShareKey, RevokePerm, At
<1> QED
  BY <1>1, <1>2, <1>3, <1>4, <1>5

LEMMA VersionReadEffect ==
  ASSUME TypeOK, NEW r \in Requests, GetVersionBlob(r) \/ GetVersionKey(r)
  PROVE  \/ req'[r] = Idle
         \/ SameCall(req'[r], req[r]) /\ req'[r].pc \in {"verKey", "reply"}
<1>0. req[r] \in RequestRecords
  BY BusyType DEF GetVersionBlob, GetVersionKey, Pcs
<1>1. \/ Answer(r)
      \/ \E b : req'[r] = [req[r] EXCEPT !.pc = "verKey", !.blob = b]
      \/ \E k : req'[r] = [req[r] EXCEPT !.pc = "reply", !.dk = k]
  BY DEF GetVersionBlob, GetVersionKey, TypeOK
<1> QED
  BY <1>0, <1>1, AnswerEffect DEF RequestRecords, SameCall

LEMMA LastStatementEffect ==
  ASSUME TypeOK, NEW r \in Requests,
         \/ Reply(r) \/ CreateGrant(r) \/ FinishEdit(r) \/ FinishMeta(r) \/ FinishRestore(r)
         \/ DeleteEntry(r) \/ RestoreEntry(r) \/ PurgeEntry(r) \/ ShareGrant(r) \/ RevokeKey(r)
         \/ Die(r)
  PROVE  req'[r] = Idle
  BY AnswerEffect DEF Reply, CreateGrant, FinishEdit, FinishMeta, FinishRestore, DeleteEntry,
     RestoreEntry, PurgeEntry, ShareGrant, RevokeKey, Die

-----------------------------------------------------------------------------
(* The statements of each operation, and what its request carries.         *)

\* The statements an operation consists of; without rivals none waits for a lock.
OnPath(q) ==
  /\ q.pc \notin {"waiting", "restoring"}
  /\ q.pc \in {"insert", "createKey", "createGrant"} => q.op = "create"
  /\ q.pc \in {"get", "getKey"} => q.op \in {"edit", "rewrap", "share", "read"}
  /\ q.pc = "perm" => q.op \in {"edit", "rewrap", "share", "move", "restoreVersion",
                                "trash", "untrash", "purge"}
  /\ q.pc \in {"snap", "snapKeys", "prune"} => q.op \in Versioned
  /\ q.pc = "finish" => q.op \in Versioned \cup {"move", "rewrap"}
  /\ q.pc \in {"key", "grant"} => q.op = "share"
  /\ q.pc \in {"unperm", "unkey"} => q.op = "revoke"
  /\ q.op \in {"share", "revoke"} => q.target \in Users
  /\ q.op = "share" => q.grant \in Grants
  /\ q.op # "share" => q.grant = None
  /\ q.op \in {"share", "rewrap"} /\ q.pc \in {"perm", "key", "finish"} => q.dk # 0

PathInv == \A r \in Requests : OnPath(req[r])

LEMMA IdleOnPath == OnPath(Idle)
  BY DEF OnPath, Idle, None, Versioned

\* The steps that take a rival.
LEMMA NoWait ==
  ASSUME OneAtATime, NEW r \in Requests, OnPath(req[r])
  PROVE  ~PruneWaited(r) /\ ~RestoreWaits(r) /\ ~RestoreWaited(r)
<1>1. req[r].pc # "waiting" /\ req[r].pc # "restoring"
  BY DEF OnPath
<1>2. InTx \ {r} = {}
  BY DEF OneAtATime, InTx
<1> QED
  BY <1>1, <1>2 DEF PruneWaited, RestoreWaits, RestoreWaited, At

LEMMA CallOnPath ==
  ASSUME TypeOK, NEW r \in Requests, NEW op \in Ops, NEW u \in Users, Call(r, op, u)
  PROVE  OnPath(req'[r])
<1>1. op \in AllOps
  BY ConstantsAssumption DEF ConstantsAssumption
<1>2. /\ FirstPc(op) \in {"get", "insert", "unperm", "access", "perm"}
      /\ FirstPc(op) = "get" => op \in {"edit", "rewrap", "share", "read"}
      /\ FirstPc(op) = "insert" => op = "create"
      /\ FirstPc(op) = "unperm" => op = "revoke"
      /\ FirstPc(op) = "perm" => op \in {"move", "restoreVersion", "trash", "untrash", "purge"}
  BY <1>1 DEF FirstPc, AllOps
<1> QED
  BY <1>2, CallEffect DEF OnPath

LEMMA HandleOnPath ==
  ASSUME OneAtATime, TypeOK, NEW r \in Requests, OnPath(req[r]), Handle(r)
  PROVE  OnPath(req'[r])
<1>1. CASE CheckPerm(r)
  BY <1>1, CheckPermEffect, IdleOnPath DEF CheckPerm, At, OnPath, AfterPerm, SameCall, SameRead,
     Versioned
<1>2. CASE GetBlob(r)
  <2>1. req[r].pc = "get"
    BY <1>2 DEF GetBlob, At
  <2>2. req'[r] = Idle \/ (req'[r].pc = "getKey" /\ SameCall(req'[r], req[r]))
    BY <1>2, GetBlobEffect
  <2> QED
    BY <2>1, <2>2, IdleOnPath DEF OnPath, SameCall
<1>3. CASE GetKey(r)
  BY <1>3, GetKeyEffect, IdleOnPath DEF GetKey, At, OnPath, SameCall
<1>4. CASE SnapBlob(r)
  BY <1>4, SnapEffect, IdleOnPath DEF SnapBlob, At, OnPath, SameCall, SameRead, Versioned
<1>5. CASE SnapKeys(r)
  BY <1>5, SnapEffect, IdleOnPath DEF SnapKeys, At, OnPath, SameCall, SameRead, Versioned
<1>6. CASE Prune(r)
  BY <1>6, SnapEffect, IdleOnPath DEF Prune, At, OnPath, SameCall, SameRead, Versioned
<1>7. CASE RequireAccess(r) \/ CreateInsert(r) \/ CreateKey(r) \/ ShareKey(r) \/ RevokePerm(r)
  <2>1. CASE RequireAccess(r)
    BY <2>1, MoveOnEffect, IdleOnPath DEF RequireAccess, At, OnPath, SameCall, SameRead
  <2>2. CASE CreateInsert(r)
    BY <2>2, MoveOnEffect, IdleOnPath DEF CreateInsert, At, OnPath, SameCall, SameRead
  <2>3. CASE CreateKey(r)
    BY <2>3, MoveOnEffect, IdleOnPath DEF CreateKey, At, OnPath, SameCall, SameRead
  <2>4. CASE ShareKey(r)
    BY <2>4, MoveOnEffect, IdleOnPath DEF ShareKey, At, OnPath, SameCall, SameRead
  <2>5. CASE RevokePerm(r)
    BY <2>5, MoveOnEffect, IdleOnPath DEF RevokePerm, At, OnPath, SameCall, SameRead
  <2> QED
    BY <1>7, <2>1, <2>2, <2>3, <2>4, <2>5
<1>8. CASE GetVersionBlob(r) \/ GetVersionKey(r)
  BY <1>8, VersionReadEffect, IdleOnPath DEF OnPath, SameCall
<1> QED
  BY <1>1, <1>2, <1>3, <1>4, <1>5, <1>6, <1>7, <1>8, LastStatementEffect, NoWait, IdleOnPath
     DEF Handle

LEMMA FaultOnPath ==
  ASSUME TypeOK, NEW r \in Requests, OnPath(req[r]), Die(r) \/ StatementFails(r)
  PROVE  OnPath(req'[r])
<1>1. CASE Answer(r)
  BY <1>1, AnswerEffect, IdleOnPath
<1>2. CASE At(r, "createKey") /\ Goto(r, "createGrant")
  <2>1. req[r] \in RequestRecords
    BY <1>2, BusyType DEF Pcs
  <2> QED
    BY <1>2, <2>1, GotoEffect DEF At, OnPath, SameCall, SameRead
<1> QED
  BY <1>1, <1>2 DEF Die, StatementFails

LEMMA PathInvStep ==
  ASSUME OneAtATime
  PROVE  TypeOK /\ PathInv /\ [Next]_vars => PathInv'
<1> SUFFICES ASSUME TypeOK, PathInv, [Next]_vars PROVE PathInv'
  OBVIOUS
<1>1. ASSUME NEW r \in Requests,
             (\E op \in Ops, u \in Users : Call(r, op, u)) \/ Handle(r) \/ Die(r) \/ StatementFails(r)
      PROVE  PathInv'
  <2>1. OnPath(req'[r])
    BY <1>1, CallOnPath, HandleOnPath, FaultOnPath DEF PathInv
  <2>2. \A s \in Requests : s # r => req'[s] = req[s]
    BY <1>1, OneSlot DEF TypeOK
  <2> QED
    BY <2>1, <2>2 DEF PathInv
<1>2. CASE PurgeOnce \/ UNCHANGED vars
  BY <1>2 DEF PurgeOnce, vars, PathInv
<1> QED
  BY <1>1, <1>2 DEF Next

LEMMA InitPath == Init => PathInv
  BY IdleOnPath DEF Init, PathInv

-----------------------------------------------------------------------------
(* One request at a time: what overlapping requests break (the runs show   *)
(* how) holds for any number of users, calls and versions while the        *)
(* requests do not overlap.                                                *)

\* The snapshot an open transaction has taken is of the blob it will overwrite.
HistoryInv ==
  /\ HistoryComplete
  /\ \A r \in InTx : req[r].snap = entry.blob

\* A step that leaves the history alone, and its request outside a transaction or
\* with a snapshot of the blob.
LEMMA HistoryKept ==
  ASSUME OneAtATime, HistoryInv, NEW r \in Requests, UNCHANGED <<versions, owed>>,
         \/ req'[r] = Idle
         \/ req'[r].op \notin Versioned
         \/ req'[r].pc \notin {"snapKeys", "prune", "waiting", "finish", "restoring"}
         \/ req'[r].snap = entry'.blob
  PROVE  HistoryInv'
<1>1. \A s \in Requests : s = r
  BY DEF OneAtATime
<1>2. Idle.op \notin Versioned
  BY DEF Idle, Versioned, None
<1>3. \A s \in InTx' : req'[s].snap = entry'.blob
  BY <1>1, <1>2 DEF InTx
<1> QED
  BY <1>3 DEF HistoryInv, HistoryComplete

\* The commit of an edit or a restore: what it overwrites it has in its snapshot.
LEMMA OverwrittenIsKept ==
  ASSUME HistoryInv, NEW r \in InTx
  PROVE  Overwritten(r) \subseteq {v.blob.body : v \in Kept(r)}
<1> DEFINE own == [at |-> req[r].at, blob |-> req[r].snap, keys |-> req[r].snapKeys]
<1>1. own \in Seen(r) /\ own.blob.body = entry.blob.body
  BY DEF Seen, HistoryInv
<1>2. \A b \in owed \cup {entry.blob.body} : \E v \in Seen(r) : v.blob.body = b
  <2>1. \A b \in owed : \E v \in versions : v.blob.body = b
    BY DEF HistoryInv, HistoryComplete
  <2> QED
    BY <1>1, <2>1 DEF Seen
<1> QED
  BY <1>2 DEF Overwritten, Kept

LEMMA HandleHistory ==
  ASSUME OneAtATime, TypeOK, PathInv, HistoryInv, NEW r \in Requests, Handle(r)
  PROVE  HistoryInv'
<1>o. OnPath(req[r])
  BY DEF PathInv
<1>1. CASE CheckPerm(r)
  <2>1. UNCHANGED <<versions, owed>>
    BY <1>1 DEF CheckPerm
  <2>2. \/ req'[r] = Idle
        \/ req'[r].pc = AfterPerm(req[r].op) /\ req'[r].op = req[r].op
    BY <1>1, CheckPermEffect DEF SameCall
  <2>3. \/ AfterPerm(req[r].op) \notin {"snapKeys", "prune", "waiting", "finish", "restoring"}
        \/ req[r].op \notin Versioned
    BY DEF AfterPerm, Versioned
  <2> QED
    BY <2>1, <2>2, <2>3, HistoryKept
<1>2. CASE SnapBlob(r) \/ SnapKeys(r) \/ Prune(r)
  <2>1. UNCHANGED <<entry, versions, owed>>
    BY <1>2 DEF SnapBlob, SnapKeys, Prune
  <2>2. CASE SnapBlob(r)
    BY <2>1, <2>2, SnapEffect, HistoryKept
  <2>3. CASE SnapKeys(r) \/ Prune(r)
    <3>1. req'[r] = Idle \/ req'[r].snap = req[r].snap
      BY <2>3, SnapEffect DEF SameSnap
    <3>2. r \in InTx
      BY <1>o, <2>3 DEF SnapKeys, Prune, At, OnPath, InTx
    <3> QED
      BY <2>1, <3>1, <3>2, HistoryKept DEF HistoryInv
  <2> QED
    BY <1>2, <2>2, <2>3
<1>3. CASE FinishEdit(r) \/ FinishRestore(r)
  <2>1. r \in InTx /\ req'[r] = Idle
    BY <1>3, LastStatementEffect DEF FinishEdit, FinishRestore, InTx, Versioned, At
  <2>2. CASE UNCHANGED <<versions, owed>>
    BY <2>1, <2>2, HistoryKept
  <2>3. CASE versions' = Kept(r) /\ owed' = Overwritten(r)
    <3>1. HistoryComplete'
      BY <2>1, <2>3, OverwrittenIsKept DEF HistoryComplete
    <3>2. InTx' = {}
      BY <2>1 DEF OneAtATime, InTx, Idle, Versioned, None
    <3> QED
      BY <3>1, <3>2 DEF HistoryInv
  <2> QED
    BY <1>3, <2>2, <2>3 DEF FinishEdit, FinishRestore
<1>4. CASE RequireAccess(r) \/ CreateInsert(r) \/ CreateKey(r) \/ ShareKey(r) \/ RevokePerm(r)
  <2>1. UNCHANGED <<versions, owed>>
    BY <1>4 DEF RequireAccess, CreateInsert, CreateKey, ShareKey, RevokePerm
  <2>2. req'[r] = Idle \/ req'[r].pc \in {"ver", "createKey", "createGrant", "grant", "unkey"}
    BY <1>4, MoveOnEffect
  <2> QED
    BY <2>1, <2>2, HistoryKept
<1>5. CASE GetBlob(r) \/ GetKey(r) \/ GetVersionBlob(r) \/ GetVersionKey(r)
  <2>1. UNCHANGED <<versions, owed>>
    BY <1>5 DEF GetBlob, GetKey, GetVersionBlob, GetVersionKey
  <2>2. req'[r] = Idle \/ req'[r].pc \in {"getKey", "perm", "verKey", "reply"}
    BY <1>5, GetBlobEffect, GetKeyEffect, VersionReadEffect
  <2> QED
    BY <2>1, <2>2, HistoryKept
<1>6. CASE PurgeEntry(r)
  <2>1. req'[r] = Idle
    BY <1>6, LastStatementEffect
  <2>2. CASE UNCHANGED <<versions, owed>>
    BY <2>1, <2>2, HistoryKept
  <2>3. CASE DeleteRows
    <3>1. InTx' = {}
      BY <2>1 DEF OneAtATime, InTx, Idle, Versioned, None
    <3> QED
      BY <2>3, <3>1 DEF DeleteRows, HistoryInv, HistoryComplete
  <2> QED
    BY <1>6, <2>2, <2>3 DEF PurgeEntry
<1>7. CASE \/ Reply(r) \/ CreateGrant(r) \/ FinishMeta(r) \/ DeleteEntry(r) \/ RestoreEntry(r)
           \/ ShareGrant(r) \/ RevokeKey(r)
  <2>1. UNCHANGED <<versions, owed>>
    BY <1>7 DEF Reply, CreateGrant, FinishMeta, DeleteEntry, RestoreEntry, ShareGrant, RevokeKey
  <2> QED
    BY <1>7, <2>1, LastStatementEffect, HistoryKept
<1> QED
  BY <1>o, <1>1, <1>2, <1>3, <1>4, <1>5, <1>6, <1>7, NoWait DEF Handle

LEMMA HistoryInvStep ==
  ASSUME OneAtATime
  PROVE  TypeOK /\ PathInv /\ HistoryInv /\ [Next]_vars => HistoryInv'
<1> SUFFICES ASSUME TypeOK, PathInv, HistoryInv, [Next]_vars PROVE HistoryInv'
  OBVIOUS
<1>1. ASSUME NEW r \in Requests, NEW op \in Ops, NEW u \in Users, Call(r, op, u)
      PROVE  HistoryInv'
  <2>1. req'[r].pc = FirstPc(op)
    BY <1>1, CallEffect
  <2>2. req'[r].pc \notin {"snapKeys", "prune", "waiting", "finish", "restoring"}
    BY <2>1 DEF FirstPc
  <2>3. UNCHANGED <<versions, owed>>
    BY <1>1 DEF Call
  <2> QED
    BY <2>2, <2>3, HistoryKept
<1>2. ASSUME NEW r \in Requests, Die(r) \/ StatementFails(r)
      PROVE  HistoryInv'
  <2>1. UNCHANGED <<versions, owed>>
    BY <1>2 DEF Die, StatementFails
  <2>2. CASE Answer(r)
    BY <2>1, <2>2, AnswerEffect, HistoryKept
  <2>3. CASE At(r, "createKey") /\ Goto(r, "createGrant")
    <3>1. req[r] \in RequestRecords
      BY <2>3, BusyType DEF Pcs
    <3>2. req'[r].pc = "createGrant"
      BY <2>3, <3>1, GotoEffect
    <3> QED
      BY <2>1, <3>2, HistoryKept
  <2> QED
    BY <1>2, <2>2, <2>3 DEF Die, StatementFails
<1>3. CASE PurgeOnce
  BY <1>3 DEF PurgeOnce, DeleteRows, HistoryInv, HistoryComplete, InTx
<1>4. CASE UNCHANGED vars
  BY <1>4 DEF vars, HistoryInv, HistoryComplete, InTx
<1> QED
  BY <1>1, <1>2, <1>3, <1>4, HandleHistory DEF Next

LEMMA InitHistory == Init => HistoryInv
  BY DEF Init, HistoryInv, HistoryComplete, InTx, Idle, Versioned, None

\* While requests do not overlap, every body that an edit or a restore overwrote is
\* in the history until a prune or a purge takes it, even if requests die half-way:
\* snapshotVersionTx copies the row that the UPDATE of its transaction overwrites.
THEOREM HistoryStaysComplete ==
  ASSUME OneAtATime
  PROVE  Spec => []HistoryComplete
<1> DEFINE Inv == TypeOK /\ PathInv /\ HistoryInv
<1>1. Init => Inv
  BY InitType, InitPath, InitHistory
<1>2. Inv /\ [Next]_vars => Inv'
  BY StepType, PathInvStep, HistoryInvStep
<1>3. Inv => HistoryComplete
  BY DEF HistoryInv
<1> QED
  BY <1>1, <1>2, <1>3, PTL DEF Spec

-----------------------------------------------------------------------------
(* Keys and permissions.                                                   *)

\* Between its two writes a request has one user's rows out of step.
Halfway(q, u) ==
  \/ q.pc = "createGrant" /\ u = q.user
  \/ q.pc \in {"grant", "unkey"} /\ u = q.target

\* What its first write has done, and what its permission check has found.
HalfDone(q) ==
  /\ q.pc = "createGrant" /\ Exists => keys[q.user] # 0
  /\ q.pc = "grant" /\ Exists => keys[q.target] # 0
  /\ q.pc = "unkey" => perms[q.target] = None
  /\ q.op = "rewrap" /\ q.pc = "finish" /\ Exists => perms[q.user] # None

InStep(u) == (keys[u] # 0) = (perms[u] # None)

MatchInv ==
  /\ \A u \in Users : InStep(u) \/ \E r \in Requests : Halfway(req[r], u)
  /\ \A r \in Requests : HalfDone(req[r])

\* With one request in flight, what holds of it holds of all.
LEMMA MatchOfOne ==
  ASSUME OneAtATime, NEW r \in Requests, HalfDone(req[r])',
         \A u \in Users : InStep(u)' \/ Halfway(req[r], u)'
  PROVE  MatchInv'
<1>1. \A s \in Requests : s = r
  BY DEF OneAtATime
<1> QED
  BY <1>1 DEF MatchInv

LEMMA IdleIsNotHalfway ==
  /\ \A u : ~Halfway(Idle, u)
  /\ HalfDone(Idle) /\ HalfDone(Idle)'
  BY DEF Halfway, HalfDone, Idle, None

\* A slot that is not between two writes leaves everybody's rows in step.
LEMMA InStepOutside ==
  ASSUME OneAtATime, MatchInv, NEW r \in Requests,
         req[r].pc \notin {"createGrant", "grant", "unkey"}
  PROVE  \A u \in Users : InStep(u)
<1>1. \A s \in Requests : s = r
  BY DEF OneAtATime
<1> QED
  BY <1>1 DEF MatchInv, Halfway

\* A step between two statements that write no key and no permission.
LEMMA NoWriteMatches ==
  ASSUME OneAtATime, TypeOK, MatchInv, NEW r \in Requests,
         req[r].pc \notin {"createGrant", "grant", "unkey"},
         HalfDone(req[r])', UNCHANGED <<keys, perms>>
  PROVE  MatchInv'
<1>1. \A u \in Users : InStep(u)
  BY InStepOutside
<1>2. \A u \in Users : InStep(u)'
  BY <1>1 DEF InStep
<1> QED
  BY <1>2, MatchOfOne

LEMMA AnswerMatches ==
  ASSUME OneAtATime, TypeOK, NEW r \in Requests, req'[r] = Idle,
         \A u \in Users : InStep(u)'
  PROVE  MatchInv'
<1>1. HalfDone(req[r])'
  BY IdleIsNotHalfway DEF HalfDone
<1> QED
  BY <1>1, MatchOfOne

\* Statements that read, and the transaction of an edit.
LEMMA ReadMatches ==
  ASSUME OneAtATime, TypeOK, PathInv, MatchInv, NEW r \in Requests,
         \/ CheckPerm(r) \/ GetBlob(r) \/ GetKey(r) \/ Reply(r) \/ CreateInsert(r)
         \/ SnapBlob(r) \/ SnapKeys(r) \/ Prune(r) \/ FinishEdit(r)
         \/ DeleteEntry(r) \/ RestoreEntry(r)
         \/ RequireAccess(r) \/ GetVersionBlob(r) \/ GetVersionKey(r)
  PROVE  MatchInv'
<1>p. req[r].pc \notin {"createGrant", "grant", "unkey"} /\ UNCHANGED <<keys, perms>>
  BY DEF CheckPerm, GetBlob, GetKey, Reply, CreateInsert, SnapBlob, SnapKeys, Prune, FinishEdit,
     DeleteEntry, RestoreEntry, RequireAccess, GetVersionBlob, GetVersionKey, At
<1>o. OnPath(req[r])
  BY DEF PathInv
<1>a. CASE req'[r] = Idle
  <2>1. HalfDone(req[r])'
    BY <1>a, IdleIsNotHalfway DEF HalfDone
  <2> QED
    BY <1>p, <2>1, NoWriteMatches
<1>b. ASSUME req'[r].pc \notin {"createGrant", "grant", "unkey"},
             req'[r].op = "rewrap" => req'[r].pc # "finish"
      PROVE  MatchInv'
  <2>1. HalfDone(req[r])'
    BY <1>b DEF HalfDone
  <2> QED
    BY <1>p, <2>1, NoWriteMatches
<1>1. CASE CheckPerm(r)
  <2>1. ASSUME req'[r].pc = AfterPerm(req[r].op), perms[req[r].user] \in Roles(req[r].op),
               SameCall(req'[r], req[r])
        PROVE  MatchInv'
    <3>1. req'[r].pc \notin {"createGrant", "grant", "unkey"}
      BY <1>1, <1>o, <2>1 DEF OnPath, AfterPerm, CheckPerm, At
    <3>2. req'[r].op = "rewrap" => perms'[req'[r].user] # None
      BY <1>p, <2>1 DEF SameCall, Roles, None
    <3>3. HalfDone(req[r])'
      BY <3>1, <3>2 DEF HalfDone
    <3> QED
      BY <1>p, <3>3, NoWriteMatches
  <2> QED
    BY <1>1, <1>a, <2>1, CheckPermEffect
<1>2. CASE GetBlob(r)
  BY <1>2, <1>a, <1>b, GetBlobEffect
<1>3. CASE GetKey(r)
  <2>1. req'[r] = Idle \/ req'[r].pc \in {"reply", "perm"}
    BY <1>3, GetKeyEffect
  <2> QED
    BY <1>a, <1>b, <2>1
<1>4. CASE SnapBlob(r) \/ SnapKeys(r) \/ Prune(r)
  <2>1. req[r].op \in Versioned
    BY <1>4, <1>o DEF OnPath, SnapBlob, SnapKeys, Prune, At
  <2>2. \/ req'[r] = Idle
        \/ /\ req'[r].op = req[r].op
           /\ req'[r].pc \in {"snapKeys", "prune", "waiting", "finish", "restoring"}
    BY <1>4, SnapEffect DEF SameCall
  <2> QED
    BY <1>a, <1>b, <2>1, <2>2 DEF Versioned
<1>5. CASE CreateInsert(r) \/ RequireAccess(r)
  <2>1. req'[r] = Idle \/ req'[r].pc \in {"createKey", "ver"}
    BY <1>5, MoveOnEffect
  <2> QED
    BY <1>a, <1>b, <2>1
<1>6. CASE GetVersionBlob(r) \/ GetVersionKey(r)
  <2>1. req'[r] = Idle \/ req'[r].pc \in {"verKey", "reply"}
    BY <1>6, VersionReadEffect
  <2> QED
    BY <1>a, <1>b, <2>1
<1>7. CASE Reply(r) \/ FinishEdit(r) \/ DeleteEntry(r) \/ RestoreEntry(r)
  BY <1>7, <1>a, LastStatementEffect
<1> QED
  BY <1>1, <1>2, <1>3, <1>4, <1>5, <1>6, <1>7

\* The statements that write keys or permissions.
LEMMA WriteMatches ==
  ASSUME OneAtATime, PurgeInv, PathInv, MatchInv, NEW r \in Requests,
         \/ CreateKey(r) \/ CreateGrant(r) \/ FinishMeta(r) \/ FinishRestore(r)
         \/ PurgeEntry(r) \/ ShareKey(r) \/ ShareGrant(r) \/ RevokePerm(r) \/ RevokeKey(r)
  PROVE  MatchInv'
<1>t. TypeOK /\ keys \in [Users -> DataKeys] /\ perms \in [Users -> Permissions]
  BY DEF PurgeInv, TypeOK
<1>0. req[r] \in RequestRecords /\ req[r].user \in Users
  BY <1>t, BusyType DEF CreateKey, CreateGrant, FinishMeta, FinishRestore, PurgeEntry, ShareKey,
     ShareGrant, RevokePerm, RevokeKey, Pcs, RequestRecords
<1>o. OnPath(req[r]) /\ HalfDone(req[r])
  BY DEF PathInv, MatchInv
<1>g. \A g \in Grants : g # None
  BY ConstantsAssumption DEF ConstantsAssumption, None
<1>e. ~Exists => \A u \in Users : InStep(u)
  BY DEF PurgeInv, RowsNeedEntry, InStep
<1>h. \A u \in Users : InStep(u) \/ Halfway(req[r], u)
  BY DEF OneAtATime, MatchInv
<1>u. ASSUME req[r].pc \notin {"createGrant", "grant", "unkey"} \/ ~Exists,
             UNCHANGED <<keys, perms>>, req'[r] = Idle
      PROVE  MatchInv'
  <2>1. \A u \in Users : InStep(u)
    BY <1>u, <1>e, InStepOutside
  <2>2. \A u \in Users : InStep(u)'
    BY <1>u, <2>1 DEF InStep
  <2> QED
    BY <1>t, <1>u, <2>2, AnswerMatches
<1>1. CASE CreateKey(r)
  <2>1. req'[r].pc = "createGrant" /\ req'[r].user = req[r].user
    BY <1>0, <1>1, <1>t, GotoEffect DEF CreateKey, SameCall
  <2>2. Exists' => Exists
    BY <1>1 DEF CreateKey, Exists
  <2>3. HalfDone(req[r])'
    <3>1. Exists => keys'[req[r].user] # 0
      BY <1>0, <1>1, <1>t DEF CreateKey
    <3> QED
      BY <2>1, <2>2, <3>1 DEF HalfDone
  <2>4. \A u \in Users : InStep(u)
    BY <1>1, InStepOutside DEF CreateKey, At
  <2>5. \A u \in Users : InStep(u)' \/ u = req[r].user
    BY <1>1, <1>t, <2>4 DEF CreateKey, InStep
  <2>6. \A u \in Users : InStep(u)' \/ Halfway(req[r], u)'
    BY <2>1, <2>5 DEF Halfway
  <2> QED
    BY <2>3, <2>6, MatchOfOne
<1>2. CASE CreateGrant(r)
  <2>1. req'[r] = Idle
    BY <1>2, <1>t, LastStatementEffect
  <2>2. CASE Exists
    <3>1. keys[req[r].user] # 0 /\ \A u \in Users : InStep(u) \/ u = req[r].user
      BY <1>2, <1>o, <1>h, <2>2 DEF CreateGrant, At, HalfDone, Halfway
    <3>2. /\ perms' = IF perms[req[r].user] = None
                        THEN [perms EXCEPT ![req[r].user] = "owner"] ELSE perms
          /\ keys' = keys
      BY <1>2, <2>2 DEF CreateGrant
    <3>3. \A u \in Users : InStep(u)'
      BY <1>0, <1>t, <3>1, <3>2 DEF InStep, None
    <3> QED
      BY <1>t, <2>1, <3>3, AnswerMatches
  <2>3. CASE ~Exists
    <3>1. UNCHANGED <<keys, perms>>
      BY <1>2, <2>3 DEF CreateGrant
    <3> QED
      BY <1>u, <2>1, <2>3, <3>1
  <2> QED
    BY <2>2, <2>3
<1>3. CASE FinishMeta(r)
  <2>1. req'[r] = Idle /\ req[r].pc = "finish"
    BY <1>3, <1>t, LastStatementEffect DEF FinishMeta, At
  <2>2. \A u \in Users : InStep(u)
    BY <2>1, InStepOutside
  <2>3. CASE Exists /\ req[r].op = "rewrap"
    <3>1. req[r].dk # 0 /\ perms[req[r].user] # None
      BY <1>o, <2>1, <2>3 DEF OnPath, HalfDone
    <3>2. keys' = [keys EXCEPT ![req[r].user] = req[r].dk] /\ perms' = perms
      BY <1>3, <2>3 DEF FinishMeta
    <3>3. \A u \in Users : InStep(u)'
      BY <1>0, <1>t, <2>2, <3>1, <3>2 DEF InStep
    <3> QED
      BY <1>t, <2>1, <3>3, AnswerMatches
  <2>4. CASE ~(Exists /\ req[r].op = "rewrap")
    <3>1. UNCHANGED <<keys, perms>>
      BY <1>3, <2>4 DEF FinishMeta
    <3> QED
      BY <1>u, <2>1, <3>1
  <2> QED
    BY <2>3, <2>4
<1>4. CASE FinishRestore(r)
  <2>1. req'[r] = Idle /\ req[r].pc = "finish" /\ perms' = perms
    BY <1>4, <1>t, LastStatementEffect DEF FinishRestore, At
  <2>2. \A u \in Users : InStep(u)
    BY <2>1, InStepOutside
  <2>3. \A v : \A u \in Users : (RestoredKeys(v)[u] # 0) = (keys[u] # 0)
    BY <1>t DEF RestoredKeys
  <2>4. \A u \in Users : (keys'[u] # 0) = (keys[u] # 0)
    BY <1>4, <2>3 DEF FinishRestore
  <2>5. \A u \in Users : InStep(u)'
    BY <2>1, <2>2, <2>4 DEF InStep
  <2> QED
    BY <1>t, <2>1, <2>5, AnswerMatches
<1>5. CASE PurgeEntry(r)
  <2>1. req'[r] = Idle /\ req[r].pc = "purge"
    BY <1>5, <1>t, LastStatementEffect DEF PurgeEntry, At
  <2>2. CASE Exists
    <3>1. \A u \in Users : InStep(u)'
      BY <1>5, <2>2 DEF PurgeEntry, DeleteRows, InStep
    <3> QED
      BY <1>t, <2>1, <3>1, AnswerMatches
  <2>3. CASE ~Exists
    <3>1. UNCHANGED <<keys, perms>>
      BY <1>5, <2>3 DEF PurgeEntry
    <3> QED
      BY <1>u, <2>1, <3>1
  <2> QED
    BY <2>2, <2>3
<1>6. CASE ShareKey(r)
  <2>1. req[r].pc = "key" /\ req[r].target \in Users /\ req[r].dk # 0
    BY <1>6, <1>o DEF ShareKey, At, OnPath
  <2>2. \A u \in Users : InStep(u)
    BY <2>1, InStepOutside
  <2>3. CASE Exists
    <3>1. req'[r].pc = "grant" /\ req'[r].target = req[r].target
      BY <1>0, <1>6, <1>t, <2>3, GotoEffect DEF ShareKey, SameCall
    <3>2. keys' = [keys EXCEPT ![req[r].target] = req[r].dk] /\ perms' = perms
      BY <1>6, <2>3 DEF ShareKey
    <3>3. HalfDone(req[r])'
      BY <1>t, <2>1, <3>1, <3>2 DEF HalfDone
    <3>4. \A u \in Users : InStep(u)' \/ u = req[r].target
      BY <1>t, <2>2, <3>2 DEF InStep
    <3>5. \A u \in Users : InStep(u)' \/ Halfway(req[r], u)'
      BY <3>1, <3>4 DEF Halfway
    <3> QED
      BY <3>3, <3>5, MatchOfOne
  <2>4. CASE ~Exists
    <3>1. UNCHANGED <<keys, perms>> /\ req'[r] = Idle
      BY <1>6, <1>t, <2>4, AnswerEffect DEF ShareKey
    <3> QED
      BY <1>u, <2>4, <3>1
  <2> QED
    BY <2>3, <2>4
<1>7. CASE ShareGrant(r)
  <2>1. req'[r] = Idle /\ req[r].pc = "grant"
    BY <1>7, <1>t, LastStatementEffect DEF ShareGrant, At
  <2>2. req[r].target \in Users /\ req[r].grant # None
    BY <1>g, <1>o, <2>1 DEF OnPath
  <2>3. CASE Exists
    <3>1. keys[req[r].target] # 0 /\ \A u \in Users : InStep(u) \/ u = req[r].target
      BY <1>o, <1>h, <2>1, <2>3 DEF HalfDone, Halfway
    <3>2. perms' = [perms EXCEPT ![req[r].target] = req[r].grant] /\ keys' = keys
      BY <1>7, <2>3 DEF ShareGrant
    <3>3. \A u \in Users : InStep(u)'
      BY <1>t, <2>2, <3>1, <3>2 DEF InStep
    <3> QED
      BY <1>t, <2>1, <3>3, AnswerMatches
  <2>4. CASE ~Exists
    <3>1. UNCHANGED <<keys, perms>>
      BY <1>7, <2>4 DEF ShareGrant
    <3> QED
      BY <1>u, <2>1, <2>4, <3>1
  <2> QED
    BY <2>3, <2>4
<1>8. CASE RevokePerm(r)
  <2>1. req[r].pc = "unperm" /\ req[r].target \in Users
    BY <1>8, <1>o DEF RevokePerm, At, OnPath
  <2>2. \A u \in Users : InStep(u)
    BY <2>1, InStepOutside
  <2>3. \/ UNCHANGED <<keys, perms>> /\ Answer(r)
        \/ /\ perms' = [perms EXCEPT ![req[r].target] = None] /\ keys' = keys
           /\ Goto(r, "unkey")
    BY <1>8 DEF RevokePerm
  <2>4. CASE UNCHANGED <<keys, perms>> /\ Answer(r)
    BY <1>t, <1>u, <2>1, <2>4, AnswerEffect
  <2>5. CASE /\ perms' = [perms EXCEPT ![req[r].target] = None] /\ keys' = keys
             /\ Goto(r, "unkey")
    <3>1. req'[r].pc = "unkey" /\ req'[r].target = req[r].target
      BY <1>0, <1>t, <2>5, GotoEffect DEF SameCall
    <3>2. HalfDone(req[r])'
      BY <1>t, <2>1, <2>5, <3>1 DEF HalfDone
    <3>3. \A u \in Users : InStep(u)' \/ u = req[r].target
      BY <1>t, <2>2, <2>5 DEF InStep
    <3>4. \A u \in Users : InStep(u)' \/ Halfway(req[r], u)'
      BY <3>1, <3>3 DEF Halfway
    <3> QED
      BY <3>2, <3>4, MatchOfOne
  <2> QED
    BY <2>3, <2>4, <2>5
<1>9. CASE RevokeKey(r)
  <2>1. req'[r] = Idle /\ req[r].pc = "unkey" /\ req[r].target \in Users
    BY <1>9, <1>o, <1>t, LastStatementEffect DEF RevokeKey, At, OnPath
  <2>2. perms[req[r].target] = None /\ \A u \in Users : InStep(u) \/ u = req[r].target
    BY <1>o, <1>h, <2>1 DEF HalfDone, Halfway
  <2>3. keys' = [keys EXCEPT ![req[r].target] = 0] /\ perms' = perms
    BY <1>9 DEF RevokeKey
  <2>4. \A u \in Users : InStep(u)'
    BY <1>t, <2>2, <2>3 DEF InStep
  <2> QED
    BY <1>t, <2>1, <2>4, AnswerMatches
<1> QED
  BY <1>1, <1>2, <1>3, <1>4, <1>5, <1>6, <1>7, <1>8, <1>9

LEMMA MatchInvStep ==
  ASSUME OneAtATime, Faults = FALSE
  PROVE  PurgeInv /\ PathInv /\ MatchInv /\ [Next]_vars => MatchInv'
<1> SUFFICES ASSUME PurgeInv, PathInv, MatchInv, [Next]_vars PROVE MatchInv'
  OBVIOUS
<1>t. TypeOK
  BY DEF PurgeInv
<1>1. ASSUME NEW r \in Requests, Handle(r)
      PROVE  MatchInv'
  <2>1. OnPath(req[r])
    BY DEF PathInv
  <2> QED
    BY <1>t, <1>1, <2>1, NoWait, ReadMatches, WriteMatches DEF Handle
<1>2. ASSUME NEW r \in Requests, NEW op \in Ops, NEW u \in Users, Call(r, op, u)
      PROVE  MatchInv'
  <2>1. req[r].pc \notin {"createGrant", "grant", "unkey"} /\ UNCHANGED <<keys, perms>>
    BY <1>2 DEF Call, Idle
  <2>2. req'[r].pc = FirstPc(op)
    BY <1>2, <1>t, CallEffect
  <2>3. req'[r].pc \notin {"createGrant", "grant", "unkey", "finish"}
    BY <2>2 DEF FirstPc
  <2>4. HalfDone(req[r])'
    BY <2>3 DEF HalfDone
  <2> QED
    BY <1>t, <2>1, <2>4, NoWriteMatches
<1>3. CASE PurgeOnce
  <2>1. \A u \in Users : InStep(u)'
    BY <1>3 DEF PurgeOnce, DeleteRows, InStep
  <2>2. ASSUME NEW r \in Requests
        PROVE  HalfDone(req[r])'
    <3>1. ~Exists' /\ req' = req /\ perms' = [u \in Users |-> None]
      BY <1>3 DEF PurgeOnce, DeleteRows, Exists
    <3>2. req[r].pc = "unkey" => req[r].target \in Users
      BY DEF PathInv, OnPath
    <3> QED
      BY <3>1, <3>2 DEF HalfDone
  <2> QED
    BY <2>1, <2>2 DEF MatchInv
<1>4. CASE UNCHANGED vars
  <2>1. UNCHANGED <<entry, keys, perms, req>>
    BY <1>4 DEF vars
  <2> QED
    BY <2>1 DEF MatchInv, InStep, Halfway, HalfDone, Exists
<1> QED
  BY <1>1, <1>2, <1>3, <1>4 DEF Next, Die, StatementFails

LEMMA InitMatch == Init => MatchInv
<1> SUFFICES ASSUME Init PROVE MatchInv
  OBVIOUS
<1>1. PICK start \in Starts :
        /\ keys = [u \in Users |-> InitKey(start, u)]
        /\ perms = [u \in Users |-> InitPerm(start, u)]
  BY DEF Init
<1>2. \A u \in Users : InStep(u)
  BY <1>1 DEF InStep, InitKey, InitPerm, None
<1> QED
  BY <1>2, IdleIsNotHalfway DEF Init, MatchInv

\* While requests do not overlap and none dies half-way, a user has a wrapped data key
\* exactly if the user has a permission, whenever no request is in flight: the two
\* statements of ShareEntry, of RevokeEntryShare and of CreateEntry end in step.
THEOREM KeysStayMatched ==
  ASSUME OneAtATime, Faults = FALSE
  PROVE  Spec => []KeysMatchPermissions
<1> DEFINE Inv == PurgeInv /\ PathInv /\ MatchInv
<1>1. Init => Inv
  BY InitPurge, InitPath, InitMatch
<1>2. Inv /\ [Next]_vars => Inv'
  <2>1. PurgeInv => TypeOK
    BY DEF PurgeInv
  <2> QED
    BY <2>1, PurgeInvStep, PathInvStep, MatchInvStep
<1>3. Inv => KeysMatchPermissions
  BY IdleIsNotHalfway DEF MatchInv, InStep, KeysMatchPermissions, Quiet
<1> QED
  BY <1>1, <1>2, <1>3, PTL DEF Spec

-----------------------------------------------------------------------------
(* The owner's key.  Older clients left blobs and versions under a data key *)
(* of their own; that key is the owner's in every one of them.              *)

\* The rows: only the owner has the owner's permission; the owner's key, if there is
\* one, is of the current blob; and every version has a key for the owner, its own.
OwnerRows ==
  /\ \A u \in Users : perms[u] = "owner" => u = Owner
  /\ Exists /\ keys[Owner] # 0 => keys[Owner] = entry.blob.dk
  /\ \A v \in versions : /\ v.keys[Owner] # 0 => v.keys[Owner] = v.blob.dk
                         /\ keys[Owner] # 0 => v.keys[Owner] # 0

\* What a request has read is still so when it writes.
UpToDate(q) ==
  /\ q.pc \in {"insert", "createKey", "createGrant"} => q.user = Owner
  /\ q.pc = "insert" => ~Exists
  /\ q.pc = "createKey" => versions = {} /\ (Exists => entry.blob.dk = 1)
  /\ q.pc = "getKey" /\ Exists => q.blob = entry.blob
  /\ q.op = "edit" /\ q.pc \in {"perm", "snap", "snapKeys", "prune", "finish"} /\ Exists
       => q.dk = entry.blob.dk
  /\ q.op \in {"share", "rewrap"} /\ q.pc \in {"perm", "key", "finish"} /\ Exists
       => q.dk = keys[q.user]
  /\ q.pc = "key" => q.user = Owner
  /\ q.op \in Versioned /\ q.pc \in {"prune", "finish"} => q.snapKeys[Owner] = keys[Owner]

OwnerInv == OwnerRows /\ \A r \in Requests : UpToDate(req[r])

LEMMA IdleUpToDate == ASSUME NEW r, req'[r] = Idle PROVE UpToDate(req[r])'
  BY DEF UpToDate, Idle, None, Versioned

LEMMA OwnerOfOne ==
  ASSUME OneAtATime, NEW r \in Requests, OwnerRows', UpToDate(req[r])'
  PROVE  OwnerInv'
<1>1. \A s \in Requests : s = r
  BY DEF OneAtATime
<1> QED
  BY <1>1 DEF OwnerInv

\* A slot that is free again after a step, or at a statement that depends on nothing.
LEMMA OwnerAnswered ==
  ASSUME OneAtATime, NEW r \in Requests, OwnerRows',
         req'[r] = Idle \/ req'[r].pc \in {"reply", "ver", "verKey", "grant", "unkey", "get",
                                           "unperm", "access", "trash", "untrash", "purge"}
  PROVE  OwnerInv'
<1>1. UpToDate(req[r])'
  BY IdleUpToDate DEF UpToDate
<1> QED
  BY <1>1, OwnerOfOne

LEMMA SameRows ==
  ASSUME OwnerRows, UNCHANGED <<entry, keys, perms, versions>>
  PROVE  OwnerRows'
  BY DEF OwnerRows, Exists

\* The reads and the statements of a snapshot.
LEMMA ReadOwner ==
  ASSUME OneAtATime, TypeOK, PathInv, OwnerInv, NEW r \in Requests,
         \/ CheckPerm(r) \/ GetBlob(r) \/ GetKey(r) \/ Reply(r)
         \/ SnapBlob(r) \/ SnapKeys(r) \/ Prune(r)
         \/ RequireAccess(r) \/ GetVersionBlob(r) \/ GetVersionKey(r) \/ Die(r)
  PROVE  OwnerInv'
<1>u. UNCHANGED <<entry, keys, perms, versions>>
  BY DEF CheckPerm, GetBlob, GetKey, Reply, SnapBlob, SnapKeys, Prune, RequireAccess,
     GetVersionBlob, GetVersionKey, Die
<1>r. OwnerRows'
  BY <1>u, SameRows DEF OwnerInv
<1>o. OnPath(req[r]) /\ UpToDate(req[r])
  BY DEF PathInv, OwnerInv
<1>e. Exists' = Exists
  BY <1>u DEF Exists
<1>1. CASE CheckPerm(r)
  <2>p. req[r].pc = "perm" /\ req[r].user \in Users
    BY <1>1, BusyType DEF CheckPerm, At, Pcs, RequestRecords
  <2>1. ASSUME req'[r].pc = AfterPerm(req[r].op), perms[req[r].user] \in Roles(req[r].op),
               SameCall(req'[r], req[r]), SameRead(req'[r], req[r])
        PROVE  UpToDate(req[r])'
    <3>1. /\ req'[r].op \in {"edit", "restoreVersion"} => req'[r].pc = "snap"
          /\ req'[r].op \in {"move", "rewrap"} => req'[r].pc = "finish"
          /\ req'[r].op \in {"trash", "untrash", "purge"} => req'[r].pc = req'[r].op
          /\ req'[r].op = "share" => req'[r].pc = "key"
          /\ req'[r].op \in {"edit", "rewrap", "share", "move", "restoreVersion",
                             "trash", "untrash", "purge"}
      BY <1>o, <2>p, <2>1 DEF OnPath, AfterPerm, SameCall
    <3>2. req'[r].op = "edit" /\ Exists => req'[r].dk = entry.blob.dk
      BY <1>o, <2>p, <2>1 DEF UpToDate, SameCall, SameRead
    <3>3. req'[r].op \in {"share", "rewrap"} /\ Exists => req'[r].dk = keys[req'[r].user]
      BY <1>o, <2>p, <2>1 DEF UpToDate, SameCall, SameRead
    <3>4. req'[r].op = "share" => req'[r].user = Owner
      <4>1. Roles("share") = {"owner"}
        BY DEF Roles
      <4> QED
        BY <2>p, <2>1, <4>1 DEF SameCall, OwnerInv, OwnerRows
    <3> QED
      BY <1>u, <1>e, <3>1, <3>2, <3>3, <3>4 DEF UpToDate, Versioned
  <2> QED
    BY <1>1, <1>r, <2>1, CheckPermEffect, IdleUpToDate, OwnerOfOne
<1>2. CASE GetBlob(r)
  <2>1. ASSUME req'[r].pc = "getKey", req'[r].blob = entry.blob
        PROVE  UpToDate(req[r])'
    BY <1>u, <2>1 DEF UpToDate
  <2> QED
    BY <1>2, <1>r, <2>1, GetBlobEffect, IdleUpToDate, OwnerOfOne
<1>3. CASE GetKey(r)
  <2>p. req[r].pc = "getKey"
    BY <1>3 DEF GetKey, At
  <2>1. ASSUME req'[r].pc = IF req[r].op = "read" THEN "reply" ELSE "perm",
               req'[r].dk = keys[req[r].user], SameCall(req'[r], req[r]),
               req[r].op = "edit" => keys[req[r].user] = req[r].blob.dk
        PROVE  UpToDate(req[r])'
    <3>1. req'[r].pc \in {"reply", "perm"}
      BY <2>1
    <3>2. req'[r].op = "edit" /\ Exists => req'[r].dk = entry.blob.dk
      BY <1>o, <2>p, <2>1 DEF UpToDate, SameCall
    <3>3. req'[r].dk = keys[req'[r].user]
      BY <2>1 DEF SameCall
    <3> QED
      BY <1>u, <1>e, <3>1, <3>2, <3>3 DEF UpToDate
  <2> QED
    BY <1>3, <1>r, <2>1, GetKeyEffect, IdleUpToDate, OwnerOfOne
<1>4. CASE SnapBlob(r) \/ SnapKeys(r) \/ Prune(r)
  <2>p. req[r].op \in Versioned /\ req[r].pc \in {"snap", "snapKeys", "prune"}
    BY <1>4, <1>o DEF SnapBlob, SnapKeys, Prune, At, OnPath
  <2>1. ASSUME req'[r] # Idle
        PROVE  UpToDate(req[r])'
    <3>1. SameCall(req'[r], req[r]) /\ SameRead(req'[r], req[r])
      BY <1>4, <2>1, SnapEffect
    <3>2. req'[r].pc \in {"snapKeys", "prune", "waiting", "finish", "restoring"}
      BY <1>4, <2>1, SnapEffect
    <3>3. req'[r].op = "edit" /\ Exists => req'[r].dk = entry.blob.dk
      BY <1>o, <2>p, <3>1 DEF UpToDate, SameCall, SameRead
    <3>4. req'[r].pc \in {"prune", "finish"} => req'[r].snapKeys[Owner] = keys[Owner]
      <4>1. CASE SnapBlob(r)
        BY <2>1, <4>1, SnapEffect
      <4>2. CASE SnapKeys(r)
        BY <2>1, <4>2, SnapEffect
      <4>3. CASE Prune(r)
        <5>1. req[r].pc = "prune" /\ req'[r].snapKeys = req[r].snapKeys
          BY <2>1, <4>3, SnapEffect DEF Prune, At, SameSnap
        <5> QED
          BY <1>o, <2>p, <5>1 DEF UpToDate
      <4> QED
        BY <1>4, <4>1, <4>2, <4>3
    <3>5. req'[r].op \in Versioned
      BY <2>p, <3>1 DEF SameCall
    <3> QED
      BY <1>u, <1>e, <3>2, <3>3, <3>4, <3>5 DEF UpToDate, Versioned
  <2> QED
    BY <1>r, <2>1, IdleUpToDate, OwnerOfOne
<1>5. CASE RequireAccess(r)
  BY <1>5, <1>r, MoveOnEffect, OwnerAnswered
<1>6. CASE GetVersionBlob(r) \/ GetVersionKey(r)
  BY <1>6, <1>r, VersionReadEffect, OwnerAnswered
<1>7. CASE Reply(r) \/ Die(r)
  BY <1>7, <1>r, LastStatementEffect, OwnerAnswered
<1> QED
  BY <1>1, <1>2, <1>3, <1>4, <1>5, <1>6, <1>7

\* Creating the entry.
LEMMA CreateOwner ==
  ASSUME OneAtATime, PurgeInv, OwnerInv, NEW r \in Requests,
         \/ CreateInsert(r) \/ CreateKey(r) \/ CreateGrant(r) \/ StatementFails(r)
  PROVE  OwnerInv'
<1>t. TypeOK /\ Owner \in Users
  BY ConstantsAssumption DEF ConstantsAssumption, PurgeInv
<1>k. keys \in [Users -> DataKeys] /\ perms \in [Users -> Permissions]
  BY <1>t DEF TypeOK
<1>q. UpToDate(req[r]) /\ OwnerRows
  BY DEF OwnerInv
<1>1. CASE CreateInsert(r)
  <2>1. req[r].pc = "insert" /\ req[r] \in RequestRecords
    BY <1>1, <1>t, BusyType DEF CreateInsert, At, Pcs
  <2>2. req[r].user = Owner /\ versions = {} /\ keys[Owner] = 0
    BY <1>q, <1>t, <2>1 DEF UpToDate, PurgeInv, RowsNeedEntry
  <2>3. req'[r].pc = "createKey" /\ SameCall(req'[r], req[r])
    BY <1>1, <1>t, <2>1, GotoEffect DEF CreateInsert
  <2>4. UNCHANGED <<keys, perms, versions>> /\ entry'.blob.dk = 1
    BY <1>1 DEF CreateInsert
  <2>5. OwnerRows'
    BY <1>q, <2>2, <2>4 DEF OwnerRows
  <2>6. UpToDate(req[r])'
    BY <2>2, <2>3, <2>4 DEF UpToDate, SameCall
  <2> QED
    BY <2>5, <2>6, OwnerOfOne
<1>2. CASE CreateKey(r) \/ (At(r, "createKey") /\ StatementFails(r))
  <2>1. req[r].pc = "createKey" /\ req[r] \in RequestRecords
    BY <1>2, <1>t, BusyType DEF CreateKey, At, Pcs
  <2>2. /\ req[r].user = Owner /\ versions = {}
        /\ Exists => entry.blob.dk = 1
    BY <1>q, <2>1 DEF UpToDate
  <2>3. Goto(r, "createGrant")
    BY <1>2, <2>1 DEF CreateKey, StatementFails, At
  <2>4. req'[r].pc = "createGrant" /\ SameCall(req'[r], req[r])
    BY <1>t, <2>1, <2>3, GotoEffect
  <2>5. /\ UNCHANGED <<entry, perms, versions>>
        /\ keys' = keys \/ (Exists /\ keys' = [keys EXCEPT ![Owner] = 1])
    BY <1>2, <2>2 DEF CreateKey, StatementFails
  <2>6. OwnerRows'
    BY <1>k, <1>q, <1>t, <2>2, <2>5 DEF OwnerRows, Exists
  <2>7. UpToDate(req[r])'
    BY <2>2, <2>4 DEF UpToDate, SameCall
  <2> QED
    BY <2>6, <2>7, OwnerOfOne
<1>3. CASE CreateGrant(r)
  <2>1. req[r].pc = "createGrant" /\ req[r].user = Owner /\ req'[r] = Idle
    BY <1>3, <1>q, <1>t, LastStatementEffect DEF CreateGrant, At, UpToDate
  <2>2. /\ UNCHANGED <<entry, keys, versions>>
        /\ perms' = perms \/ perms' = [perms EXCEPT ![Owner] = "owner"]
    BY <1>3, <2>1 DEF CreateGrant
  <2>3. OwnerRows'
    BY <1>k, <1>q, <1>t, <2>2 DEF OwnerRows, Exists
  <2> QED
    BY <2>1, <2>3, OwnerAnswered
<1>4. CASE StatementFails(r) /\ ~At(r, "createKey")
  <2>1. req'[r] = Idle /\ UNCHANGED <<entry, keys, perms, versions>>
    BY <1>4, <1>t, AnswerEffect DEF StatementFails
  <2> QED
    BY <1>q, <2>1, SameRows, OwnerAnswered
<1> QED
  BY <1>1, <1>2, <1>3, <1>4

\* The commit of an edit or a restore.
LEMMA FinishOwner ==
  ASSUME OneAtATime, PurgeInv, HistoryInv, OwnerInv, NEW r \in Requests,
         FinishEdit(r) \/ FinishRestore(r)
  PROVE  OwnerInv'
<1>t. TypeOK /\ Owner \in Users
  BY ConstantsAssumption DEF ConstantsAssumption, PurgeInv
<1>k. /\ keys \in [Users -> DataKeys]
      /\ entry \in [life : Lives, blob : Blobs, folder : Folders \cup {Root}]
  BY <1>t DEF TypeOK
<1>q. UpToDate(req[r]) /\ OwnerRows
  BY DEF OwnerInv
<1>a. req'[r] = Idle /\ UNCHANGED perms
  BY <1>t, LastStatementEffect DEF FinishEdit, FinishRestore
<1>i. r \in InTx /\ req[r].op \in Versioned /\ req[r].pc = "finish"
  BY DEF FinishEdit, FinishRestore, InTx, Versioned, At
<1>e. Exists /\ req[r].snap = entry.blob /\ req[r].snapKeys[Owner] = keys[Owner]
  BY <1>i, <1>q DEF PurgeInv, TransactionsHoldEntry, HistoryInv, UpToDate
<1>v. \A v \in Kept(r) : /\ v.keys[Owner] # 0 => v.keys[Owner] = v.blob.dk
                         /\ keys[Owner] # 0 => v.keys[Owner] # 0
  BY <1>e, <1>q DEF Kept, Seen, OwnerRows
<1>1. CASE FinishEdit(r)
  <2>1. entry'.blob.dk = entry.blob.dk
    BY <1>1, <1>e, <1>i, <1>k, <1>q DEF FinishEdit, EditBlob, UpToDate
  <2>2. OwnerRows'
    BY <1>1, <1>a, <1>e, <1>q, <1>v, <2>1 DEF FinishEdit, OwnerRows
  <2> QED
    BY <1>a, <2>2, OwnerAnswered
<1>2. CASE FinishRestore(r)
  <2>1. CASE UNCHANGED <<entry, keys, versions>>
    BY <1>a, <1>q, <2>1, SameRows, OwnerAnswered
  <2>2. ASSUME NEW v \in Kept(r), entry' = [entry EXCEPT !.blob = v.blob],
               keys' = RestoredKeys(v), versions' = Kept(r)
        PROVE  OwnerInv'
    <3>1. keys'[Owner] # 0 => keys[Owner] # 0 /\ keys'[Owner] = v.keys[Owner]
      BY <1>t, <1>v, <2>2 DEF RestoredKeys
    <3>2. entry'.blob = v.blob
      BY <1>k, <2>2
    <3>3. OwnerRows'
      BY <1>a, <1>q, <1>v, <2>2, <3>1, <3>2 DEF OwnerRows
    <3> QED
      BY <1>a, <3>3, OwnerAnswered
  <2> QED
    BY <1>2, <2>1, <2>2 DEF FinishRestore
<1> QED
  BY <1>1, <1>2

\* The other writes.
LEMMA WriteOwner ==
  ASSUME OneAtATime, "owner" \notin Grants, PurgeInv, PathInv, OwnerInv, NEW r \in Requests,
         \/ FinishMeta(r) \/ DeleteEntry(r) \/ RestoreEntry(r) \/ PurgeEntry(r)
         \/ ShareKey(r) \/ ShareGrant(r) \/ RevokePerm(r) \/ RevokeKey(r)
  PROVE  OwnerInv'
<1>t. TypeOK /\ Owner \in Users
  BY ConstantsAssumption DEF ConstantsAssumption, PurgeInv
<1>k. /\ keys \in [Users -> DataKeys] /\ perms \in [Users -> Permissions]
      /\ entry \in [life : Lives, blob : Blobs, folder : Folders \cup {Root}]
  BY <1>t DEF TypeOK
<1>o. OnPath(req[r]) /\ UpToDate(req[r]) /\ OwnerRows
  BY DEF PathInv, OwnerInv
<1>0. req[r] \in RequestRecords /\ req[r].user \in Users
  BY <1>t, BusyType DEF FinishMeta, DeleteEntry, RestoreEntry, PurgeEntry, ShareKey, ShareGrant,
     RevokePerm, RevokeKey, Pcs, RequestRecords
<1>1. CASE FinishMeta(r)
  <2>1. req'[r] = Idle /\ UNCHANGED <<perms, versions>> /\ req[r].pc = "finish"
    BY <1>1, <1>t, LastStatementEffect DEF FinishMeta, At
  <2>2. keys' = keys
    <3>1. Exists /\ req[r].op = "rewrap" => req[r].dk = keys[req[r].user]
      BY <1>o, <2>1 DEF UpToDate
    <3> QED
      BY <1>0, <1>1, <1>k, <3>1 DEF FinishMeta
  <2>3. entry'.blob = entry.blob /\ entry'.life = entry.life
    BY <1>1, <1>k DEF FinishMeta
  <2>4. OwnerRows'
    BY <1>o, <2>1, <2>2, <2>3 DEF OwnerRows, Exists
  <2> QED
    BY <2>1, <2>4, OwnerAnswered
<1>2. CASE DeleteEntry(r) \/ RestoreEntry(r)
  <2>1. req'[r] = Idle /\ UNCHANGED <<keys, perms, versions>>
    BY <1>2, <1>t, LastStatementEffect DEF DeleteEntry, RestoreEntry
  <2>2. entry'.blob = entry.blob /\ (Exists' => Exists)
    BY <1>2, <1>k DEF DeleteEntry, RestoreEntry, Exists
  <2>3. OwnerRows'
    BY <1>o, <2>1, <2>2 DEF OwnerRows
  <2> QED
    BY <2>1, <2>3, OwnerAnswered
<1>3. CASE PurgeEntry(r)
  <2>1. req'[r] = Idle
    BY <1>3, <1>t, LastStatementEffect
  <2>2. OwnerRows'
    <3>1. CASE DeleteRows
      BY <3>1 DEF DeleteRows, OwnerRows, Exists, None
    <3>2. CASE UNCHANGED <<entry, keys, perms, grantedBy, versions, owed>>
      BY <1>o, <3>2, SameRows
    <3> QED
      BY <1>3, <3>1, <3>2 DEF PurgeEntry
  <2> QED
    BY <2>1, <2>2, OwnerAnswered
<1>4. CASE ShareKey(r)
  <2>1. req[r].pc = "key" /\ req[r].op = "share" /\ req[r].user = Owner /\ req[r].dk # 0
    BY <1>4, <1>o DEF ShareKey, At, OnPath, UpToDate
  <2>2. Exists => req[r].dk = keys[Owner]
    BY <1>o, <2>1 DEF UpToDate
  <2>3. UNCHANGED <<entry, perms, versions>> /\ keys'[Owner] = keys[Owner]
    BY <1>4, <1>k, <1>t, <2>2 DEF ShareKey
  <2>4. OwnerRows'
    BY <1>o, <2>3 DEF OwnerRows, Exists
  <2>5. req'[r] = Idle \/ req'[r].pc = "grant"
    BY <1>4, <1>t, MoveOnEffect
  <2> QED
    BY <2>4, <2>5, OwnerAnswered
<1>5. CASE ShareGrant(r)
  <2>1. req'[r] = Idle /\ req[r].grant # "owner"
    BY <1>5, <1>o, <1>t, LastStatementEffect DEF ShareGrant, At, OnPath
  <2>2. UNCHANGED <<entry, keys, versions>>
    BY <1>5 DEF ShareGrant
  <2>3. perms' = perms \/ perms' = [perms EXCEPT ![req[r].target] = req[r].grant]
    BY <1>5 DEF ShareGrant
  <2>4. \A u \in Users : perms'[u] = "owner" => perms[u] = "owner"
    BY <1>k, <2>1, <2>3
  <2>5. OwnerRows'
    BY <1>o, <2>2, <2>4 DEF OwnerRows, Exists
  <2> QED
    BY <2>1, <2>5, OwnerAnswered
<1>6. CASE RevokePerm(r)
  <2>1. UNCHANGED <<entry, keys, versions>>
    BY <1>6 DEF RevokePerm
  <2>2. perms' = perms \/ perms' = [perms EXCEPT ![req[r].target] = None]
    BY <1>6 DEF RevokePerm
  <2>3. \A u \in Users : perms'[u] = "owner" => perms[u] = "owner"
    BY <1>k, <2>2 DEF None
  <2>4. OwnerRows'
    BY <1>o, <2>1, <2>3 DEF OwnerRows, Exists
  <2>5. req'[r] = Idle \/ req'[r].pc = "unkey"
    BY <1>6, <1>t, MoveOnEffect
  <2> QED
    BY <2>4, <2>5, OwnerAnswered
<1>7. CASE RevokeKey(r)
  <2>1. req'[r] = Idle /\ UNCHANGED <<entry, perms, versions>>
    BY <1>7, <1>t, LastStatementEffect DEF RevokeKey
  <2>2. keys'[Owner] # 0 => keys'[Owner] = keys[Owner]
    BY <1>7, <1>k, <1>t DEF RevokeKey
  <2>3. OwnerRows'
    BY <1>o, <2>1, <2>2 DEF OwnerRows, Exists
  <2> QED
    BY <2>1, <2>3, OwnerAnswered
<1> QED
  BY <1>1, <1>2, <1>3, <1>4, <1>5, <1>6, <1>7

LEMMA CallOwner ==
  ASSUME OneAtATime, TypeOK, OwnerInv, NEW r \in Requests, NEW op \in Ops, NEW u \in Users,
         Call(r, op, u)
  PROVE  OwnerInv'
<1>1. UNCHANGED <<entry, keys, perms, versions>> /\ (op = "create" => u = Owner /\ ~Exists)
  BY DEF Call, Exists
<1>2. req'[r].op = op /\ req'[r].pc = FirstPc(op) /\ req'[r].user = u
  BY CallEffect
<1>3. OwnerRows'
  BY <1>1, SameRows DEF OwnerInv
<1>4. op \in AllOps
  BY ConstantsAssumption DEF ConstantsAssumption
<1>5. CASE FirstPc(op) # "perm"
  <2>1. FirstPc(op) \in {"get", "unperm", "access"} \/ (op = "create" /\ FirstPc(op) = "insert")
    BY <1>5 DEF FirstPc
  <2>2. CASE op = "create" /\ FirstPc(op) = "insert"
    <3>1. UpToDate(req[r])'
      BY <1>1, <1>2, <2>2 DEF UpToDate, Exists
    <3> QED
      BY <1>3, <3>1, OwnerOfOne
  <2> QED
    BY <1>2, <1>3, <2>1, <2>2, OwnerAnswered
<1>6. CASE FirstPc(op) = "perm"
  <2>1. op \notin {"edit", "share", "rewrap"}
    BY <1>6 DEF FirstPc
  <2>2. UpToDate(req[r])'
    BY <1>2, <1>6, <2>1 DEF UpToDate
  <2> QED
    BY <1>3, <2>2, OwnerOfOne
<1> QED
  BY <1>5, <1>6

LEMMA OwnerInvStep ==
  ASSUME OneAtATime, "owner" \notin Grants
  PROVE  PurgeInv /\ PathInv /\ HistoryInv /\ OwnerInv /\ [Next]_vars => OwnerInv'
<1> SUFFICES ASSUME PurgeInv, PathInv, HistoryInv, OwnerInv, [Next]_vars PROVE OwnerInv'
  OBVIOUS
<1>t. TypeOK
  BY DEF PurgeInv
<1>1. ASSUME NEW r \in Requests, Handle(r)
      PROVE  OwnerInv'
  <2>1. OnPath(req[r])
    BY DEF PathInv
  <2> QED
    BY <1>t, <1>1, <2>1, NoWait, ReadOwner, CreateOwner, FinishOwner, WriteOwner DEF Handle
<1>2. ASSUME NEW r \in Requests,
             (\E op \in Ops, u \in Users : Call(r, op, u)) \/ Die(r) \/ StatementFails(r)
      PROVE  OwnerInv'
  BY <1>t, <1>2, CallOwner, ReadOwner, CreateOwner
<1>3. CASE PurgeOnce
  <2>1. OwnerRows'
    BY <1>3 DEF PurgeOnce, DeleteRows, OwnerRows, Exists, None
  <2>2. req' = req /\ ~Exists' /\ versions' = {} /\ InTx = {}
    BY <1>3 DEF PurgeOnce, DeleteRows, Exists
  <2>3. ASSUME NEW r \in Requests
        PROVE  UpToDate(req[r])'
    <3>1. UpToDate(req[r])
      BY DEF OwnerInv
    <3>2. ~(req[r].op \in Versioned /\ req[r].pc \in {"prune", "finish"})
      BY <2>2 DEF InTx
    <3> QED
      BY <2>2, <3>1, <3>2 DEF UpToDate
  <2> QED
    BY <2>1, <2>3 DEF OwnerInv
<1>4. CASE UNCHANGED vars
  <2>1. UNCHANGED <<entry, keys, perms, versions, req>>
    BY <1>4 DEF vars
  <2>2. OwnerRows'
    BY <2>1, SameRows DEF OwnerInv
  <2> QED
    BY <2>1, <2>2 DEF OwnerInv, UpToDate, Exists
<1> QED
  BY <1>1, <1>2, <1>3, <1>4 DEF Next

LEMMA InitOwner == Init => OwnerInv
<1> SUFFICES ASSUME Init PROVE OwnerInv
  OBVIOUS
<1>1. PICK start \in Starts :
        /\ entry = InitEntry(start)
        /\ keys = [u \in Users |-> InitKey(start, u)]
        /\ perms = [u \in Users |-> InitPerm(start, u)]
        /\ versions = InitVersions(start)
  BY DEF Init
<1>o. Owner \in Users
  BY ConstantsAssumption DEF ConstantsAssumption
<1>2. \A u \in Users : perms[u] = "owner" => u = Owner
  BY <1>1 DEF InitPerm, None
<1>3. Exists /\ keys[Owner] # 0 => keys[Owner] = entry.blob.dk
  BY <1>1, <1>o DEF InitEntry, InitKey
<1>4. \A v \in versions : v.keys[Owner] # 0 /\ v.keys[Owner] = v.blob.dk
  <2>1. \A v \in versions : v = [at |-> 0, blob |-> [body |-> 0, dk |-> 1], keys |-> [u \in Users |-> 1]]
    BY <1>1 DEF InitVersions
  <2> QED
    BY <1>o, <2>1
<1>5. \A r \in Requests : UpToDate(req[r])
  BY DEF Init, UpToDate, Idle, None, Versioned
<1> QED
  BY <1>2, <1>3, <1>4, <1>5 DEF OwnerInv, OwnerRows

\* While requests do not overlap, the owner's wrapped key opens the entry even where an
\* older client stored a fresh data key, whichever requests die half-way, and whatever is
\* restored: RestoreVersion brings back the owner's key with the blob.  A share that
\* granted "owner" could overwrite the owner's key with one of another version.
THEOREM OwnerAlwaysReads ==
  ASSUME OneAtATime, "owner" \notin Grants
  PROVE  Spec => []OwnerReads
<1> DEFINE Inv == PurgeInv /\ PathInv /\ HistoryInv /\ OwnerInv
<1>1. Init => Inv
  BY InitPurge, InitPath, InitHistory, InitOwner
<1>2. Inv /\ [Next]_vars => Inv'
  <2>1. PurgeInv => TypeOK
    BY DEF PurgeInv
  <2> QED
    BY <2>1, PurgeInvStep, PathInvStep, HistoryInvStep, OwnerInvStep
<1>3. Inv => OwnerReads
  BY DEF OwnerInv, OwnerRows, OwnerReads
<1> QED
  BY <1>1, <1>2, <1>3, PTL DEF Spec
=============================================================================
