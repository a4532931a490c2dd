-------------------------- MODULE FolderTree_proofs --------------------------
(***************************************************************************)
(* Theorems about FolderTree, for every number of folders, entries and     *)
(* requests.                                                               *)
(***************************************************************************)
EXTENDS FolderTree, TLAPS

-----------------------------------------------------------------------------
(* Types.                                                                  *)

LEMMA InitType == Init => TypeOK
  BY ConstantsAssumption DEF ConstantsAssumption, Init, TypeOK

LEMMA Distinct ==
  /\ Root \notin Folders /\ Unused \notin Folders /\ Gone \notin Folders
  /\ Unused \notin Places /\ Gone \notin Places
  BY ConstantsAssumption DEF ConstantsAssumption, Places, Root, Unused, Gone

LEMMA AnswerType ==
  ASSUME TypeOK, NEW r \in Requests, Answer(r)
  PROVE  req' \in [Requests -> RequestRecords \cup {Idle}]
  BY DEF Answer, TypeOK

LEMMA SlotType ==
  ASSUME TypeOK, NEW r \in Requests, NEW q \in RequestRecords, req' = [req EXCEPT ![r] = q]
  PROVE  req' \in [Requests -> RequestRecords \cup {Idle}]
  BY DEF TypeOK

LEMMA BusyType ==
  ASSUME TypeOK, NEW r \in Requests, req[r] # Idle
  PROVE  req[r] \in RequestRecords
  BY DEF TypeOK

LEMMA AtType ==
  ASSUME TypeOK, NEW r \in Requests, NEW op \in AllOps, NEW pc, At(r, op, pc)
  PROVE  req[r] \in RequestRecords
  BY DEF TypeOK, At, Idle, AllOps, None

LEMMA CallType ==
  ASSUME TypeOK, NEW r \in Requests, NEW op \in Ops, NEW f \in Folders, Call(r, op, f)
  PROVE  TypeOK'
<1>1. PICK p \in Places \cup {None} : req' = [req EXCEPT ![r] =
        [Idle EXCEPT !.op = op, !.folder = f, !.to = p, !.pc = IF p = Root THEN "write" ELSE "check"]]
  BY DEF Call
<1>2. op \in AllOps
  BY ConstantsAssumption DEF ConstantsAssumption
<1>3. [Idle EXCEPT !.op = op, !.folder = f, !.to = p, !.pc = IF p = Root THEN "write" ELSE "check"]
        \in RequestRecords
  BY <1>2 DEF Idle, RequestRecords
<1>4. calls' \in 0 .. MaxCalls
  BY ConstantsAssumption DEF ConstantsAssumption, Call, TypeOK
<1> QED
  BY <1>1, <1>3, <1>4, SlotType DEF Call, TypeOK

LEMMA StepType == TypeOK /\ [Next]_vars => TypeOK'
<1> SUFFICES ASSUME TypeOK, [Next]_vars PROVE TypeOK'
  OBVIOUS
<1>1. ASSUME NEW r \in Requests, MoveCheck(r) PROVE TypeOK'
  <2>1. req[r] \in RequestRecords
    BY <1>1, AtType DEF MoveCheck, AllOps
  <2>2. [req[r] EXCEPT !.pc = "write"] \in RequestRecords
    BY <2>1 DEF RequestRecords
  <2> QED
    BY <1>1, <2>2, SlotType, AnswerType DEF MoveCheck, TypeOK
<1>2. ASSUME NEW r \in Requests, MoveWrite(r) PROVE TypeOK'
  <2>1. req[r] \in RequestRecords
    BY <1>2, AtType DEF MoveWrite, AllOps
  <2>2. IsPlace(req[r].to) => req[r].to \in Places
    BY DEF IsPlace, IsFolder, Places
  <2>3. parent' \in [Folders -> Places \cup {Unused, Gone}]
    BY <1>2, <2>2 DEF MoveWrite, TypeOK
  <2> QED
    BY <1>2, <2>3, AnswerType DEF MoveWrite, TypeOK
<1>3. ASSUME NEW r \in Requests, DeleteCollect(r) PROVE TypeOK'
  <2>1. req[r] \in RequestRecords
    BY <1>3, AtType DEF DeleteCollect, AllOps
  <2>2. {req[r].folder} \cup Descendants(req[r].folder) \in SUBSET Folders
    BY <2>1 DEF RequestRecords, Descendants, Hanging, Existing
  <2>3. \A I \in SUBSET Folders : [req[r] EXCEPT !.pc = "entries", !.ids = I] \in RequestRecords
    BY <2>1 DEF RequestRecords
  <2>4. \/ Answer(r)
        \/ \E I \in SUBSET Folders :
             req' = [req EXCEPT ![r] = [req[r] EXCEPT !.pc = "entries", !.ids = I]]
    BY <1>3, <2>2 DEF DeleteCollect
  <2>5. req' \in [Requests -> RequestRecords \cup {Idle}]
    BY <2>3, <2>4, SlotType, AnswerType
  <2> QED
    BY <1>3, <2>5 DEF DeleteCollect, TypeOK
<1>4. ASSUME NEW r \in Requests, DeleteEntries(r) PROVE TypeOK'
  <2>1. req[r] \in RequestRecords
    BY <1>4, AtType DEF DeleteEntries, AllOps
  <2>2. Doomed(r) \in SUBSET Entries
    BY DEF Doomed
  <2>3. [req[r] EXCEPT !.pc = "commit", !.del = Doomed(r)] \in RequestRecords
    BY <2>1, <2>2 DEF RequestRecords
  <2>4. req' \in [Requests -> RequestRecords \cup {Idle}]
    BY <1>4, <2>3, SlotType DEF DeleteEntries
  <2> QED
    BY <1>4, <2>4 DEF DeleteEntries, TypeOK
<1>5. ASSUME NEW r \in Requests, DeleteCommit(r) PROVE TypeOK'
  <2>1. /\ parent' \in [Folders -> Places \cup {Unused, Gone}]
        /\ filed' \in [Entries -> Places \cup {Gone}] /\ shared' \in SUBSET Folders
    BY <1>5 DEF DeleteCommit, TypeOK
  <2> QED
    BY <1>5, <2>1, AnswerType DEF DeleteCommit, TypeOK
<1>6. ASSUME NEW r \in Requests, Die(r) PROVE TypeOK'
  BY <1>6, AnswerType DEF Die, TypeOK
<1>7. ASSUME NEW f \in Folders, Share(f) \/ Revoke(f) \/ \E p \in Places : CreateFolder(f, p)
      PROVE  TypeOK'
  BY <1>7, ConstantsAssumption DEF ConstantsAssumption, Share, Revoke, CreateFolder, TypeOK
<1>8. ASSUME NEW e \in Entries, NEW p \in Places, MoveEntry(e, p) PROVE TypeOK'
  BY <1>8, ConstantsAssumption DEF ConstantsAssumption, MoveEntry, TypeOK
<1>9. CASE UNCHANGED vars
  BY <1>9 DEF vars, TypeOK
<1> QED
  BY <1>1, <1>2, <1>3, <1>4, <1>5, <1>6, <1>7, <1>8, <1>9, CallType DEF Next, Handle

\* Every variable of FolderTree keeps its type.
THEOREM TypeCorrect == Spec => []TypeOK
  BY InitType, StepType, PTL DEF Spec

-----------------------------------------------------------------------------
(* Nothing is stranded in a deleted folder.                                *)

OrphanInv == TypeOK /\ NoOrphans

LEMMA InitOrphans == Init => OrphanInv
<1> SUFFICES ASSUME Init PROVE NoOrphans
  BY InitType DEF OrphanInv
<1>1. \A e \in Entries : IsPlace(filed[e])
  BY DEF Init
<1>2. ASSUME NEW f \in Folders, IsFolder(f) PROVE IsPlace(parent[f])
  <2>1. parent[f] \in Folders => parent[parent[f]] = Root
    BY DEF Init
  <2> QED
    BY <1>2, <2>1 DEF IsFolder, IsPlace, Places
<1> QED
  BY <1>1, <1>2 DEF NoOrphans, Init

LEMMA OrphanStep == OrphanInv /\ [Next]_vars => OrphanInv'
<1> SUFFICES ASSUME OrphanInv, [Next]_vars PROVE NoOrphans'
  BY StepType DEF OrphanInv
<1> USE DEF OrphanInv
<1>1. ASSUME NEW r \in Requests, MoveWrite(r) PROVE NoOrphans'
  <2>1. \A f : IsFolder(f)' <=> IsFolder(f)
    BY <1>1 DEF MoveWrite, IsFolder, IsPlace, Places, TypeOK
  <2>2. \A p : IsPlace(p)' <=> IsPlace(p)
    BY <2>1 DEF IsPlace
  <2>3. \A f \in Folders : IsFolder(f) => IsPlace(parent'[f])
    BY <1>1 DEF MoveWrite, NoOrphans, TypeOK
  <2> QED
    BY <1>1, <2>1, <2>2, <2>3 DEF MoveWrite, NoOrphans, IsEntry
<1>2. ASSUME NEW r \in Requests, DeleteCommit(r) PROVE NoOrphans'
  <2>1. CASE UNCHANGED <<parent, filed, shared>>
    BY <2>1 DEF NoOrphans, IsEntry, IsPlace, IsFolder
  <2>2. CASE /\ NoneLeftInside(r)
             /\ parent' = [f \in Folders |-> IF f \in req[r].ids /\ IsFolder(f)
                                               THEN Gone ELSE parent[f]]
             /\ filed' = [e \in Entries |-> IF e \in req[r].del THEN Gone ELSE filed[e]]
             /\ shared' = shared \ req[r].ids
    <3>1. \A f \in Folders : IsFolder(f)' <=> IsFolder(f) /\ f \notin req[r].ids
      BY <2>2, Distinct DEF IsFolder
    <3>2. ASSUME NEW p \in Places, p = Root \/ IsFolder(p), p \notin req[r].ids
          PROVE  p = Root \/ (p \in Folders /\ parent'[p] \in Places)
      BY <3>1, <3>2 DEF IsFolder
    <3>3. ASSUME NEW e \in Entries, IsEntry(e)'
          PROVE  filed'[e] = filed[e] /\ filed[e] \in Places /\ filed[e] \notin req[r].ids
      <4>1. e \notin req[r].del /\ filed'[e] = filed[e]
        BY <2>2, <3>3, Distinct DEF IsEntry
      <4> QED
        BY <2>2, <3>3, <4>1 DEF IsEntry, NoneLeftInside
    <3>4. ASSUME NEW e \in Entries, IsEntry(e)' PROVE IsPlace(filed[e])'
      <4>1. filed[e] = Root \/ IsFolder(filed[e])
        BY <3>3, <3>4 DEF NoOrphans, IsEntry, IsPlace
      <4> QED
        BY <3>2, <3>3, <3>4, <4>1 DEF IsPlace, IsFolder
    <3>5. ASSUME NEW f \in Folders, IsFolder(f)' PROVE IsPlace(parent[f])'
      <4>1. IsFolder(f) /\ f \notin req[r].ids /\ parent'[f] = parent[f]
        BY <2>2, <3>1, <3>5
      <4>2. parent[f] \in Places /\ parent[f] \notin req[r].ids
        BY <2>2, <4>1 DEF IsFolder, NoneLeftInside
      <4>3. parent[f] = Root \/ IsFolder(parent[f])
        BY <4>1 DEF NoOrphans, IsPlace
      <4> QED
        BY <3>2, <4>1, <4>2, <4>3 DEF IsPlace, IsFolder
    <3>6. \A f \in shared' : IsFolder(f)'
      BY <2>2, <3>1 DEF NoOrphans, TypeOK
    <3> QED
      BY <3>4, <3>5, <3>6 DEF NoOrphans
  <2> QED
    BY <1>2, <2>1, <2>2 DEF DeleteCommit
<1>3. ASSUME NEW f \in Folders, NEW p \in Places, CreateFolder(f, p) PROVE NoOrphans'
  <2>1. \A g \in Folders : IsFolder(g)' <=> IsFolder(g) \/ g = f
    BY <1>3 DEF CreateFolder, IsFolder, TypeOK
  <2>2. \A q : IsPlace(q) => IsPlace(q)'
    BY <2>1 DEF IsPlace, IsFolder
  <2> QED
    BY <1>3, <2>1, <2>2 DEF CreateFolder, NoOrphans, IsEntry, TypeOK
<1>4. ASSUME NEW e \in Entries, NEW p \in Places, MoveEntry(e, p) PROVE NoOrphans'
  BY <1>4 DEF MoveEntry, NoOrphans, IsEntry, IsPlace, IsFolder, TypeOK
<1>5. ASSUME NEW f \in Folders, Share(f) \/ Revoke(f) PROVE NoOrphans'
  BY <1>5 DEF Share, Revoke, NoOrphans, IsEntry, IsPlace, IsFolder
<1>6. CASE UNCHANGED <<parent, filed, shared>>
  BY <1>6 DEF NoOrphans, IsEntry, IsPlace, IsFolder
<1> QED
  BY <1>1, <1>2, <1>3, <1>4, <1>5, <1>6
     DEF Next, vars, Handle, Call, MoveCheck, DeleteCollect, DeleteEntries, Die

\* DeleteFolder's collected ids may be stale when it deletes, yet nothing is ever
\* filed in a folder that is gone: a late arrival makes the whole deletion fail.
THEOREM NothingStranded == Spec => []NoOrphans
<1>1. OrphanInv => NoOrphans
  BY DEF OrphanInv
<1> QED
  BY <1>1, InitOrphans, OrphanStep, PTL DEF Spec

-----------------------------------------------------------------------------
(* An entry dies only with its folder.                                     *)

\* What a transaction has deleted lies in what it has collected, and is locked by
\* it alone.
DeletionInv ==
  /\ \A r \in Requests : req[r].pc # "commit" => req[r].del = {}
  /\ \A r \in Requests : \A e \in req[r].del : filed[e] \in req[r].ids
  /\ \A r, s \in Requests : r # s => req[r].del \cap req[s].del = {}

LEMMA InitDeletion == Init => DeletionInv
  BY DEF Init, DeletionInv, Idle

\* A slot that ends or has deleted nothing disturbs no other.
LEMMA EmptyDeletion ==
  ASSUME TypeOK, DeletionInv, UNCHANGED filed, NEW r \in Requests, NEW q,
         q.del = {}, req' = [req EXCEPT ![r] = q]
  PROVE  DeletionInv'
  BY DEF DeletionInv, TypeOK

LEMMA DeletionStep == TypeOK /\ DeletionInv /\ [Next]_vars => DeletionInv'
<1> SUFFICES ASSUME TypeOK, DeletionInv, [Next]_vars PROVE DeletionInv'
  OBVIOUS
<1>1. ASSUME NEW r \in Requests, NEW op \in Ops, NEW f \in Folders, Call(r, op, f)
      PROVE  DeletionInv'
  BY <1>1, EmptyDeletion DEF Call, Idle
<1>2. ASSUME NEW r \in Requests, Answer(r), UNCHANGED filed PROVE DeletionInv'
  BY <1>2, EmptyDeletion DEF Answer, Idle
<1>3. ASSUME NEW r \in Requests, MoveCheck(r) \/ DeleteCollect(r) PROVE DeletionInv'
  <2>1. req[r].pc = "check" /\ UNCHANGED filed
    BY <1>3 DEF MoveCheck, DeleteCollect, At
  <2>2. req[r].del = {}
    BY <2>1 DEF DeletionInv
  <2>3. \/ Answer(r)
        \/ req' = [req EXCEPT ![r] = [req[r] EXCEPT !.pc = "write"]]
        \/ \E I : req' = [req EXCEPT ![r] = [req[r] EXCEPT !.pc = "entries", !.ids = I]]
    BY <1>3 DEF MoveCheck, DeleteCollect
  <2>4. \E q : q.del = {} /\ req' = [req EXCEPT ![r] = q]
    <3>1. req[r] \in RequestRecords
      BY <1>3, AtType DEF MoveCheck, DeleteCollect, AllOps
    <3>2. Idle.del = {} /\ [req[r] EXCEPT !.pc = "write"].del = {}
      BY <2>2, <3>1 DEF Idle, RequestRecords
    <3>3. \A I : [req[r] EXCEPT !.pc = "entries", !.ids = I].del = {}
      BY <2>2, <3>1 DEF RequestRecords
    <3> QED
      BY <2>3, <3>2, <3>3 DEF Answer
  <2> QED
    BY <2>1, <2>4, EmptyDeletion
<1>4. ASSUME NEW r \in Requests, DeleteEntries(r) PROVE DeletionInv'
  <2>1. req[r] \in RequestRecords
    BY <1>4, AtType DEF DeleteEntries, AllOps
  <2>2. req' = [req EXCEPT ![r] = [req[r] EXCEPT !.pc = "commit", !.del = Doomed(r)]]
    BY <1>4 DEF DeleteEntries
  <2>3. req'[r].pc = "commit" /\ req'[r].del = Doomed(r) /\ req'[r].ids = req[r].ids
    BY <2>1, <2>2 DEF TypeOK, RequestRecords
  <2>4. \A s \in Requests : s # r => req'[s] = req[s]
    BY <2>2 DEF TypeOK
  <2>5. \A s \in Requests : Doomed(r) \cap req[s].del = {}
    BY <1>4 DEF DeleteEntries, Locked
  <2>6. \A e \in Doomed(r) : filed'[e] \in req[r].ids
    BY <1>4 DEF DeleteEntries, Doomed
  <2>7. \A s \in Requests : req'[s].pc # "commit" => req'[s].del = {}
    BY <2>3, <2>4 DEF DeletionInv
  <2>8. \A s \in Requests : \A e \in req'[s].del : filed'[e] \in req'[s].ids
    <3>1. filed' = filed
      BY <1>4 DEF DeleteEntries
    <3> QED
      BY <2>3, <2>4, <2>6, <3>1 DEF DeletionInv
  <2>9. \A s, t \in Requests : s # t => req'[s].del \cap req'[t].del = {}
    BY <2>3, <2>4, <2>5 DEF DeletionInv
  <2> QED
    BY <2>7, <2>8, <2>9 DEF DeletionInv
<1>5. ASSUME NEW r \in Requests, MoveWrite(r) \/ Die(r) PROVE DeletionInv'
  BY <1>2, <1>5 DEF MoveWrite, Die
<1>6. ASSUME NEW r \in Requests, DeleteCommit(r) PROVE DeletionInv'
  <2>1. req' = [req EXCEPT ![r] = Idle]
    BY <1>6 DEF DeleteCommit, Answer
  <2>2. req'[r] = Idle /\ \A s \in Requests : s # r => req'[s] = req[s]
    BY <2>1 DEF TypeOK
  <2>3. \A e \in Entries : e \notin req[r].del => filed'[e] = filed[e]
    BY <1>6 DEF DeleteCommit
  <2>4. ASSUME NEW s \in Requests, s # r, NEW e \in req[s].del PROVE filed'[e] = filed[e]
    <3>1. e \notin req[r].del
      BY <2>4 DEF DeletionInv
    <3>2. e \in Entries
      BY <2>4 DEF TypeOK, RequestRecords, Idle
    <3> QED
      BY <2>3, <3>1, <3>2
  <2> QED
    BY <2>2, <2>4 DEF DeletionInv, Idle
<1>7. ASSUME NEW e \in Entries, NEW p \in Places, MoveEntry(e, p) PROVE DeletionInv'
  BY <1>7 DEF MoveEntry, DeletionInv, Locked, TypeOK
<1>8. CASE UNCHANGED <<filed, req>>
  BY <1>8 DEF DeletionInv
<1>9. ASSUME NEW f \in Folders, Share(f) \/ Revoke(f) \/ \E p \in Places : CreateFolder(f, p)
      PROVE  UNCHANGED <<filed, req>>
  BY <1>9 DEF Share, Revoke, CreateFolder
<1>10. CASE UNCHANGED vars
  BY <1>8, <1>10 DEF vars
<1> QED
  BY <1>1, <1>3, <1>4, <1>5, <1>6, <1>7, <1>8, <1>9, <1>10 DEF Next, Handle

\* An entry dies only in the step that deletes the folder it is filed in: one moved out
\* before survives, one moved in keeps its folder.
EntryDiesWithItsFolder ==
  [][\A e \in Entries : IsEntry(e) /\ filed'[e] = Gone
       => filed[e] \in Folders /\ parent'[filed[e]] = Gone]_vars

\* DeleteFolder destroys an entry only together with the folder it is filed in at
\* that moment, whatever was moved, created or deleted since it collected the tree.
THEOREM EntriesDieWithFolders == Spec => EntryDiesWithItsFolder
<1> DEFINE Dies == \A e \in Entries : IsEntry(e) /\ filed'[e] = Gone
                     => filed[e] \in Folders /\ parent'[filed[e]] = Gone
<1>1. OrphanInv /\ DeletionInv /\ [Next]_vars => [Dies]_vars
  <2> SUFFICES ASSUME OrphanInv, DeletionInv, Next, NEW e \in Entries, IsEntry(e), filed'[e] = Gone
               PROVE  filed[e] \in Folders /\ parent'[filed[e]] = Gone
    BY DEF vars
  <2>1. filed'[e] # filed[e]
    BY Distinct DEF IsEntry
  <2>2. ~ \E d \in Entries, p \in Places : MoveEntry(d, p)
    BY <2>1, Distinct DEF MoveEntry, OrphanInv, TypeOK
  <2>3. PICK r \in Requests : DeleteCommit(r)
    BY <2>1, <2>2 DEF Next, Handle, Call, MoveCheck, MoveWrite, DeleteCollect, DeleteEntries, Die,
                      Share, Revoke, CreateFolder
  <2>4. /\ e \in req[r].del
        /\ parent' = [f \in Folders |-> IF f \in req[r].ids /\ IsFolder(f) THEN Gone ELSE parent[f]]
    BY <2>1, <2>3 DEF DeleteCommit
  <2>5. filed[e] \in req[r].ids
    BY <2>4 DEF DeletionInv
  <2>6. filed[e] \in Folders
    BY <2>5 DEF OrphanInv, TypeOK, RequestRecords, Idle
  <2>7. IsFolder(filed[e])
    BY <2>6, Distinct DEF OrphanInv, NoOrphans, IsPlace
  <2> QED
    BY <2>4, <2>5, <2>6, <2>7
<1>2. OrphanInv => TypeOK
  BY DEF OrphanInv
<1> QED
  BY <1>1, <1>2, InitOrphans, OrphanStep, InitDeletion, DeletionStep, PTL
     DEF Spec, EntryDiesWithItsFolder

-----------------------------------------------------------------------------
(* The tree stays a tree while one request at a time moves folders.        *)

\* Every set of folders has a member whose parent is outside it.
WellFounded ==
  \A S \in SUBSET Existing : S # {} => \E f \in S : parent[f] \notin S

\* A move names rows that exist or did, and once its guard has passed the new
\* parent is not below the folder.
MoveSafe(r) ==
  LET f == req[r].folder
      t == req[r].to
  IN  /\ r \in Movers
      /\ parent[f] # Unused
      /\ t \in Folders => parent[t] # Unused
      /\ req[r].pc = "write" /\ t \in Existing => t # f /\ t \notin Descendants(f)

TreeInv ==
  /\ OrphanInv
  /\ WellFounded
  /\ \A r \in Requests : req[r].op = "move" => MoveSafe(r)

LEMMA HangingClosed ==
  ASSUME NEW V, NEW p, NEW x \in V, parent[x] \in Hanging(V, p) \cup {p}
  PROVE  x \in Hanging(V, p)
  BY DEF Hanging

LEMMA NoneBelowItself == WellFounded => Acyclic
<1> SUFFICES ASSUME WellFounded, NEW f \in Folders, f \in Descendants(f) PROVE FALSE
  BY DEF Acyclic, OnCycle
<1> DEFINE D == Descendants(f)
<1>1. D \in SUBSET Existing
  BY DEF Descendants, Hanging
<1>2. PICK g \in D : parent[g] \notin D
  BY <1>1 DEF WellFounded
<1>3. D \ {g} \in SUBSET Existing
  BY <1>1
<1>4. ASSUME NEW h \in Existing, parent[h] \in (D \ {g}) \cup {f} PROVE h \in D \ {g}
  <2>1. h \in D
    BY <1>4, HangingClosed DEF Descendants
  <2>2. h # g
    BY <1>2, <1>4
  <2> QED
    BY <2>1, <2>2
<1>5. g \in D \ {g}
  BY <1>2, <1>3, <1>4 DEF Descendants, Hanging
<1> QED
  BY <1>5

LEMMA AllListed == WellFounded /\ NoOrphans => OwnFoldersListed
<1> SUFFICES ASSUME WellFounded, NoOrphans, NEW h \in Existing, h \notin Listed(Existing)
             PROVE  FALSE
  BY DEF OwnFoldersListed, Listed, Hanging
<1>1. PICK g \in Existing \ Listed(Existing) : parent[g] \notin Existing \ Listed(Existing)
  BY DEF WellFounded
<1>2. parent[g] = Root \/ parent[g] \in Existing
  BY DEF NoOrphans, IsPlace, Existing, IsFolder
<1> QED
  BY <1>1, <1>2, HangingClosed DEF Listed

LEMMA InitTree == Init => TreeInv
<1> SUFFICES ASSUME Init PROVE TreeInv
  OBVIOUS
<1>1. ASSUME NEW S \in SUBSET Existing, NEW f \in S, parent[f] \in S
      PROVE  parent[parent[f]] \notin S
  <2>1. f \in Folders /\ parent[f] \in Folders /\ Root \notin S
    BY <1>1, Distinct DEF Existing
  <2> QED
    BY <2>1 DEF Init
<1>2. WellFounded
  BY <1>1 DEF WellFounded
<1> QED
  BY <1>2, InitOrphans DEF TreeInv, Init, Idle, None

\* While no row changes, only the request that moves on is to be looked at.
LEMMA SameTree ==
  ASSUME TreeInv, UNCHANGED parent, NEW r \in Requests,
         \A s \in Requests : s # r => req'[s] = req[s],
         req'[r].op = "move" => MoveSafe(r)'
  PROVE  WellFounded' /\ \A s \in Requests : req'[s].op = "move" => MoveSafe(s)'
<1>1. Existing' = Existing /\ \A f : Descendants(f)' = Descendants(f)
  BY DEF Existing, IsFolder, Descendants, Hanging
<1>2. WellFounded'
  BY <1>1 DEF TreeInv, WellFounded
<1>3. ASSUME NEW s \in Requests, s # r, req'[s].op = "move" PROVE MoveSafe(s)'
  <2>1. MoveSafe(s) /\ req'[s] = req[s]
    BY <1>3 DEF TreeInv
  <2> QED
    BY <1>1, <2>1 DEF MoveSafe
<1> QED
  BY <1>2, <1>3

\* When rows appear as leaves or disappear, nothing that was not below f is.
LEMMA NotBelowStays ==
  ASSUME NEW f, NEW x, x \notin Descendants(f), x \in Existing,
         NEW N, x \notin N,
         \A g \in Existing' : g \in N \/ (g \in Existing /\ parent'[g] = parent[g]),
         \A g \in Existing' : g \notin N => parent[g] \notin N, f \notin N
  PROVE  x \notin Descendants(f)'
<1>1. PICK S \in SUBSET Existing :
        {g \in Existing : parent[g] \in S \cup {f}} \subseteq S /\ x \notin S
  BY DEF Descendants, Hanging
<1> DEFINE T == {g \in Existing' : g \in S \/ g \in N}
<1>2. ASSUME NEW g \in Existing', parent'[g] \in T \cup {f} PROVE g \in T
  <2>1. CASE g \in N
    BY <2>1
  <2>2. CASE g \notin N
    <3>1. g \in Existing /\ parent'[g] = parent[g] /\ parent[g] \notin N
      BY <2>2
    <3>2. parent[g] \in S \cup {f}
      BY <1>2, <3>1
    <3> QED
      BY <1>1, <3>1, <3>2
  <2> QED
    BY <2>1, <2>2
<1>3. T \in SUBSET Existing' /\ x \notin T
  BY <1>1
<1> HIDE DEF T
<1> QED
  BY <1>2, <1>3 DEF Descendants, Hanging

\* MoveWrite: below the moved folder nothing changes, and its new parent is not
\* there.
LEMMA MovedFolder ==
  ASSUME TreeInv, NEW f \in Existing, NEW t \in Places,
         t # f, t \notin Descendants(f), parent' = [parent EXCEPT ![f] = t]
  PROVE  WellFounded'
<1>1. parent \in [Folders -> Places \cup {Unused, Gone}] /\ f \in Folders
  BY DEF TreeInv, OrphanInv, TypeOK, Existing
<1>2. Existing' = Existing
  BY <1>1 DEF Existing, IsFolder
<1> DEFINE D == {f} \cup Descendants(f)
<1>3. ASSUME NEW S \in SUBSET Existing, S # {} PROVE \E g \in S : parent'[g] \notin S
  <2>1. \A g \in S : g # f => parent'[g] = parent[g]
    BY <1>1 DEF Existing
  <2>2. parent'[f] = t
    BY <1>1
  <2>3. CASE f \notin S
    BY <1>3, <2>1, <2>3 DEF TreeInv, WellFounded
  <2>4. CASE f \in S /\ t \notin S
    BY <2>2, <2>4
  <2>5. CASE f \in S /\ t \in S
    <3>1. t \in S \ D /\ S \ D \in SUBSET Existing
      BY <2>5
    <3>2. PICK g \in S \ D : parent[g] \notin S \ D
      BY <3>1 DEF TreeInv, WellFounded
    <3>3. parent[g] \notin D
      BY <3>2, HangingClosed DEF Descendants
    <3> QED
      BY <2>1, <3>2, <3>3
  <2> QED
    BY <2>3, <2>4, <2>5
<1> QED
  BY <1>2, <1>3 DEF WellFounded

LEMMA TreeStep ==
  ASSUME \A r, s \in Movers : r = s
  PROVE  TreeInv /\ [Next]_vars => TreeInv'
<1> SUFFICES ASSUME TreeInv, [Next]_vars
             PROVE  WellFounded' /\ \A s \in Requests : req'[s].op = "move" => MoveSafe(s)'
  BY OrphanStep DEF TreeInv
<1> DEFINE Goal == WellFounded' /\ \A s \in Requests : req'[s].op = "move" => MoveSafe(s)'
<1> SUFFICES Goal
  OBVIOUS
<1>1. TypeOK /\ NoOrphans
  BY DEF TreeInv, OrphanInv
<1>2. ASSUME NEW r \in Requests, Answer(r)
      PROVE  req'[r].op # "move" /\ \A s \in Requests : s # r => req'[s] = req[s]
  BY <1>1, <1>2 DEF Answer, TypeOK, Idle, None
<1>3. ASSUME NEW r \in Requests, Answer(r), UNCHANGED parent PROVE Goal
  BY <1>2, <1>3, SameTree
<1>4. ASSUME NEW r \in Requests, NEW op \in Ops, NEW f \in Folders, Call(r, op, f) PROVE Goal
  <2>1. PICK p \in Places \cup {None} :
          /\ op = "move" => IsPlace(p)
          /\ req' = [req EXCEPT ![r] =
               [Idle EXCEPT !.op = op, !.folder = f, !.to = p, !.pc = IF p = Root THEN "write" ELSE "check"]]
    BY <1>4 DEF Call
  <2>2. /\ req'[r] = [Idle EXCEPT !.op = op, !.folder = f, !.to = p,
                                  !.pc = IF p = Root THEN "write" ELSE "check"]
        /\ \A s \in Requests : s # r => req'[s] = req[s]
    BY <1>1, <2>1 DEF TypeOK
  <2>3. /\ req'[r].op = op /\ req'[r].folder = f /\ req'[r].to = p
        /\ req'[r].pc = "write" => p = Root
    BY <2>2 DEF Idle
  <2>4. parent' = parent /\ IsFolder(f) /\ (op = "move" => r \in Movers)
    BY <1>4 DEF Call
  <2>5. op = "move" => MoveSafe(r)'
    BY <2>1, <2>3, <2>4, Distinct DEF MoveSafe, IsPlace, IsFolder, Existing
  <2> QED
    BY <2>2, <2>3, <2>4, <2>5, SameTree
<1>5. ASSUME NEW r \in Requests, MoveCheck(r) PROVE Goal
  <2>1. CASE Answer(r)
    BY <1>3, <1>5, <2>1 DEF MoveCheck
  <2>2. CASE ~MoveRefused(req[r].folder, req[r].to) /\ req' = [req EXCEPT ![r].pc = "write"]
    <3>1. req[r] \in RequestRecords
      BY <1>1, <1>5, AtType DEF MoveCheck, AllOps
    <3>2. /\ req'[r].folder = req[r].folder /\ req'[r].to = req[r].to
          /\ \A s \in Requests : s # r => req'[s] = req[s]
      BY <1>1, <2>2, <3>1 DEF TypeOK, RequestRecords
    <3>3. MoveSafe(r) /\ parent' = parent
      BY <1>5 DEF TreeInv, MoveCheck, At
    <3>4. Existing' = Existing /\ \A f : Descendants(f)' = Descendants(f)
      BY <3>3 DEF Existing, IsFolder, Descendants, Hanging
    <3>5. MoveSafe(r)'
      BY <2>2, <3>2, <3>3, <3>4 DEF MoveSafe, MoveRefused
    <3> QED
      BY <3>2, <3>3, <3>5, SameTree
  <2> QED
    BY <1>5, <2>1, <2>2 DEF MoveCheck
<1>6. ASSUME NEW r \in Requests, MoveWrite(r) PROVE Goal
  <2>1. CASE UNCHANGED parent
    BY <1>3, <1>6, <2>1 DEF MoveWrite
  <2>2. CASE /\ IsFolder(req[r].folder) /\ IsPlace(req[r].to)
             /\ parent' = [parent EXCEPT ![req[r].folder] = req[r].to]
    <3>1. MoveSafe(r) /\ req[r].pc = "write" /\ Answer(r)
      BY <1>6 DEF TreeInv, MoveWrite, At
    <3>2. \A s \in Requests : req'[s].op # "move"
      BY <1>2, <3>1 DEF TreeInv, MoveSafe
    <3>3. req[r].folder \in Existing /\ req[r].to \in Places
      BY <2>2 DEF Existing, IsFolder, IsPlace, Places
    <3>4. req[r].to # req[r].folder /\ req[r].to \notin Descendants(req[r].folder)
      BY <2>2, <3>1, <3>3, Distinct DEF MoveSafe, IsPlace, Existing, Descendants, Hanging
    <3>5. WellFounded'
      BY <2>2, <3>3, <3>4, MovedFolder
    <3> QED
      BY <3>2, <3>5
  <2> QED
    BY <1>6, <2>1, <2>2 DEF MoveWrite
<1>7. ASSUME NEW r \in Requests, DeleteCommit(r) PROVE Goal
  <2>1. CASE UNCHANGED parent
    BY <1>3, <1>7, <2>1 DEF DeleteCommit
  <2>2. CASE parent' = [f \in Folders |-> IF f \in req[r].ids /\ IsFolder(f) THEN Gone ELSE parent[f]]
    <3>1. \A g \in Existing' : g \in Existing /\ parent'[g] = parent[g]
      BY <2>2, Distinct DEF Existing, IsFolder
    <3>2. WellFounded'
      BY <3>1 DEF TreeInv, WellFounded
    <3>3. ASSUME NEW s \in Requests, req'[s].op = "move" PROVE MoveSafe(s)'
      <4>1. MoveSafe(s) /\ req'[s] = req[s]
        BY <1>2, <1>7, <3>3 DEF DeleteCommit, TreeInv
      <4>2. PICK f, t : f = req[s].folder /\ t = req[s].to
        OBVIOUS
      <4>3. \A g \in Folders : parent[g] # Unused => parent'[g] # Unused
        BY <2>2 DEF Gone, Unused
      <4>4. t \in Existing' /\ req[s].pc = "write" => t # f /\ t \notin Descendants(f)'
        <5> SUFFICES ASSUME t \in Existing', req[s].pc = "write"
                     PROVE  t # f /\ t \notin Descendants(f)'
          OBVIOUS
        <5>1. t \in Existing /\ t # f /\ t \notin Descendants(f)
          BY <3>1, <4>1, <4>2 DEF MoveSafe
        <5>2. PICK N : N = {}
          OBVIOUS
        <5>3. /\ t \notin N /\ f \notin N /\ \A g \in Existing' : g \notin N => parent[g] \notin N
              /\ \A g \in Existing' : g \in N \/ (g \in Existing /\ parent'[g] = parent[g])
          BY <3>1, <5>2
        <5>4. t \notin Descendants(f)'
          BY <5>1, <5>3, NotBelowStays
        <5> QED
          BY <5>1, <5>4
      <4>5. f \in Folders
        BY <1>1, <3>3, <4>1, <4>2 DEF TypeOK, RequestRecords, Idle, None
      <4> QED
        BY <4>1, <4>2, <4>3, <4>4, <4>5 DEF MoveSafe
    <3> QED
      BY <3>2, <3>3
  <2> QED
    BY <1>7, <2>1, <2>2 DEF DeleteCommit
<1>8. ASSUME NEW g \in Folders, NEW p \in Places, CreateFolder(g, p) PROVE Goal
  <2>1. /\ parent[g] = Unused /\ parent'[g] = p /\ IsPlace(p) /\ req' = req
        /\ \A f \in Folders : f # g => parent'[f] = parent[f]
    BY <1>1, <1>8 DEF CreateFolder, TypeOK
  <2>2. g \notin Existing /\ p # g
    BY <2>1, Distinct DEF Existing, IsPlace, IsFolder
  <2>3. \A f \in Existing' : f = g \/ (f \in Existing /\ parent'[f] = parent[f])
    BY <2>1 DEF Existing, IsFolder
  <2>4. \A f \in Existing : parent[f] # g
    BY <1>1, <2>2, Distinct DEF NoOrphans, IsPlace, Existing, IsFolder
  <2>5. ASSUME NEW S \in SUBSET Existing', S # {} PROVE \E f \in S : parent'[f] \notin S
    <3>1. CASE S = {g}
      BY <2>1, <2>2, <3>1
    <3>2. CASE S \ {g} # {}
      <4>1. PICK f \in S \ {g} : parent[f] \notin S \ {g}
        BY <2>3, <3>2 DEF TreeInv, WellFounded
      <4> QED
        BY <2>3, <2>4, <4>1
    <3> QED
      BY <2>5, <3>1, <3>2
  <2>6. ASSUME NEW s \in Requests, req'[s].op = "move" PROVE MoveSafe(s)'
    <3>1. MoveSafe(s) /\ req'[s] = req[s]
      BY <2>1, <2>6 DEF TreeInv
    <3>2. PICK f, t : f = req[s].folder /\ t = req[s].to
      OBVIOUS
    <3>3. f \in Folders
      BY <1>1, <2>6, <3>1, <3>2 DEF TypeOK, RequestRecords, Idle, None
    <3>4. f # g /\ t # g
      BY <2>1, <3>1, <3>2 DEF MoveSafe
    <3>5. t \in Existing' /\ req[s].pc = "write" => t # f /\ t \notin Descendants(f)'
      <4> SUFFICES ASSUME t \in Existing', req[s].pc = "write"
                   PROVE  t # f /\ t \notin Descendants(f)'
        OBVIOUS
      <4>1. t \in Existing /\ t # f /\ t \notin Descendants(f)
        BY <2>3, <3>1, <3>2, <3>4 DEF MoveSafe
      <4>2. \A h \in Existing' : h \in {g} \/ (h \in Existing /\ parent'[h] = parent[h])
        BY <2>3
      <4>3. t \notin {g} /\ f \notin {g} /\ \A h \in Existing' : h \notin {g} => parent[h] \notin {g}
        BY <2>3, <2>4, <3>4
      <4>4. t \notin Descendants(f)'
        BY <4>1, <4>2, <4>3, NotBelowStays
      <4> QED
        BY <4>1, <4>4
    <3> QED
      BY <2>1, <3>1, <3>2, <3>3, <3>4, <3>5 DEF MoveSafe
  <2> QED
    BY <2>5, <2>6 DEF WellFounded
<1>9. ASSUME NEW r \in Requests, DeleteCollect(r) \/ DeleteEntries(r) PROVE Goal
  <2>1. parent' = parent /\ req[r].op = "delete"
    BY <1>9 DEF DeleteCollect, DeleteEntries, At
  <2>2. req[r] \in RequestRecords
    BY <1>1, <1>9, AtType DEF DeleteCollect, DeleteEntries, AllOps
  <2>3. CASE Answer(r)
    BY <1>3, <2>1, <2>3
  <2>4. CASE DeleteEntries(r)
    <3>1. req' = [req EXCEPT ![r] = [req[r] EXCEPT !.pc = "commit", !.del = Doomed(r)]]
      BY <2>4 DEF DeleteEntries
    <3>2. req'[r].op = "delete" /\ \A s \in Requests : s # r => req'[s] = req[s]
      BY <1>1, <2>1, <2>2, <3>1 DEF TypeOK, RequestRecords
    <3> QED
      BY <2>1, <3>2, SameTree
  <2>5. CASE DeleteCollect(r) /\ ~Answer(r)
    <3>1. PICK I : req' = [req EXCEPT ![r] = [req[r] EXCEPT !.pc = "entries", !.ids = I]]
      BY <2>5 DEF DeleteCollect
    <3>2. req'[r].op = "delete" /\ \A s \in Requests : s # r => req'[s] = req[s]
      BY <1>1, <2>1, <2>2, <3>1 DEF TypeOK, RequestRecords
    <3> QED
      BY <2>1, <3>2, SameTree
  <2> QED
    BY <1>9, <2>3, <2>4, <2>5
<1>10. ASSUME NEW r \in Requests, Die(r) PROVE Goal
  BY <1>3, <1>10 DEF Die
<1>11. CASE UNCHANGED <<parent, req>>
  <2>1. Existing' = Existing /\ \A f : Descendants(f)' = Descendants(f)
    BY <1>11 DEF Existing, IsFolder, Descendants, Hanging
  <2>2. WellFounded'
    BY <1>11, <2>1 DEF TreeInv, WellFounded
  <2>3. \A s \in Requests : req'[s].op = "move" => MoveSafe(s)'
    BY <1>11, <2>1 DEF TreeInv, MoveSafe
  <2> QED
    BY <2>2, <2>3
<1>12. ASSUME NEW f \in Folders, Share(f) \/ Revoke(f) PROVE Goal
  BY <1>11, <1>12 DEF Share, Revoke
<1>13. ASSUME NEW e \in Entries, NEW p \in Places, MoveEntry(e, p) PROVE Goal
  BY <1>11, <1>13 DEF MoveEntry
<1>14. CASE UNCHANGED vars
  BY <1>11, <1>14 DEF vars
<1> HIDE DEF Goal
<1>15. ASSUME NEW r \in Requests, Handle(r) \/ Die(r) PROVE Goal
  BY <1>5, <1>6, <1>7, <1>9, <1>10, <1>15 DEF Handle
<1>16. CASE \E r \in Requests : \/ \E op \in Ops, f \in Folders : Call(r, op, f)
                                \/ Handle(r) \/ Die(r)
  BY <1>4, <1>15, <1>16
<1>17. CASE \E f \in Folders : Share(f) \/ Revoke(f) \/ \E p \in Places : CreateFolder(f, p)
  BY <1>8, <1>12, <1>17
<1>18. CASE \E e \in Entries, p \in Places : MoveEntry(e, p)
  BY <1>13, <1>18
<1> QED
  BY <1>14, <1>16, <1>17, <1>18 DEF Next

\* The guard of UpdateFolder and its UPDATE are two statements, and between them
\* folders are created, deleted and shared; while no two requests move folders at
\* once, no folder ever comes to lie below itself.
THEOREM TreeStaysATree ==
  ASSUME \A r, s \in Movers : r = s
  PROVE  Spec => []Acyclic
<1>1. TreeInv => Acyclic
  BY NoneBelowItself DEF TreeInv
<1> QED
  BY <1>1, InitTree, TreeStep, PTL DEF Spec

\* Under the same assumption ListFolders shows the owner every folder.
THEOREM NothingHidden ==
  ASSUME \A r, s \in Movers : r = s
  PROVE  Spec => []OwnFoldersListed
<1>1. TreeInv => OwnFoldersListed
  BY AllListed DEF TreeInv, OrphanInv
<1> QED
  BY <1>1, InitTree, TreeStep, PTL DEF Spec

-----------------------------------------------------------------------------
(***************************************************************************)
(* The requests act as single steps on a forest: MoveWrite is Forest's     *)
(* Move, DeleteCommit its Delete of the collected folders that still       *)
(* exist, and the statements before them change nothing.                   *)
(***************************************************************************)

LEMMA SameRows ==
  /\ Trees!Live = Existing
  /\ \A p \in Places : IsPlace(p) <=> p \in Trees!Live \cup {Root}
  BY Distinct DEF Trees!Live, Trees!Places, Existing, IsFolder, IsPlace, Places

\* Forest's branch of a folder is the folder and what descends from it.
LEMMA OutsideTheBranch ==
  ASSUME NEW f \in Existing, NEW p, p # f, p \notin Descendants(f)
  PROVE  p \notin Trees!Branch(f)
<1> SUFFICES ASSUME p \in Existing PROVE p \notin Trees!Branch(f)
  BY SameRows DEF Trees!Branch
<1>1. PICK S \in SUBSET Existing :
        {g \in Existing : parent[g] \in S \cup {f}} \subseteq S /\ p \notin S
  BY DEF Descendants, Hanging
<1>2. PICK T \in SUBSET Existing : T = S \cup {f}
  OBVIOUS
<1>3. f \in T /\ {g \in Existing : parent[g] \in T} \subseteq T /\ p \notin T
  BY <1>1, <1>2
<1> QED
  BY <1>2, <1>3, SameRows DEF Trees!Branch

LEMMA InitForest == Init => Trees!Init
<1> SUFFICES ASSUME Init PROVE Trees!Init
  OBVIOUS
<1>1. TreeInv
  BY InitTree
<1>2. \A f \in Existing : parent[f] \in Existing \cup {Root}
  BY <1>1 DEF TreeInv, OrphanInv, NoOrphans, IsPlace, Existing, IsFolder
<1>3. filed \in [Entries -> Existing \cup {Root}]
  BY DEF Init, IsPlace, Existing, IsFolder
<1>4. parent \in [Folders -> Trees!Places \cup {Unused}] /\ shared = {}
  BY DEF Init, Trees!Places, Places
<1> QED
  BY <1>1, <1>2, <1>3, <1>4, SameRows DEF Trees!Init, TreeInv, WellFounded

LEMMA MoveWriteIsAMove ==
  ASSUME TreeInv, NEW r \in Requests, MoveWrite(r)
  PROVE  \/ \E f \in Folders, p \in Trees!Places : Trees!Move(f, p)
         \/ UNCHANGED <<parent, filed, shared>>
<1>1. UNCHANGED <<filed, shared>>
  BY DEF MoveWrite
<1>2. CASE UNCHANGED parent
  BY <1>1, <1>2
<1>3. CASE /\ IsFolder(req[r].folder) /\ IsPlace(req[r].to)
           /\ parent' = [parent EXCEPT ![req[r].folder] = req[r].to]
  <2>1. PICK f \in Existing, p \in Places : f = req[r].folder /\ p = req[r].to
    BY <1>3 DEF Existing, IsPlace, IsFolder, Places
  <2>2. MoveSafe(r) /\ req[r].pc = "write"
    BY DEF TreeInv, MoveWrite, At
  <2>3. p # f /\ p \notin Descendants(f)
    BY <1>3, <2>1, <2>2, Distinct DEF MoveSafe, IsPlace, Existing, Descendants, Hanging
  <2>4. p \notin Trees!Branch(f)
    BY <2>3, OutsideTheBranch
  <2>5. Trees!Move(f, p)
    BY <1>1, <1>3, <2>1, <2>4, SameRows DEF Trees!Move
  <2> QED
    BY <2>1, <2>5 DEF Existing, Trees!Places, Places
<1> QED
  BY <1>2, <1>3 DEF MoveWrite

LEMMA DeleteCommitIsADelete ==
  ASSUME OrphanInv, DeletionInv, NEW r \in Requests, DeleteCommit(r)
  PROVE  \/ \E S \in SUBSET Trees!Live : Trees!Delete(S)
         \/ UNCHANGED <<parent, filed, shared>>
<1> SUFFICES ASSUME NoneLeftInside(r),
               parent' = [f \in Folders |-> IF f \in req[r].ids /\ IsFolder(f) THEN Gone ELSE parent[f]],
               filed' = [e \in Entries |-> IF e \in req[r].del THEN Gone ELSE filed[e]],
               shared' = shared \ req[r].ids
             PROVE  \/ \E S \in SUBSET Trees!Live : Trees!Delete(S)
                    \/ UNCHANGED <<parent, filed, shared>>
  BY DEF DeleteCommit
<1>1. req[r].ids \subseteq Folders /\ TypeOK /\ NoOrphans
  BY DEF OrphanInv, TypeOK, RequestRecords, Idle
<1>2. PICK S \in SUBSET Existing : S = req[r].ids \cap Existing
  OBVIOUS
<1>3. parent' = [f \in Folders |-> IF f \in S THEN Gone ELSE parent[f]]
  BY <1>2 DEF Existing
<1>4. ASSUME NEW e \in Entries PROVE e \in req[r].del <=> filed[e] \in S
  <2>1. ASSUME filed[e] \in req[r].ids PROVE filed[e] \in S
    BY <1>1, <1>2, <2>1, Distinct DEF NoOrphans, IsEntry, IsPlace, Places, Existing
  <2>2. e \in req[r].del => filed[e] \in req[r].ids
    BY DEF DeletionInv
  <2>3. filed[e] \in S => e \in req[r].del
    BY <1>2 DEF NoneLeftInside
  <2> QED
    BY <2>1, <2>2, <2>3
<1>5. filed' = [e \in Entries |-> IF filed[e] \in S THEN Gone ELSE filed[e]]
  BY <1>4
<1>6. shared \subseteq Existing
  BY <1>1 DEF NoOrphans, TypeOK, Existing
<1>7. shared' = shared \ S
  BY <1>2, <1>6
<1>8. \A f \in Existing \ S : parent[f] \notin S
  BY <1>2 DEF NoneLeftInside, Existing
<1>9. CASE S = {}
  <2>1. parent' = parent /\ filed' = filed /\ shared' = shared
    BY <1>1, <1>3, <1>5, <1>7, <1>9 DEF TypeOK
  <2> QED
    BY <2>1
<1>10. CASE S # {}
  <2>1. Trees!Delete(S)
    BY <1>3, <1>5, <1>7, <1>8, <1>10, SameRows DEF Trees!Delete
  <2> QED
    BY <2>1, SameRows
<1> QED
  BY <1>9, <1>10

LEMMA ForestStep ==
  ASSUME TreeInv, DeletionInv, [Next]_vars
  PROVE  [Trees!Next]_<<parent, filed, shared>>
<1> DEFINE Goal == Trees!Next \/ UNCHANGED <<parent, filed, shared>>
<1> SUFFICES Goal
  OBVIOUS
<1> USE DEF TreeInv
<1>1. TypeOK /\ NoOrphans
  BY DEF OrphanInv
<1>2. ASSUME NEW r \in Requests, Handle(r) \/ Die(r) PROVE Goal
  <2>1. CASE MoveWrite(r)
    BY <2>1, MoveWriteIsAMove DEF Trees!Next
  <2>2. CASE DeleteCommit(r)
    BY <2>2, DeleteCommitIsADelete DEF Trees!Next
  <2>3. CASE MoveCheck(r) \/ DeleteCollect(r) \/ DeleteEntries(r) \/ Die(r)
    BY <2>3 DEF MoveCheck, DeleteCollect, DeleteEntries, Die
  <2> QED
    BY <1>2, <2>1, <2>2, <2>3 DEF Handle
<1>3. ASSUME NEW r \in Requests, NEW op \in Ops, NEW f \in Folders, Call(r, op, f) PROVE Goal
  BY <1>3 DEF Call
<1>4. ASSUME NEW f \in Folders, Share(f) \/ Revoke(f) PROVE Goal
  <2>1. f \in Trees!Live
    BY <1>1, <1>4, SameRows DEF Share, Revoke, NoOrphans, Existing
  <2>2. Trees!Share(f) \/ Trees!Revoke(f)
    BY <1>4 DEF Share, Revoke, Trees!Share, Trees!Revoke
  <2> QED
    BY <2>1, <2>2 DEF Trees!Next
<1>5. ASSUME NEW f \in Folders, NEW p \in Places, CreateFolder(f, p) PROVE Goal
  <2>1. Trees!Create(f, p)
    BY <1>5, SameRows DEF CreateFolder, Trees!Create
  <2> QED
    BY <2>1 DEF Trees!Next, Trees!Places, Places
<1>6. ASSUME NEW e \in Entries, NEW p \in Places, MoveEntry(e, p) PROVE Goal
  <2>1. filed[e] # Gone
    BY <1>6, Distinct DEF MoveEntry, IsEntry
  <2>2. Trees!File(e, p)
    BY <1>6, <2>1, SameRows DEF MoveEntry, Trees!File
  <2> QED
    BY <2>2 DEF Trees!Next, Trees!Places, Places
<1>7. CASE UNCHANGED vars
  BY <1>7 DEF vars
<1> HIDE DEF Goal
<1> QED
  BY <1>2, <1>3, <1>4, <1>5, <1>6, <1>7 DEF Next

\* While no two requests move folders at once, the folder requests implement Forest:
\* whatever is checked, collected or locked too early, each takes effect as one step that
\* moves no folder below itself and deletes whole branches with their entries.
THEOREM FoldersImplementForest ==
  ASSUME \A r, s \in Movers : r = s
  PROVE  Spec => RequestsActAtOnce
<1>1. Init => TreeInv /\ DeletionInv /\ Trees!Init
  BY InitTree, InitDeletion, InitForest
<1>2. TreeInv /\ DeletionInv /\ [Next]_vars => (TreeInv /\ DeletionInv)'
  BY TreeStep, DeletionStep DEF TreeInv, OrphanInv
<1>3. TreeInv /\ DeletionInv /\ [Next]_vars => [Trees!Next]_<<parent, filed, shared>>
  BY ForestStep
<1> QED
  BY <1>1, <1>2, <1>3, PTL DEF Spec, RequestsActAtOnce, Trees!Spec
=============================================================================
