-------------------------------- MODULE Forest --------------------------------
(***************************************************************************)
(* What the folder requests promise together: each of them, however many   *)
(* statements it takes, acts as one step on a forest.  A move never puts a *)
(* folder below itself; a deletion takes whole branches, exactly the       *)
(* entries filed in them and the permissions on them.                      *)
(***************************************************************************)
CONSTANTS Folders, Entries, Root, Unused, Gone

VARIABLES parent, filed, shared

Places == Folders \cup {Root}

Live == {f \in Folders : parent[f] \in Places}

\* The folder and everything below it: what is in every set that holds the folder
\* and the children of its own members.
Branch(f) ==
  {g \in Live : \A S \in SUBSET Live :
                  f \in S /\ {h \in Live : parent[h] \in S} \subseteq S => g \in S}

Init ==
  /\ parent \in [Folders -> Places \cup {Unused}]
  /\ \A f \in Live : parent[f] \in Live \cup {Root}
  /\ \A S \in SUBSET Live : S # {} => \E f \in S : parent[f] \notin S
  /\ filed \in [Entries -> Live \cup {Root}]
  /\ shared = {}

Create(f, p) ==
  /\ parent[f] = Unused
  /\ p \in Live \cup {Root}
  /\ parent' = [parent EXCEPT ![f] = p]
  /\ UNCHANGED <<filed, shared>>

Move(f, p) ==
  /\ f \in Live
  /\ p \in (Live \cup {Root}) \ Branch(f)
  /\ parent' = [parent EXCEPT ![f] = p]
  /\ UNCHANGED <<filed, shared>>

\* Nothing that stays hangs below what goes.
Delete(S) ==
  /\ S # {}
  /\ \A f \in Live \ S : parent[f] \notin S
  /\ parent' = [f \in Folders |-> IF f \in S THEN Gone ELSE parent[f]]
  /\ filed' = [e \in Entries |-> IF filed[e] \in S THEN Gone ELSE filed[e]]
  /\ shared' = shared \ S

File(e, p) ==
  /\ filed[e] # Gone
  /\ p \in Live \cup {Root}
  /\ filed' = [filed EXCEPT ![e] = p]
  /\ UNCHANGED <<parent, shared>>

Share(f) == shared' = shared \cup {f} /\ UNCHANGED <<parent, filed>>

Revoke(f) == shared' = shared \ {f} /\ UNCHANGED <<parent, filed>>

Next ==
  \/ \E f \in Folders, p \in Places : Create(f, p) \/ Move(f, p)
  \/ \E S \in SUBSET Live : Delete(S)
  \/ \E e \in Entries, p \in Places : File(e, p)
  \/ \E f \in Live : Share(f) \/ Revoke(f)

Spec == Init /\ [][Next]_<<parent, filed, shared>>
=============================================================================
