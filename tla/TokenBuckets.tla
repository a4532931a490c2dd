----------------------------- MODULE TokenBuckets -----------------------------
(***************************************************************************)
(* What a rate limit promises: every client has a bucket that no one       *)
(* forgets.  A request passes exactly when the bucket holds a token, which *)
(* it takes; the clock puts one back in every bucket that is not full.     *)
(* Only a restart of the server fills them.                                *)
(***************************************************************************)
EXTENDS Naturals

CONSTANTS Clients, Burst

VARIABLES level, boots

Full == [c \in Clients |-> Burst]

Init == level = Full /\ boots = 0

Pass(c) ==
  /\ level[c] >= 1
  /\ level' = [level EXCEPT ![c] = @ - 1]
  /\ UNCHANGED boots

Refill ==
  /\ level' = [c \in Clients |-> IF level[c] < Burst THEN level[c] + 1 ELSE Burst]
  /\ UNCHANGED boots

Restart == level' = Full /\ boots' = boots + 1

Next == (\E c \in Clients : Pass(c)) \/ Refill \/ Restart

Spec == Init /\ [][Next]_<<level, boots>>
=============================================================================
