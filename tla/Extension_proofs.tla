------------------------- MODULE Extension_proofs --------------------------
(***************************************************************************)
(* Proofs about Extension, for any numbers of tries, tokens and ends of    *)
(* the worker.                                                             *)
(***************************************************************************)
EXTENDS Extension, TLAPS

\* What a step makes of a refresh is a refresh again.
LEMMA RefreshRecords ==
  ASSUME NEW r \in RefreshType
  PROVE  /\ NoRefresh \in RefreshType
         /\ r.old \in Nat /\ r.new \in Nat
         /\ [r EXCEPT !.pc = "refused"] \in RefreshType
         /\ [r EXCEPT !.pc = "saved"] \in RefreshType
         /\ \A n \in Nat : [r EXCEPT !.pc = "rotated", !.new = n] \in RefreshType
         /\ \A n \in Nat : [pc |-> "sent", old |-> n, new |-> NoToken] \in RefreshType
  BY DEF RefreshType, NoRefresh, NoToken

\* The same of an unlock.
LEMMA UnlockRecords ==
  ASSUME NEW u \in UnlockType
  PROVE  /\ NoUnlock \in UnlockType
         /\ u.count \in Nat
         /\ [u EXCEPT !.other = TRUE] \in UnlockType
         /\ \A s \in {"waiting", "trying", "arming", "listing"} :
              [u EXCEPT !.pc = s] \in UnlockType
         /\ [NoUnlock EXCEPT !.pc = "deriving"] \in UnlockType
         /\ \A n \in Nat :
              [pc |-> "counting", by |-> "pin", count |-> n, other |-> FALSE] \in UnlockType
  <1>1. NoUnlock \in UnlockType /\ [NoUnlock EXCEPT !.pc = "deriving"] \in UnlockType
    BY DEF UnlockType, NoUnlock
  <1>2. u.count \in Nat /\ [u EXCEPT !.other = TRUE] \in UnlockType
    BY DEF UnlockType
  <1>3. ASSUME NEW s \in {"waiting", "trying", "arming", "listing"}
        PROVE  [u EXCEPT !.pc = s] \in UnlockType
    BY DEF UnlockType
  <1>4. ASSUME NEW n \in Nat
        PROVE  [pc |-> "counting", by |-> "pin", count |-> n, other |-> FALSE] \in UnlockType
    BY DEF UnlockType
  <1> QED
    BY <1>1, <1>2, <1>3, <1>4

\* The same of the PIN record and of a logout.
LEMMA OtherRecords ==
  ASSUME NEW p \in PinType, NEW l \in LogoutType
  PROVE  /\ NoPin \in PinType /\ NoLogout \in LogoutType
         /\ p.count \in Nat /\ p.on \in BOOLEAN /\ l.token \in Nat
         /\ [on |-> TRUE, count |-> 0] \in PinType
         /\ \A n \in Nat : [p EXCEPT !.count = n] \in PinType
         /\ [l EXCEPT !.pc = "revoked"] \in LogoutType
         /\ \A n \in Nat : [pc |-> "revoking", token |-> n] \in LogoutType
  BY DEF PinType, LogoutType, NoPin, NoLogout, NoToken


\* Every step keeps the types.
LEMMA TypeStep ==
  TypeOK /\ [Next]_vars => TypeOK'
  <1> SUFFICES ASSUME TypeOK, [Next]_vars PROVE TypeOK'
    OBVIOUS
  <1>r. /\ NoRefresh \in RefreshType
        /\ refresh.old \in Nat /\ refresh.new \in Nat
        /\ [refresh EXCEPT !.pc = "refused"] \in RefreshType
        /\ [refresh EXCEPT !.pc = "saved"] \in RefreshType
        /\ \A n \in Nat : [refresh EXCEPT !.pc = "rotated", !.new = n] \in RefreshType
        /\ \A n \in Nat : [pc |-> "sent", old |-> n, new |-> NoToken] \in RefreshType
    BY RefreshRecords DEF TypeOK
  <1>u. /\ NoUnlock \in UnlockType
        /\ unlock.count \in Nat
        /\ [unlock EXCEPT !.other = TRUE] \in UnlockType
        /\ \A s \in {"waiting", "trying", "arming", "listing"} :
             [unlock EXCEPT !.pc = s] \in UnlockType
        /\ [NoUnlock EXCEPT !.pc = "deriving"] \in UnlockType
        /\ \A n \in Nat :
             [pc |-> "counting", by |-> "pin", count |-> n, other |-> FALSE] \in UnlockType
    BY UnlockRecords DEF TypeOK
  <1>o. /\ NoPin \in PinType /\ NoLogout \in LogoutType
        /\ pin.count \in Nat /\ pin.on \in BOOLEAN /\ logout.token \in Nat
        /\ [on |-> TRUE, count |-> 0] \in PinType
        /\ \A n \in Nat : [pin EXCEPT !.count = n] \in PinType
        /\ [logout EXCEPT !.pc = "revoked"] \in LogoutType
        /\ \A n \in Nat : [pc |-> "revoking", token |-> n] \in LogoutType
    BY OtherRecords DEF TypeOK
  <1> USE ExtensionConstants DEF ExtensionConstants, TypeOK, NoToken
  <1>1. CASE WantToken
    <2>1. /\ mem' \in BOOLEAN /\ stored' \in BOOLEAN /\ restoring' \in BOOLEAN
          /\ idle' \in BOOLEAN
          /\ limit' \in BOOLEAN /\ change' \in BOOLEAN /\ alarm' \in BOOLEAN
          /\ account' \in BOOLEAN
          /\ opened' \in BOOLEAN /\ cut' \in BOOLEAN /\ lost' \in BOOLEAN
      BY <1>1 DEF WantToken, Send, SignedIn, EndLogin, LockVault, Ready, session, login,
        server, setting
    <2>2. issued' \in Nat /\ kills' \in Nat
      BY <1>1 DEF WantToken, Send, SignedIn, EndLogin, LockVault, Ready, session, login,
        server, setting
    <2>3. token' \in Nat /\ guesses' \in Nat
      <3>1. token' \in Nat
        BY <1>1 DEF WantToken, Send, EndLogin, login
      <3>2. guesses' \in Nat
        BY <1>1, guesses + 1 \in Nat DEF WantToken
      <3> QED
        BY <3>1, <3>2
    <2>4. accepted' \subseteq Nat /\ retired' \subseteq Nat
      BY <1>1, <2>2, <1>r DEF WantToken, Send, SignedIn, EndLogin, LockVault, Ready, session,
        login, server, setting
    <2>5. /\ pin' \in PinType /\ refresh' \in RefreshType
          /\ unlock' \in UnlockType /\ logout' \in LogoutType
      BY <1>1, <1>r, <1>u, <1>o, <2>2
        DEF WantToken, Send, SignedIn, EndLogin, LockVault, Ready, session, login, server,
          setting
    <2> QED
      BY <2>1, <2>2, <2>3, <2>4, <2>5
  <1>2. CASE SaveToken
    BY <1>2, <1>r, <1>u, <1>o DEF SaveToken, Follow, session, login, server, setting
  <1>3. CASE UseToken
    BY <1>3, <1>r, <1>u, <1>o DEF UseToken, session, login, server, setting
  <1>4. CASE RefreshFails
    BY <1>4, <1>r, <1>u, <1>o DEF RefreshFails, session, login, server, setting
  <1>5. CASE SignOut
    BY <1>5, <1>r, <1>u, <1>o DEF SignOut, EndLogin, LockVault, session, login, server, setting
  <1>6. CASE StartUnlock
    BY <1>6, <1>r, <1>u, <1>o DEF StartUnlock, Ready, SignedIn, session, login, server, setting
  <1>7. CASE Derive
    <2>1. /\ mem' \in BOOLEAN /\ stored' \in BOOLEAN /\ restoring' \in BOOLEAN
          /\ idle' \in BOOLEAN
          /\ limit' \in BOOLEAN /\ change' \in BOOLEAN /\ alarm' \in BOOLEAN
          /\ account' \in BOOLEAN
          /\ opened' \in BOOLEAN /\ cut' \in BOOLEAN /\ lost' \in BOOLEAN
      BY <1>7 DEF Derive, Build, Send, SignedIn, EndLogin, LockVault, session, login, server,
        setting
    <2>2. issued' \in Nat /\ kills' \in Nat
      BY <1>7 DEF Derive, Build, Send, SignedIn, EndLogin, LockVault, session, login, server,
        setting
    <2>3. token' \in Nat /\ guesses' \in Nat
      <3>1. token' \in Nat
        BY <1>7 DEF Derive, Build, Send, EndLogin, login
      <3>2. guesses' \in Nat
        BY <1>7, guesses + 1 \in Nat DEF Derive
      <3> QED
        BY <3>1, <3>2
    <2>4. accepted' \subseteq Nat /\ retired' \subseteq Nat
      BY <1>7, <2>2, <1>r DEF Derive, Build, Send, SignedIn, EndLogin, LockVault, session,
        login, server, setting
    <2>5. /\ pin' \in PinType /\ refresh' \in RefreshType
          /\ unlock' \in UnlockType /\ logout' \in LogoutType
      BY <1>7, <1>r, <1>u, <1>o, <2>2
        DEF Derive, Build, Send, SignedIn, EndLogin, LockVault, session, login, server, setting
    <2> QED
      BY <2>1, <2>2, <2>3, <2>4, <2>5
  <1>8. CASE StartPin
    BY <1>8, <1>r, <1>u, <1>o DEF StartPin, Ready, SignedIn, session, login, server, setting
  <1>9. CASE CountAttempt
    <2>1. /\ mem' \in BOOLEAN /\ stored' \in BOOLEAN /\ restoring' \in BOOLEAN
          /\ idle' \in BOOLEAN
          /\ limit' \in BOOLEAN /\ change' \in BOOLEAN /\ alarm' \in BOOLEAN
          /\ account' \in BOOLEAN
          /\ opened' \in BOOLEAN /\ cut' \in BOOLEAN /\ lost' \in BOOLEAN
      BY <1>9 DEF CountAttempt, session, login, server, setting
    <2>2. issued' \in Nat /\ kills' \in Nat
      BY <1>9 DEF CountAttempt, session, login, server, setting
    <2>3. token' \in Nat /\ guesses' \in Nat
      BY <1>9, <2>2, <1>r DEF CountAttempt, session, login, server, setting
    <2>4. accepted' \subseteq Nat /\ retired' \subseteq Nat
      BY <1>9, <2>2, <1>r DEF CountAttempt, session, login, server, setting
    <2>5. /\ pin' \in PinType /\ refresh' \in RefreshType
          /\ unlock' \in UnlockType /\ logout' \in LogoutType
      <3>1. unlock.count + 1 \in Nat
        BY <1>u
      <3>2. [pin EXCEPT !.count = unlock.count + 1] \in PinType
        BY <3>1, <1>o
      <3>3. [unlock EXCEPT !.pc = "trying"] \in UnlockType
        BY <1>u
      <3> QED
        BY <1>9, <3>2, <3>3 DEF CountAttempt
    <2> QED
      BY <2>1, <2>2, <2>3, <2>4, <2>5
  <1>10. CASE TryPin
    <2>1. /\ mem' \in BOOLEAN /\ stored' \in BOOLEAN /\ restoring' \in BOOLEAN
          /\ idle' \in BOOLEAN
          /\ limit' \in BOOLEAN /\ change' \in BOOLEAN /\ alarm' \in BOOLEAN
          /\ account' \in BOOLEAN
          /\ opened' \in BOOLEAN /\ cut' \in BOOLEAN /\ lost' \in BOOLEAN
      <3>1. UNCHANGED <<restoring, setting, lost>>
        BY <1>10 DEF TryPin
      <3>2. UNCHANGED <<session, login>> \/ EndLogin \/ (LockVault /\ UNCHANGED account)
        BY <1>10 DEF TryPin, Build
      <3> QED
        BY <3>1, <3>2 DEF EndLogin, LockVault, session, login, setting
    <2>2. issued' \in Nat /\ kills' \in Nat
      BY <1>10 DEF TryPin, Build, Send, SignedIn, EndLogin, LockVault, LastTry, session,
        login, server, setting
    <2>3. token' \in Nat /\ guesses' \in Nat
      <3>1. token' \in Nat
        BY <1>10 DEF TryPin, Build, Send, EndLogin, login
      <3>2. guesses' \in Nat
        BY <1>10, guesses + 1 \in Nat DEF TryPin
      <3> QED
        BY <3>1, <3>2
    <2>4. accepted' \subseteq Nat /\ retired' \subseteq Nat
      BY <1>10, <2>2, <1>r DEF TryPin, Build, Send, SignedIn, EndLogin, LockVault, LastTry,
        session, login, server, setting
    <2>5. /\ pin' \in PinType /\ refresh' \in RefreshType
          /\ unlock' \in UnlockType /\ logout' \in LogoutType
      BY <1>10, <1>r, <1>u, <1>o, <2>2
        DEF TryPin, Build, Send, SignedIn, EndLogin, LockVault, LastTry, session, login,
          server, setting
    <2> QED
      BY <2>1, <2>2, <2>3, <2>4, <2>5
  <1>11. CASE Arm
    BY <1>11, <1>r, <1>u, <1>o DEF Arm, session, login, server, setting
  <1>12. CASE EndUnlock
    <2>1. /\ mem' \in BOOLEAN /\ stored' \in BOOLEAN /\ restoring' \in BOOLEAN
          /\ idle' \in BOOLEAN
          /\ limit' \in BOOLEAN /\ change' \in BOOLEAN /\ alarm' \in BOOLEAN
          /\ account' \in BOOLEAN
          /\ opened' \in BOOLEAN /\ cut' \in BOOLEAN /\ lost' \in BOOLEAN
      BY <1>12 DEF EndUnlock, SignedIn, session, login, server, setting
    <2>2. issued' \in Nat /\ kills' \in Nat
      BY <1>12 DEF EndUnlock, SignedIn, session, login, server, setting
    <2>3. token' \in Nat /\ guesses' \in Nat
      <3>1. token' \in Nat
        BY <1>12 DEF EndUnlock
      <3>2. guesses' \in Nat
        BY <1>12, guesses + 1 \in Nat DEF EndUnlock
      <3> QED
        BY <3>1, <3>2
    <2>4. accepted' \subseteq Nat /\ retired' \subseteq Nat
      BY <1>12, <2>2, <1>r DEF EndUnlock, SignedIn, session, login, server, setting
    <2>5. /\ pin' \in PinType /\ refresh' \in RefreshType
          /\ unlock' \in UnlockType /\ logout' \in LogoutType
      BY <1>12, <1>r, <1>u, <1>o, <2>2 DEF EndUnlock, SignedIn, session, login, server, setting
    <2> QED
      BY <2>1, <2>2, <2>3, <2>4, <2>5
  <1>13. CASE Login
    <2>1. /\ mem' \in BOOLEAN /\ stored' \in BOOLEAN /\ restoring' \in BOOLEAN
          /\ idle' \in BOOLEAN
          /\ limit' \in BOOLEAN /\ change' \in BOOLEAN /\ alarm' \in BOOLEAN
          /\ account' \in BOOLEAN
          /\ opened' \in BOOLEAN /\ cut' \in BOOLEAN /\ lost' \in BOOLEAN
      BY <1>13 DEF Login, Follow, Ready, SignedIn, session, login, server, setting
    <2>2. issued' \in Nat /\ kills' \in Nat
      BY <1>13 DEF Login, Follow, Ready, SignedIn, session, login, server, setting
    <2>3. token' \in Nat /\ guesses' \in Nat
      BY <1>13, <2>2, <1>r DEF Login, Follow, Ready, SignedIn, session, login, server, setting
    <2>4. accepted' \subseteq Nat /\ retired' \subseteq Nat
      BY <1>13, <2>2, <1>r DEF Login, Follow, Ready, SignedIn, session, login, server, setting
    <2>5. /\ pin' \in PinType /\ refresh' \in RefreshType
          /\ unlock' \in UnlockType /\ logout' \in LogoutType
      BY <1>13, <1>r, <1>u, <1>o, <2>2 DEF Login, Follow, Ready, SignedIn, session, login,
        server, setting
    <2> QED
      BY <2>1, <2>2, <2>3, <2>4, <2>5
  <1>14. CASE SetPin
    BY <1>14, <1>r, <1>u, <1>o DEF SetPin, Ready, SignedIn, session, login, server, setting
  <1>15. CASE DisablePin
    BY <1>15, <1>r, <1>u, <1>o DEF DisablePin, Ready, session, login, server, setting
  <1>16. CASE Lock
    BY <1>16, <1>r, <1>u, <1>o DEF Lock, Ready, LockVault, session, login, server, setting
  <1>17. CASE StartLogout
    BY <1>17, <1>r, <1>u, <1>o DEF StartLogout, Ready, SignedIn, session, login, server, setting
  <1>18. CASE FinishLogout
    BY <1>18, <1>r, <1>u, <1>o DEF FinishLogout, EndLogin, LockVault, session, login, server,
      setting
  <1>19. CASE Use
    BY <1>19, <1>r, <1>u, <1>o DEF Use, Ready, session, login, server, setting
  <1>20. CASE SetLimit
    BY <1>20, <1>r, <1>u, <1>o DEF SetLimit, Ready, session, login, server, setting
  <1>32. CASE Rearm
    BY <1>32, <1>r, <1>u, <1>o DEF Rearm, Ready, session, login, server, setting
  <1>21. CASE Rotate
    <2>1. /\ mem' \in BOOLEAN /\ stored' \in BOOLEAN /\ restoring' \in BOOLEAN
          /\ idle' \in BOOLEAN
          /\ limit' \in BOOLEAN /\ change' \in BOOLEAN /\ alarm' \in BOOLEAN
          /\ account' \in BOOLEAN
          /\ opened' \in BOOLEAN /\ cut' \in BOOLEAN /\ lost' \in BOOLEAN
      BY <1>21 DEF Rotate, session, login, server, setting
    <2>2. issued' \in Nat /\ kills' \in Nat
      BY <1>21 DEF Rotate, session, login, server, setting
    <2>3. token' \in Nat /\ guesses' \in Nat
      BY <1>21, <2>2, <1>r DEF Rotate, session, login, server, setting
    <2>4. accepted' \subseteq Nat /\ retired' \subseteq Nat
      BY <1>21, <2>2, <1>r DEF Rotate, session, login, server, setting
    <2>5. /\ pin' \in PinType /\ refresh' \in RefreshType
          /\ unlock' \in UnlockType /\ logout' \in LogoutType
      BY <1>21, <1>r, <1>u, <1>o, <2>2 DEF Rotate, session, login, server, setting
    <2> QED
      BY <2>1, <2>2, <2>3, <2>4, <2>5
  <1>22. CASE Refuse
    BY <1>22, <1>r, <1>u, <1>o DEF Refuse, session, login, server, setting
  <1>23. CASE GraceEnds
    BY <1>23, <1>r, <1>u, <1>o DEF GraceEnds, session, login, server, setting
  <1>24. CASE Revoke
    BY <1>24, <1>r, <1>u, <1>o DEF Revoke, session, login, server, setting
  <1>25. CASE StartRestore
    BY <1>25, <1>r, <1>u, <1>o DEF StartRestore, session, login, server, setting
  <1>26. CASE FinishRestore
    BY <1>26, <1>r, <1>u, <1>o DEF FinishRestore, LockVault, session, login, server, setting
  <1>27. CASE Kill
    <2>1. /\ mem' \in BOOLEAN /\ stored' \in BOOLEAN /\ restoring' \in BOOLEAN
          /\ idle' \in BOOLEAN
          /\ limit' \in BOOLEAN /\ change' \in BOOLEAN /\ alarm' \in BOOLEAN
          /\ account' \in BOOLEAN
          /\ opened' \in BOOLEAN /\ cut' \in BOOLEAN /\ lost' \in BOOLEAN
      BY <1>27 DEF Kill, End, Follow, session, login, server, setting
    <2>2. issued' \in Nat /\ kills' \in Nat
      BY <1>27 DEF Kill, End, Follow, session, login, server, setting
    <2>3. token' \in Nat /\ guesses' \in Nat
      BY <1>27, <2>2, <1>r DEF Kill, End, Follow, session, login, server, setting
    <2>4. accepted' \subseteq Nat /\ retired' \subseteq Nat
      BY <1>27, <2>2, <1>r DEF Kill, End, Follow, session, login, server, setting
    <2>5. /\ pin' \in PinType /\ refresh' \in RefreshType
          /\ unlock' \in UnlockType /\ logout' \in LogoutType
      BY <1>27, <1>r, <1>u, <1>o, <2>2 DEF Kill, End, Follow, session, login, server, setting
    <2> QED
      BY <2>1, <2>2, <2>3, <2>4, <2>5
  <1>28. CASE CloseBrowser
    <2>1. /\ mem' \in BOOLEAN /\ stored' \in BOOLEAN /\ restoring' \in BOOLEAN
          /\ idle' \in BOOLEAN
          /\ limit' \in BOOLEAN /\ change' \in BOOLEAN /\ alarm' \in BOOLEAN
          /\ account' \in BOOLEAN
          /\ opened' \in BOOLEAN /\ cut' \in BOOLEAN /\ lost' \in BOOLEAN
      BY <1>28 DEF CloseBrowser, End, Follow, login
    <2>2. issued' \in Nat /\ kills' \in Nat
      BY <1>28 DEF CloseBrowser, End, Follow, session, login, server, setting
    <2>3. token' \in Nat /\ guesses' \in Nat
      BY <1>28, <2>2, <1>r DEF CloseBrowser, End, Follow, session, login, server, setting
    <2>4. accepted' \subseteq Nat /\ retired' \subseteq Nat
      BY <1>28, <2>2, <1>r DEF CloseBrowser, End, Follow, session, login, server, setting
    <2>5. /\ pin' \in PinType /\ refresh' \in RefreshType
          /\ unlock' \in UnlockType /\ logout' \in LogoutType
      BY <1>28, <1>r, <1>u, <1>o, <2>2 DEF CloseBrowser, End, Follow, session, login, server,
        setting
    <2> QED
      BY <2>1, <2>2, <2>3, <2>4, <2>5
  <1>29. CASE Wait
    BY <1>29, <1>r, <1>u, <1>o DEF Wait, session, login, server, setting
  <1>30. CASE AutoLock
    BY <1>30, <1>r, <1>u, <1>o DEF AutoLock, Ready, LockVault, session, login, server, setting
  <1>31. CASE UNCHANGED vars
    BY <1>31 DEF vars, session, login, server, setting
  <1> QED
    BY <1>1, <1>2, <1>3, <1>4, <1>5, <1>6, <1>7, <1>8, <1>9, <1>10,
       <1>11, <1>12, <1>13, <1>14, <1>15, <1>16, <1>17, <1>18, <1>19, <1>20,
       <1>21, <1>22, <1>23, <1>24, <1>25, <1>26, <1>27, <1>28, <1>29, <1>30,
       <1>31, <1>32
    DEF Next, Refreshes, Unlocks, Messages, Settings, Server, Worker

\* Types are kept.
THEOREM Types == Spec => []TypeOK
  <1>1. Init => TypeOK
    <2> SUFFICES ASSUME Init PROVE TypeOK
      OBVIOUS
    <2>1. NoPin \in PinType /\ NoRefresh \in RefreshType /\ NoUnlock \in UnlockType
          /\ NoLogout \in LogoutType
      BY DEF NoPin, PinType, NoRefresh, RefreshType, NoUnlock, UnlockType, NoLogout,
             LogoutType, NoToken
    <2> QED
      BY <2>1 DEF Init, TypeOK, NoToken
  <1> QED
    BY <1>1, TypeStep, PTL DEF Spec

-----------------------------------------------------------------------------
(* What is open was opened                                                 *)

\* The copy outlives the memory, and a worker that has not restored it yet runs no handler.
OpenInv ==
  /\ mem => stored
  /\ stored => opened
  /\ restoring => stored /\ ~mem
  /\ stored /\ ~mem => refresh.pc = "none" /\ unlock.pc = "none" /\ logout = NoLogout

\* Every step keeps OpenInv.
LEMMA OpenStep ==
  TypeOK /\ OpenInv /\ [Next]_vars => OpenInv'
  <1> SUFFICES ASSUME TypeOK, OpenInv, [Next]_vars PROVE OpenInv'
    OBVIOUS
  <1> USE ExtensionConstants DEF ExtensionConstants, TypeOK, OpenInv, NoRefresh, NoUnlock,
    NoLogout, RefreshType, UnlockType, LogoutType
  <1>1. CASE WantToken
    <2>1. CASE Send /\ UNCHANGED <<session, login>>
      BY <1>1, <2>1 DEF WantToken, Send, EndLogin, LockVault, Ready, session, setting
    <2>2. CASE EndLogin /\ UNCHANGED refresh
      BY <1>1, <2>2 DEF WantToken, Send, EndLogin, LockVault, Ready, session, setting
    <2> QED
      BY <1>1, <2>1, <2>2 DEF WantToken
  <1>2. CASE SaveToken
    BY <1>2 DEF SaveToken, Follow, session, login, server, setting
  <1>3. CASE UseToken
    BY <1>3 DEF UseToken, session, login, server, setting
  <1>4. CASE RefreshFails
    BY <1>4 DEF RefreshFails, session, login, server, setting
  <1>5. CASE SignOut
    BY <1>5 DEF SignOut, EndLogin, LockVault, session, login, server, setting
  <1>6. CASE StartUnlock
    BY <1>6 DEF StartUnlock, Ready, SignedIn, session, login, server, setting
  <1>7. CASE Derive
    BY <1>7 DEF Derive, Build, Send, SignedIn, EndLogin, LockVault, session, login, server,
      setting
  <1>8. CASE StartPin
    BY <1>8 DEF StartPin, Ready, SignedIn, session, login, server, setting
  <1>9. CASE CountAttempt
    BY <1>9 DEF CountAttempt, session, login, server, setting
  <1>10. CASE TryPin
    BY <1>10 DEF TryPin, Build, Send, SignedIn, EndLogin, LockVault, LastTry, session, login,
      server, setting
  <1>11. CASE Arm
    BY <1>11 DEF Arm, session, login, server, setting
  <1>12. CASE EndUnlock
    BY <1>12 DEF EndUnlock, SignedIn, session, login, server, setting
  <1>13. CASE Login
    BY <1>13 DEF Login, Follow, Ready, SignedIn, session, login, server, setting
  <1>14. CASE SetPin
    BY <1>14 DEF SetPin, Ready, SignedIn, session, login, server, setting
  <1>15. CASE DisablePin
    BY <1>15 DEF DisablePin, Ready, session, login, server, setting
  <1>16. CASE Lock
    BY <1>16 DEF Lock, Ready, LockVault, session, login, server, setting
  <1>17. CASE StartLogout
    BY <1>17 DEF StartLogout, Ready, SignedIn, session, login, server, setting
  <1>18. CASE FinishLogout
    BY <1>18 DEF FinishLogout, EndLogin, LockVault, NoLogout, session, login, server, setting
  <1>19. CASE Use
    BY <1>19 DEF Use, Ready, session, login, server, setting
  <1>20. CASE SetLimit
    BY <1>20 DEF SetLimit, Ready, session, login, server, setting
  <1>32. CASE Rearm
    BY <1>32 DEF Rearm, Ready, session, login, server, setting
  <1>21. CASE Rotate
    BY <1>21 DEF Rotate, session, login, server, setting
  <1>22. CASE Refuse
    BY <1>22 DEF Refuse, session, login, server, setting
  <1>23. CASE GraceEnds
    BY <1>23 DEF GraceEnds, session, login, server, setting
  <1>24. CASE Revoke
    BY <1>24 DEF Revoke, session, login, server, setting
  <1>25. CASE StartRestore
    BY <1>25 DEF StartRestore, session, login, server, setting
  <1>26. CASE FinishRestore
    <2>1. CASE LockVault
      BY <1>26, <2>1 DEF FinishRestore, LockVault
    <2>2. CASE mem' = TRUE /\ UNCHANGED <<stored, idle, alarm, opened, cut>>
      BY <1>26, <2>2 DEF FinishRestore, LockVault
    <2> QED
      BY <1>26, <2>1, <2>2 DEF FinishRestore
  <1>27. CASE Kill
    BY <1>27 DEF Kill, End, Follow, session, login, server, setting
  <1>28. CASE CloseBrowser
    BY <1>28 DEF CloseBrowser, End, Follow, session, login, server, setting
  <1>29. CASE Wait
    BY <1>29 DEF Wait, session, login, server, setting
  <1>30. CASE AutoLock
    BY <1>30 DEF AutoLock, Ready, LockVault, session, login, server, setting
  <1>31. CASE UNCHANGED vars
    BY <1>31 DEF vars, session, login, server, setting
  <1> QED
    BY <1>1, <1>2, <1>3, <1>4, <1>5, <1>6, <1>7, <1>8, <1>9, <1>10,
       <1>11, <1>12, <1>13, <1>14, <1>15, <1>16, <1>17, <1>18, <1>19, <1>20,
       <1>21, <1>22, <1>23, <1>24, <1>25, <1>26, <1>27, <1>28, <1>29, <1>30,
       <1>31, <1>32
    DEF Next, Refreshes, Unlocks, Messages, Settings, Server, Worker

\* After a lock nothing but an unlock opens the vault.
THEOREM OnlyUnlocksOpen == Spec => []OnlyUnlockOpens
  <1>1. Init => OpenInv
    BY DEF Init, OpenInv, NoRefresh, NoUnlock
  <1>2. OpenInv => OnlyUnlockOpens
    BY DEF OpenInv, OnlyUnlockOpens
  <1> QED
    BY <1>1, <1>2, OpenStep, Types, PTL DEF Spec

-----------------------------------------------------------------------------
(* The tries of a PIN                                                      *)

\* The count on the record is never below the wrong PINs tried on it: an attempt is counted
\* before it is made, and takes back no more than its own count.
GuessInv ==
  /\ guesses <= MaxTries
  /\ pin.on => guesses <= pin.count /\ guesses < MaxTries
  /\ unlock.pc \in {"counting", "trying"} => unlock.by = "pin"
  /\ unlock.pc = "deriving" => unlock.by = "password"
  /\ unlock.by = "pin" /\ unlock.pc \in {"counting", "trying", "waiting"} /\ ~unlock.other
       => guesses <= unlock.count /\ guesses < MaxTries
  /\ unlock.other => guesses = 0
  /\ unlock.pc = "trying" /\ pin.on /\ ~unlock.other => pin.count = unlock.count + 1

\* Every step keeps GuessInv.
LEMMA GuessStep ==
  TypeOK /\ GuessInv /\ [Next]_vars => GuessInv'
  <1> SUFFICES ASSUME TypeOK, GuessInv, [Next]_vars PROVE GuessInv'
    OBVIOUS
  <1> USE ExtensionConstants DEF ExtensionConstants, TypeOK, GuessInv, NoPin, NoRefresh,
    NoUnlock, NoLogout, RefreshType, UnlockType, PinType
  <1>1. CASE WantToken
    <2>1. UNCHANGED <<unlock, guesses>> /\ (pin' = pin \/ pin' = NoPin)
      BY <1>1 DEF WantToken, EndLogin, login
    <2> QED
      BY <2>1
  <1>2. CASE SaveToken
    BY <1>2 DEF SaveToken, Follow, session, login, server, setting
  <1>3. CASE UseToken
    BY <1>3 DEF UseToken, session, login, server, setting
  <1>4. CASE RefreshFails
    BY <1>4 DEF RefreshFails, session, login, server, setting
  <1>5. CASE SignOut
    BY <1>5 DEF SignOut, EndLogin, LockVault, session, login, server, setting
  <1>6. CASE StartUnlock
    BY <1>6 DEF StartUnlock, Ready, SignedIn, session, login, server, setting
  <1>7. CASE Derive
    <2>1. UNCHANGED guesses /\ (pin' = pin \/ pin' = NoPin)
      BY <1>7 DEF Derive, Build, EndLogin, login
    <2>2. unlock' = NoUnlock \/ unlock' = [unlock EXCEPT !.pc = "waiting"]
      BY <1>7 DEF Derive, Build
    <2>3. CASE unlock' = NoUnlock
      BY <2>1, <2>3
    <2>4. CASE unlock' = [unlock EXCEPT !.pc = "waiting"]
      <3>1. unlock'.pc = "waiting" /\ unlock'.by = "password" /\ unlock'.other = unlock.other
        BY <1>7, <2>4 DEF Derive
      <3> QED
        BY <2>1, <3>1
    <2> QED
      BY <2>2, <2>3, <2>4
  <1>8. CASE StartPin
    BY <1>8 DEF StartPin, Ready, SignedIn, session, login, server, setting
  <1>9. CASE CountAttempt
    BY <1>9 DEF CountAttempt, session, login, server, setting
  <1>10. CASE TryPin
    BY <1>10 DEF TryPin, Build, Send, SignedIn, EndLogin, LockVault, LastTry, session, login,
      server, setting
  <1>11. CASE Arm
    BY <1>11 DEF Arm, session, login, server, setting
  <1>12. CASE EndUnlock
    BY <1>12 DEF EndUnlock, SignedIn, session, login, server, setting
  <1>13. CASE Login
    BY <1>13 DEF Login, Follow, Ready, SignedIn, session, login, server, setting
  <1>14. CASE SetPin
    BY <1>14 DEF SetPin, Ready, SignedIn, session, login, server, setting
  <1>15. CASE DisablePin
    BY <1>15 DEF DisablePin, Ready, session, login, server, setting
  <1>16. CASE Lock
    BY <1>16 DEF Lock, Ready, LockVault, session, login, server, setting
  <1>17. CASE StartLogout
    BY <1>17 DEF StartLogout, Ready, SignedIn, session, login, server, setting
  <1>18. CASE FinishLogout
    BY <1>18 DEF FinishLogout, EndLogin, LockVault, NoLogout, session, login, server, setting
  <1>19. CASE Use
    BY <1>19 DEF Use, Ready, session, login, server, setting
  <1>20. CASE SetLimit
    BY <1>20 DEF SetLimit, Ready, session, login, server, setting
  <1>32. CASE Rearm
    BY <1>32 DEF Rearm, Ready, session, login, server, setting
  <1>21. CASE Rotate
    BY <1>21 DEF Rotate, session, login, server, setting
  <1>22. CASE Refuse
    BY <1>22 DEF Refuse, session, login, server, setting
  <1>23. CASE GraceEnds
    BY <1>23 DEF GraceEnds, session, login, server, setting
  <1>24. CASE Revoke
    BY <1>24 DEF Revoke, session, login, server, setting
  <1>25. CASE StartRestore
    BY <1>25 DEF StartRestore, session, login, server, setting
  <1>26. CASE FinishRestore
    BY <1>26 DEF FinishRestore, LockVault, session, login, server, setting
  <1>27. CASE Kill
    BY <1>27 DEF Kill, End, Follow, session, login, server, setting
  <1>28. CASE CloseBrowser
    BY <1>28 DEF CloseBrowser, End, Follow, session, login, server, setting
  <1>29. CASE Wait
    BY <1>29 DEF Wait, session, login, server, setting
  <1>30. CASE AutoLock
    BY <1>30 DEF AutoLock, Ready, LockVault, session, login, server, setting
  <1>31. CASE UNCHANGED vars
    BY <1>31 DEF vars, session, login, server, setting
  <1> QED
    BY <1>1, <1>2, <1>3, <1>4, <1>5, <1>6, <1>7, <1>8, <1>9, <1>10,
       <1>11, <1>12, <1>13, <1>14, <1>15, <1>16, <1>17, <1>18, <1>19, <1>20,
       <1>21, <1>22, <1>23, <1>24, <1>25, <1>26, <1>27, <1>28, <1>29, <1>30,
       <1>31, <1>32
    DEF Next, Refreshes, Unlocks, Messages, Settings, Server, Worker

\* However often the worker ends, a PIN record sees no more wrong PINs than it allows.
THEOREM GuessesBounded == Spec => []GuessesAreBounded
  <1>1. Init => GuessInv
    BY ExtensionConstants DEF ExtensionConstants, Init, GuessInv, NoPin, NoUnlock
  <1>2. GuessInv => GuessesAreBounded
    BY DEF GuessInv, GuessesAreBounded
  <1> QED
    BY <1>1, <1>2, GuessStep, Types, PTL DEF Spec

-----------------------------------------------------------------------------
(* The refresh token                                                       *)

\* While no answer is under way or lost, the token kept is accepted and not retired: a
\* logout takes away only the token it was started with, a refresh the one it trades in.
TokenInv ==
  /\ accepted \subseteq 1..issued /\ retired \subseteq 1..issued
  /\ token <= issued /\ logout.token <= issued /\ refresh.old <= issued
  /\ refresh.pc = "rotated" =>
       /\ refresh.new \in accepted /\ refresh.new \notin retired
       /\ refresh.new # token /\ refresh.new # logout.token
  /\ SignedIn /\ refresh.pc # "rotated" /\ logout = NoLogout /\ ~lost
       => token \in accepted /\ token \notin retired

\* Every step keeps TokenInv.
LEMMA TokenStep ==
  TypeOK /\ TokenInv /\ [Next]_vars => TokenInv'
  <1> SUFFICES ASSUME TypeOK, TokenInv, [Next]_vars PROVE TokenInv'
    OBVIOUS
  <1> USE ExtensionConstants DEF ExtensionConstants, TypeOK, TokenInv, NoToken, SignedIn,
    NoRefresh, NoLogout, RefreshType, LogoutType
  <1>1. CASE WantToken
    <2>1. CASE Send /\ UNCHANGED <<session, login>>
      BY <1>1, <2>1 DEF WantToken, Send, login, server
    <2>2. CASE EndLogin /\ UNCHANGED refresh
      BY <1>1, <2>2 DEF WantToken, EndLogin, server
    <2> QED
      BY <1>1, <2>1, <2>2 DEF WantToken
  <1>2. CASE SaveToken
    BY <1>2 DEF SaveToken, Follow, session, login, server, setting
  <1>3. CASE UseToken
    BY <1>3 DEF UseToken, session, login, server, setting
  <1>4. CASE RefreshFails
    BY <1>4 DEF RefreshFails, session, login, server, setting
  <1>5. CASE SignOut
    BY <1>5 DEF SignOut, EndLogin, LockVault, session, login, server, setting
  <1>6. CASE StartUnlock
    BY <1>6 DEF StartUnlock, Ready, SignedIn, session, login, server, setting
  <1>7. CASE Derive
    BY <1>7 DEF Derive, Build, Send, SignedIn, EndLogin, LockVault, session, login, server,
      setting
  <1>8. CASE StartPin
    BY <1>8 DEF StartPin, Ready, SignedIn, session, login, server, setting
  <1>9. CASE CountAttempt
    BY <1>9 DEF CountAttempt, session, login, server, setting
  <1>10. CASE TryPin
    BY <1>10 DEF TryPin, Build, Send, SignedIn, EndLogin, LockVault, LastTry, session, login,
      server, setting
  <1>11. CASE Arm
    BY <1>11 DEF Arm, session, login, server, setting
  <1>12. CASE EndUnlock
    BY <1>12 DEF EndUnlock, SignedIn, session, login, server, setting
  <1>13. CASE Login
    BY <1>13 DEF Login, Follow, Ready, SignedIn, session, login, server, setting
  <1>14. CASE SetPin
    BY <1>14 DEF SetPin, Ready, SignedIn, session, login, server, setting
  <1>15. CASE DisablePin
    BY <1>15 DEF DisablePin, Ready, session, login, server, setting
  <1>16. CASE Lock
    BY <1>16 DEF Lock, Ready, LockVault, session, login, server, setting
  <1>17. CASE StartLogout
    BY <1>17 DEF StartLogout, Ready, SignedIn, session, login, server, setting
  <1>18. CASE FinishLogout
    BY <1>18 DEF FinishLogout, EndLogin, LockVault, NoLogout, session, login, server, setting
  <1>19. CASE Use
    BY <1>19 DEF Use, Ready, session, login, server, setting
  <1>20. CASE SetLimit
    BY <1>20 DEF SetLimit, Ready, session, login, server, setting
  <1>32. CASE Rearm
    BY <1>32 DEF Rearm, Ready, session, login, server, setting
  <1>21. CASE Rotate
    BY <1>21 DEF Rotate, session, login, server, setting
  <1>22. CASE Refuse
    BY <1>22 DEF Refuse, session, login, server, setting
  <1>23. CASE GraceEnds
    BY <1>23 DEF GraceEnds, session, login, server, setting
  <1>24. CASE Revoke
    BY <1>24 DEF Revoke, session, login, server, setting
  <1>25. CASE StartRestore
    BY <1>25 DEF StartRestore, session, login, server, setting
  <1>26. CASE FinishRestore
    BY <1>26 DEF FinishRestore, LockVault, session, login, server, setting
  <1>27. CASE Kill
    <2>1. /\ UNCHANGED <<account, token, issued>>
          /\ accepted' = accepted \cap {token}
          /\ retired' \subseteq retired \cup ({refresh.old} \cap accepted)
          /\ refresh' = NoRefresh /\ logout' = NoLogout
      BY <1>27 DEF Kill, End, Follow, login
    <2>2. ~lost' => /\ ~lost /\ refresh.pc # "rotated" /\ logout = NoLogout
                  /\ retired' \subseteq retired
      BY <1>27 DEF Kill, End, Follow
    <2> QED
      BY <2>1, <2>2
  <1>28. CASE CloseBrowser
    <2>1. /\ UNCHANGED <<account, token, issued>>
          /\ accepted' = accepted \cap {token}
          /\ retired' \subseteq retired \cup ({refresh.old} \cap accepted)
          /\ refresh' = NoRefresh /\ logout' = NoLogout
      BY <1>28 DEF CloseBrowser, End, Follow, login
    <2>2. ~lost' => /\ ~lost /\ refresh.pc # "rotated" /\ logout = NoLogout
                  /\ retired' \subseteq retired
      BY <1>28 DEF CloseBrowser, End, Follow
    <2> QED
      BY <2>1, <2>2
  <1>29. CASE Wait
    BY <1>29 DEF Wait, session, login, server, setting
  <1>30. CASE AutoLock
    BY <1>30 DEF AutoLock, Ready, LockVault, session, login, server, setting
  <1>31. CASE UNCHANGED vars
    BY <1>31 DEF vars, session, login, server, setting
  <1> QED
    BY <1>1, <1>2, <1>3, <1>4, <1>5, <1>6, <1>7, <1>8, <1>9, <1>10,
       <1>11, <1>12, <1>13, <1>14, <1>15, <1>16, <1>17, <1>18, <1>19, <1>20,
       <1>21, <1>22, <1>23, <1>24, <1>25, <1>26, <1>27, <1>28, <1>29, <1>30,
       <1>31, <1>32
    DEF Next, Refreshes, Unlocks, Messages, Settings, Server, Worker

\* The device keeps a token the server takes, wherever a lock, a logout or an end comes.
THEOREM TokenKept == Spec => []TokenIsKept
  <1>1. Init => TokenInv
    BY DEF Init, TokenInv, NoToken, NoRefresh, NoLogout, SignedIn
  <1>2. TokenInv => TokenIsKept
    BY DEF TokenInv, TokenIsKept
  <1> QED
    BY <1>1, <1>2, TokenStep, Types, PTL DEF Spec


=============================================================================
