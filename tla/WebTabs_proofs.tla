---------------------------- MODULE WebTabs_proofs ----------------------------
(***************************************************************************)
(* Theorems about WebTabs and the TokenServer under it, for any number of  *)
(* tabs, requests and tokens and any durations.                            *)
(***************************************************************************)
EXTENDS WebTabs, TLAPS

TabRecord ==
  [pc : {"new", "closed", "idle", "wait", "storeAccess", "storeRefresh",
         "look", "lookAgain", "clearAccess", "clearRefresh", "wipe", "send", "resend",
         "outAccess"},
   access : Tokens \cup {None}, in : BOOLEAN, then : {None, "request", "logout"},
   held : Tokens \cup {None}, fresh : Tokens \cup {None},
   slot : Slots \cup {None}, since : 0 .. MaxTime]

SrvRecord ==
  [pc : {"lookup", "issue", "retire", "ok", "rejected", "error"},
   token : Tokens, fresh : Tokens \cup {None}]

Opened == [Closed EXCEPT !.pc = "idle", !.in = store.user, !.access = store.access]

\* What ends an open flow, or starts the next step of it, is a record of a tab.
LEMMA TabRecords ==
  ASSUME TypeOK, NEW b \in Tabs
  PROVE  /\ tabs[b] \in TabRecord
         /\ Settled(tabs[b]) \in TabRecord
         /\ Expired(b) \in TabRecord
         /\ Resume(b) \in TabRecord
         /\ Opened \in TabRecord
         /\ Closed \in TabRecord
<1>0. tabs[b] \in TabRecord /\ 0 \in 0 .. MaxTime
  BY ServerConstants DEF TypeOK, TabRecord
<1>1. Settled(tabs[b]) \in TabRecord
  BY <1>0 DEF Settled, TabRecord
<1>2. Expired(b) \in TabRecord
  BY <1>1 DEF Expired, TabRecord
<1>3. Resume(b) \in TabRecord
  BY <1>0, <1>1 DEF Resume, TabRecord
<1>4. Closed \in TabRecord
  BY <1>0 DEF Closed, TabRecord
<1>5. Opened \in TabRecord
  BY <1>4 DEF TypeOK, TabRecord, Opened
<1> QED BY <1>0, <1>1, <1>2, <1>3, <1>4, <1>5

-----------------------------------------------------------------------------
(***************************************************************************)
(* Types.                                                                  *)
(***************************************************************************)

\* The statements of Refresh keep the types.
LEMMA ServerTypes ==
  ASSUME TypeOK, NEW s \in Slots, ServerStep(s) \/ Fail(s), UNCHANGED clientVars
  PROVE  TypeOK'
<1> USE ServerConstants DEF TypeOK, ServerTypeOK, clientVars, Free
<1>1. CASE Lookup(s)
  BY <1>1 DEF Lookup
<1>2. CASE IssueFresh(s)
  <2> PICK t \in Tokens : Issue(t) /\ srv' = [srv EXCEPT ![s].pc = "retire", ![s].fresh = t]
    BY <1>2 DEF IssueFresh
  <2>1. srv' \in [Slots -> SrvRecord \cup {Free}]
    <3>1. srv[s] \in SrvRecord /\ srv[s].pc = "issue"
      BY <1>2 DEF IssueFresh, SrvRecord
    <3>2. [srv[s] EXCEPT !.pc = "retire", !.fresh = t] \in SrvRecord
      BY <3>1 DEF SrvRecord
    <3> QED BY <3>2 DEF SrvRecord
  <2>2. signed' \in [Tokens -> 0 .. MaxTime] /\ expires' \in [Tokens -> 0 .. MaxTime + TTL]
    BY DEF Issue, RowUntil
  <2> QED BY <2>1, <2>2, <1>2 DEF IssueFresh, SrvRecord
<1>3. CASE Retire(s)
  <2> DEFINE t == srv[s].token
  <2>1. srv[s] \in SrvRecord /\ t \in Tokens
    BY <1>3 DEF Retire, SrvRecord
  <2>2. srv' \in [Slots -> SrvRecord \cup {Free}]
    BY <1>3, <2>1 DEF Retire, SrvRecord
  <2>3. RetireAt(t) \in 0 .. MaxTime + TTL
    BY <2>1 DEF RetireAt, Least
  <2>4. /\ expires' \in [Tokens -> 0 .. MaxTime + TTL]
        /\ retired' \in [Tokens -> 0 .. MaxTime]
    BY <1>3, <2>1, <2>3 DEF Retire
  <2> QED BY <2>2, <2>4, <1>3 DEF Retire, SrvRecord
<1>4. CASE Fail(s)
  BY <1>4 DEF Fail
<1> QED BY <1>1, <1>2, <1>3, <1>4 DEF ServerStep

\* A step of a tab keeps the types.
LEMMA TabTypes ==
  ASSUME TypeOK, NEW b \in Tabs, TabStep(b)
  PROVE  TypeOK'
<1>0. /\ tabs \in [Tabs -> TabRecord] /\ tabs[b] \in TabRecord
      /\ Settled(tabs[b]) \in TabRecord /\ Expired(b) \in TabRecord
      /\ Resume(b) \in TabRecord /\ Opened \in TabRecord /\ Closed \in TabRecord
  BY TabRecords DEF TypeOK, TabRecord
<1>st. store \in [access : Tokens \cup {None}, refresh : Tokens \cup {None}, user : BOOLEAN]
  BY DEF TypeOK
<1>sv. ServerTypeOK /\ srv \in [Slots -> SrvRecord \cup {Free}] /\ now \in 0 .. MaxTime
  BY DEF TypeOK, ServerTypeOK, SrvRecord
<1>l. loss \in BOOLEAN
  BY DEF TypeOK
<1>s. ASSUME UNCHANGED serverVars PROVE ServerTypeOK'
  BY <1>s, <1>sv DEF serverVars, ServerTypeOK, Free
\* The parts are enough.
<1>q. ASSUME ServerTypeOK', loss' \in BOOLEAN, tabs' \in [Tabs -> TabRecord],
             store' \in [access : Tokens \cup {None}, refresh : Tokens \cup {None},
                         user : BOOLEAN]
      PROVE  TypeOK'
  BY <1>q DEF TypeOK, TabRecord
<1>r. ASSUME NEW t \in Tokens, srv' = srv \/ \E s \in Slots : Receive(s, t),
             UNCHANGED <<now, signed, expires, retired, revoked, failed>>
      PROVE  ServerTypeOK'
  BY <1>r, <1>sv DEF ServerTypeOK, Receive, SrvRecord, Free
<1>1. CASE Open(b)
  BY <1>1, <1>0, <1>s, <1>q, <1>st, <1>l DEF Open, Opened
<1>2. CASE Login(b)
  <2>1. PICK t \in Tokens : /\ Issue(t)
                            /\ store' = [access |-> t, refresh |-> t, user |-> TRUE]
                            /\ tabs' = [tabs EXCEPT ![b].in = TRUE, ![b].access = t]
    BY <1>2 DEF Login
  <2>2. tabs' \in [Tabs -> TabRecord]
    BY <2>1, <1>0 DEF TabRecord
  <2>3. signed' \in [Tokens -> 0 .. MaxTime] /\ expires' \in [Tokens -> 0 .. MaxTime + TTL]
    BY <2>1, <1>sv, ServerConstants DEF Issue, RowUntil, ServerTypeOK
  <2>4. ServerTypeOK'
    BY <2>3, <1>2, <1>sv DEF Login, ServerTypeOK, Free
  <2> QED BY <2>1, <2>2, <2>4, <1>q, <1>l, <1>2 DEF Login
<1>3. ASSUME NEW then \in {"request", "logout"}, StartRefresh(b, then),
             UNCHANGED <<now, signed, expires, retired, revoked, failed>>
      PROVE  ServerTypeOK' /\ tabs' \in [Tabs -> TabRecord]
  <2>1. CASE store.refresh = None
    BY <2>1, <1>3, <1>0, <1>s DEF StartRefresh, serverVars
  <2>2. CASE store.refresh # None
    <3>1. PICK s \in Slots :
            /\ Receive(s, store.refresh)
            /\ tabs' = [tabs EXCEPT ![b].pc = "wait", ![b].then = then, ![b].slot = s,
                                    ![b].held = store.refresh, ![b].since = now]
      BY <2>2, <1>3 DEF StartRefresh
    <3>2. store.refresh \in Tokens
      BY <2>2, <1>st
    <3>3. ServerTypeOK'
      BY <3>1, <3>2, <1>3, <1>r
    <3>4. tabs' \in [Tabs -> TabRecord]
      <4> DEFINE r == [tabs[b] EXCEPT !.pc = "wait", !.then = then, !.slot = s,
                                      !.held = store.refresh, !.since = now]
      <4>1. r \in TabRecord
        BY <3>2, <1>0, <1>sv DEF TabRecord
      <4>2. tabs' = [tabs EXCEPT ![b] = r]
        BY <3>1, <1>0
      <4> QED BY <4>1, <4>2, <1>0
    <3> QED BY <3>3, <3>4
  <2> QED BY <2>1, <2>2
<1>4. CASE Unauthorized(b)
  BY <1>4, <1>3, <1>q, <1>st, <1>l DEF Unauthorized
<1>5. CASE TakeAnswer(b)
  <2>1. PICK s \in Slots :
          /\ Answered(s)
          /\ tabs' = [tabs EXCEPT ![b] =
               CASE srv[s].pc = "ok" ->
                      [tabs[b] EXCEPT !.pc = "storeAccess", !.fresh = srv[s].fresh,
                                      !.access = srv[s].fresh, !.slot = None]
                 [] srv[s].pc = "rejected" -> [tabs[b] EXCEPT !.pc = "look", !.slot = None]
                 [] srv[s].pc = "error" ->
                      IF tabs[b].then = "logout"
                        THEN [tabs[b] EXCEPT !.pc = "outAccess", !.slot = None]
                        ELSE Settled(tabs[b])]
          /\ srv' = [srv EXCEPT ![s] = Free]
          /\ loss' = (loss \/ (srv[s].pc = "error" /\ tabs[b].then = "logout"))
    BY <1>5 DEF TakeAnswer
  <2>a. srv[s] \in SrvRecord
    BY <2>1, <1>sv DEF Answered, Free
  <2>b. /\ [tabs[b] EXCEPT !.pc = "storeAccess", !.fresh = srv[s].fresh,
                           !.access = srv[s].fresh, !.slot = None] \in TabRecord
        /\ [tabs[b] EXCEPT !.pc = "look", !.slot = None] \in TabRecord
        /\ [tabs[b] EXCEPT !.pc = "outAccess", !.slot = None] \in TabRecord
    <3>1. PICK f \in Tokens \cup {None} : f = srv[s].fresh
      BY <2>a DEF SrvRecord
    <3>2. [tabs[b] EXCEPT !.pc = "storeAccess", !.fresh = f, !.access = f, !.slot = None]
            \in TabRecord
      BY <1>0 DEF TabRecord
    <3>3. [tabs[b] EXCEPT !.pc = "look", !.slot = None] \in TabRecord
      BY <1>0 DEF TabRecord
    <3>4. [tabs[b] EXCEPT !.pc = "outAccess", !.slot = None] \in TabRecord
      BY <1>0 DEF TabRecord
    <3> QED BY <3>1, <3>2, <3>3, <3>4
  <2>2. tabs' \in [Tabs -> TabRecord]
    BY <2>1, <2>b, <1>0 DEF Answered
  <2>3. ServerTypeOK'
    BY <2>1, <1>5, <1>sv DEF TakeAnswer, ServerTypeOK, SrvRecord
  <2> QED BY <2>1, <2>2, <2>3, <1>5, <1>q, <1>l, <1>st DEF TakeAnswer
<1>6. CASE StoreAccess(b)
  BY <1>6, <1>0, <1>s, <1>q, <1>st, <1>l DEF StoreAccess, Goto, TabRecord
<1>7. CASE StoreRefresh(b)
  <2>1. tabs[b].fresh \in Tokens \cup {None}
    BY <1>0 DEF TabRecord
  <2> QED BY <2>1, <1>7, <1>0, <1>s, <1>q, <1>st, <1>l DEF StoreRefresh
<1>8. CASE Look(b)
  <2>1. [Resume(b) EXCEPT !.access = store.access] \in TabRecord
    BY <1>0, <1>st DEF TabRecord
  <2>2. [tabs[b] EXCEPT !.pc = "lookAgain", !.since = now] \in TabRecord
    BY <1>0, <1>sv DEF TabRecord
  <2>3. tabs' \in [Tabs -> TabRecord]
    BY <2>1, <2>2, <1>0, <1>8 DEF Look
  <2> QED BY <2>3, <1>8, <1>s, <1>q, <1>st, <1>l DEF Look
<1>9. CASE ClearAccess(b) \/ ClearRefresh(b) \/ OutAccess(b)
  BY <1>9, <1>0, <1>s, <1>q, <1>st, <1>l
     DEF ClearAccess, ClearRefresh, OutAccess, Goto, TabRecord
<1>10. CASE Wipe(b)
  <2>1. [Settled(tabs[b]) EXCEPT !.in = FALSE, !.access = None] \in TabRecord
    BY <1>0 DEF TabRecord
  <2> QED BY <2>1, <1>10, <1>0, <1>s, <1>q, <1>l DEF Wipe
<1>11. CASE StartLogout(b)
  <2>1. tabs' \in [Tabs -> TabRecord]
    <3>1. \A pc \in {"outAccess", "send"} :
            [tabs[b] EXCEPT !.pc = pc, !.held = store.refresh] \in TabRecord
      BY <1>0, <1>st DEF TabRecord
    <3> QED BY <3>1, <1>11, <1>0 DEF StartLogout
  <2> QED BY <2>1, <1>11, <1>s, <1>q, <1>st, <1>l DEF StartLogout
<1>12. CASE SendLogout(b)
  <2>1. CASE AccessValid(tabs[b].access)
    <3>1. tabs' \in [Tabs -> TabRecord]
      BY <2>1, <1>12, <1>0 DEF SendLogout, Goto, TabRecord
    <3>2. Revokes(b) \in Tokens \cup {None}
      BY <1>0, <1>st DEF Revokes, TabRecord
    <3>3. /\ expires' \in [Tokens -> 0 .. MaxTime + TTL]
          /\ revoked' \in SUBSET Tokens
      BY <2>1, <3>2, <1>12, <1>sv, ServerConstants DEF SendLogout, DeleteSession, ServerTypeOK
    <3>4. ServerTypeOK'
      BY <2>1, <3>3, <1>12, <1>sv DEF SendLogout, ServerTypeOK, Free
    <3> QED BY <2>1, <3>1, <3>4, <1>12, <1>q, <1>st, <1>l DEF SendLogout
  <2>2. CASE ~AccessValid(tabs[b].access) /\ tabs[b].pc = "send"
    BY <2>2, <1>12, <1>3, <1>q, <1>st, <1>l DEF SendLogout
  <2>3. CASE ~AccessValid(tabs[b].access) /\ tabs[b].pc # "send"
    BY <2>3, <1>12, <1>0, <1>s, <1>q, <1>st, <1>l DEF SendLogout, Goto, TabRecord, serverVars
  <2> QED BY <2>1, <2>2, <2>3
<1>13. CASE Break(b)
  <2>1. tabs' \in [Tabs -> TabRecord]
    <3>1. [tabs[b] EXCEPT !.pc = "outAccess", !.slot = None] \in TabRecord
      BY <1>0 DEF TabRecord
    <3> QED BY <3>1, <1>13, <1>0 DEF Break
  <2> QED BY <2>1, <1>13, <1>s, <1>q, <1>st DEF Break
<1>14. CASE Close(b)
  BY <1>14, <1>0, <1>s, <1>q, <1>st DEF Close
<1> QED
  BY <1>1, <1>2, <1>4, <1>5, <1>6, <1>7, <1>8, <1>9, <1>10, <1>11, <1>12, <1>13, <1>14
     DEF TabStep
\* Every variable of WebTabs keeps its type.
THEOREM TypeCorrect == Spec => []TypeOK
<1>1. Init => TypeOK
  <2> SUFFICES ASSUME Init PROVE TypeOK
    OBVIOUS
  <2>0. 1 \in 1 .. MaxTime /\ 0 \in 0 .. MaxTime /\ 0 \in 0 .. MaxTime + TTL
    BY ServerConstants
  <2>1. ServerTypeOK
    BY <2>0 DEF Init, ServerInit, ServerTypeOK
  <2>2. tabs \in [Tabs -> TabRecord]
    <3>1. New \in TabRecord
      BY <2>0 DEF New, Closed, TabRecord
    <3> QED BY <3>1 DEF Init
  <2> QED BY <2>1, <2>2 DEF Init, TypeOK, TabRecord
<1>2. TypeOK /\ [Next]_vars => TypeOK'
  <2> SUFFICES ASSUME TypeOK, [Next]_vars PROVE TypeOK'
    OBVIOUS
  <2>1. ASSUME NEW b \in Tabs, TabStep(b) PROVE TypeOK'
    BY <2>1, TabTypes
  <2>2. ASSUME NEW s \in Slots, Discard(s) PROVE TypeOK'
    BY <2>2 DEF Discard, TypeOK, ServerTypeOK, Free
  <2>3. ASSUME NEW s \in Slots, ServerStep(s) \/ Fail(s), UNCHANGED clientVars PROVE TypeOK'
    BY <2>3, ServerTypes
  <2>4. CASE Tick
    <3>1. now' \in 1 .. MaxTime
      BY <2>4, ServerConstants DEF Tick, Advance, TypeOK, ServerTypeOK
    <3> QED BY <3>1, <2>4 DEF Tick, Advance, clientVars, TypeOK, ServerTypeOK, Free
  <2>5. CASE UNCHANGED vars
    BY <2>5 DEF vars, TypeOK, ServerTypeOK, Free
  <2> QED BY <2>1, <2>2, <2>3, <2>4, <2>5 DEF Next
<1> QED BY <1>1, <1>2, PTL DEF Spec

-----------------------------------------------------------------------------
(***************************************************************************)
(* How long a refresh token lives.                                         *)
(***************************************************************************)

\* When the row of t ends, if no logout deletes it: with the signed token, or Grace
\* after the first retirement if that is sooner.
End(t) == IF retired[t] = 0 THEN signed[t] + TTL
                            ELSE Least(signed[t] + TTL, retired[t] + Grace)

\* The inductive invariant: a token not issued yet has no row; the row of an issued
\* one, unless a logout deleted it, ends at End(t), and no row lives longer.
RowInv ==
  \A t \in Tokens :
    /\ signed[t] <= now /\ retired[t] <= now
    /\ signed[t] = 0 => expires[t] = 0 /\ retired[t] = 0
    /\ signed[t] > 0 => expires[t] <= End(t)
    /\ signed[t] > 0 /\ t \notin revoked => expires[t] = End(t)
\* A refresh retires t, or a second one does: the row ends no later than it would.
LEMMA RetiredOnce ==
  ASSUME TypeOK, RowInv, NEW t \in Tokens, signed[t] > 0
  PROVE  /\ retired[t] = 0 => RetireAt(t) <= Least(signed[t] + TTL, now + Grace)
         /\ retired[t] > 0 => RetireAt(t) = expires[t]
         /\ retired[t] = 0 /\ t \notin revoked
              => RetireAt(t) = Least(signed[t] + TTL, now + Grace)
  BY ServerConstants DEF TypeOK, ServerTypeOK, RowInv, RetireAt, End, Least

\* No step takes a row away from End.
LEMMA RowsEnd ==
  ASSUME TypeOK, RowInv, [Next]_vars
  PROVE  RowInv'
<1> USE ServerConstants DEF TypeOK, ServerTypeOK
<1>1. ASSUME UNCHANGED <<signed, expires, retired>>, now' \in {now, now + 1},
             revoked \subseteq revoked'
      PROVE  RowInv'
  BY <1>1 DEF RowInv, End
<1>2. ASSUME NEW t \in Tokens, Issue(t), UNCHANGED <<now, retired, revoked>>
      PROVE  RowInv'
  BY <1>2 DEF RowInv, End, Issue, RowUntil
<1>3. ASSUME NEW s \in Slots, Retire(s)
      PROVE  RowInv'
  <2>0. PICK t : t = srv[s].token
    OBVIOUS
  <2>1. CASE expires[t] > 0
    <3>1. t \in Tokens /\ signed[t] > 0 /\ now > 0
      BY <1>3, <2>0, <2>1 DEF Retire, RowInv, Free
    <3>2. /\ expires' = [expires EXCEPT ![t] = RetireAt(t)]
          /\ retired' = [retired EXCEPT ![t] = IF @ = 0 THEN now ELSE @]
          /\ UNCHANGED <<now, signed, revoked>>
      BY <1>3, <2>0, <2>1 DEF Retire
    <3>3. ASSUME NEW u \in Tokens, u # t
          PROVE  expires'[u] = expires[u] /\ retired'[u] = retired[u] /\ signed'[u] = signed[u]
      BY <3>2, <3>3
    <3>4. /\ expires'[t] = RetireAt(t) /\ signed'[t] = signed[t]
          /\ retired'[t] = IF retired[t] = 0 THEN now ELSE retired[t]
      BY <3>1, <3>2
    <3>5. /\ retired'[t] <= now' /\ expires'[t] <= End(t)'
          /\ t \notin revoked => expires'[t] = End(t)'
      <4>1. signed[t] <= now /\ retired[t] <= now /\ expires[t] <= End(t)
        BY <3>1 DEF RowInv
      <4>2. t \notin revoked => expires[t] = End(t)
        BY <3>1 DEF RowInv
      <4>3. End(t)' = IF retired'[t] = 0 THEN signed[t] + TTL
                                         ELSE Least(signed[t] + TTL, retired'[t] + Grace)
        BY <3>1, <3>4 DEF End
      <4>4. CASE retired[t] = 0
        BY <4>1, <4>3, <4>4, <3>1, <3>2, <3>4, RetiredOnce
      <4>5. CASE retired[t] > 0
        BY <4>1, <4>2, <4>3, <4>5, <3>1, <3>2, <3>4, RetiredOnce DEF End
      <4> QED BY <4>4, <4>5, <3>1
    <3>6. ASSUME NEW u \in Tokens, u # t PROVE End(u)' = End(u)
      BY <3>3, <3>6 DEF End
    <3> QED BY <3>1, <3>2, <3>3, <3>4, <3>5, <3>6 DEF RowInv
  <2>2. CASE ~(expires[t] > 0)
    BY <1>3, <2>0, <2>2, <1>1 DEF Retire
  <2> QED BY <2>1, <2>2
<1>4. ASSUME NEW t, DeleteSession(t), UNCHANGED <<now, signed, retired>>
      PROVE  RowInv'
  BY <1>4 DEF DeleteSession, RowInv, End, Least
<1>5. ASSUME NEW b \in Tabs, TabStep(b)
      PROVE  RowInv'
  <2>1. CASE Login(b)
    BY <2>1, <1>2 DEF Login
  <2>2. CASE SendLogout(b)
    <3>1. CASE AccessValid(tabs[b].access) /\ Revokes(b) # None
      BY <2>2, <3>1, <1>4 DEF SendLogout
    <3>2. CASE ~(AccessValid(tabs[b].access) /\ Revokes(b) # None)
      BY <2>2, <3>2, <1>1 DEF SendLogout
    <3> QED BY <3>1, <3>2
  <2>3. CASE Open(b) \/ Unauthorized(b) \/ TakeAnswer(b) \/ StoreAccess(b)
               \/ StoreRefresh(b) \/ Look(b) \/ ClearAccess(b) \/ ClearRefresh(b)
    BY <2>3, <1>1 DEF Open, Unauthorized, TakeAnswer, StoreAccess, StoreRefresh, Look,
                      ClearAccess, ClearRefresh, serverVars
  <2>4. CASE Wipe(b) \/ StartLogout(b) \/ OutAccess(b) \/ Break(b) \/ Close(b)
    BY <2>4, <1>1 DEF Wipe, StartLogout, OutAccess, Break, Close, serverVars
  <2> QED BY <1>5, <2>1, <2>2, <2>3, <2>4 DEF TabStep
<1>6. ASSUME NEW s \in Slots, ServerStep(s) \/ Fail(s)
      PROVE  RowInv'
  <2>1. CASE Lookup(s) \/ Fail(s)
    BY <2>1, <1>1 DEF Lookup, Fail
  <2>2. CASE IssueFresh(s)
    BY <2>2, <1>2 DEF IssueFresh
  <2> QED BY <1>6, <2>1, <2>2, <1>3 DEF ServerStep
<1>7. ASSUME NEW s \in Slots, Discard(s) PROVE RowInv'
  BY <1>7, <1>1 DEF Discard
<1>8. CASE Tick
  BY <1>8, <1>1 DEF Tick, Advance
<1>9. CASE UNCHANGED vars
  BY <1>9, <1>1 DEF vars
<1> QED BY <1>5, <1>6, <1>7, <1>8, <1>9 DEF Next

LEMMA RowsAlwaysEnd == Spec => [](TypeOK /\ RowInv)
<1>1. Init => RowInv
  BY DEF Init, ServerInit, RowInv
<1>2. TypeOK /\ RowInv /\ [Next]_vars => RowInv'
  BY RowsEnd
<1> QED BY <1>1, <1>2, TypeCorrect, PTL DEF Spec

\* Once a refresh token is rotated, no later use gives it more time than Grace.
THEOREM RetiredTokensDie == Spec => []RetiredForGood
<1>1. TypeOK /\ RowInv => RetiredForGood
  BY ServerConstants DEF TypeOK, ServerTypeOK, RowInv, RetiredForGood, End, Least
<1> QED BY <1>1, RowsAlwaysEnd, PTL

\* Until then, and until its own expiry or a logout, the server accepts it.
THEOREM GracePeriodHolds == Spec => []GraceHolds
<1>1. TypeOK /\ RowInv => GraceHolds
  BY ServerConstants
     DEF TypeOK, ServerTypeOK, RowInv, GraceHolds, Genuine, Live, End, Least
<1> QED BY <1>1, RowsAlwaysEnd, PTL

-----------------------------------------------------------------------------
(***************************************************************************)
(* Who waits for what.                                                     *)
(***************************************************************************)

Busy(s) == srv[s] # Free

\* A waiting tab waits for its own request, in a slot of its own.
WaitInv ==
  /\ \A b \in Tabs : tabs[b].pc = "wait" =>
        /\ tabs[b].slot \in Slots /\ Busy(tabs[b].slot)
        /\ srv[tabs[b].slot].token = tabs[b].held
  /\ \A b, c \in Tabs :
        tabs[b].pc = "wait" /\ tabs[c].pc = "wait" /\ tabs[b].slot = tabs[c].slot => b = c

\* A step of a tab changes no other tab.
LEMMA OthersKeep ==
  ASSUME TypeOK, NEW b \in Tabs, TabStep(b), NEW c \in Tabs, c # b
  PROVE  tabs'[c] = tabs[c]
<1> USE DEF TypeOK
<1>1. CASE Open(b) \/ TakeAnswer(b) \/ StoreRefresh(b) \/ Look(b) \/ Wipe(b) \/ Break(b)
             \/ Close(b)
  BY <1>1 DEF Open, TakeAnswer, StoreRefresh, Look, Wipe, Break, Close
<1>2. CASE Login(b) \/ Unauthorized(b) \/ StoreAccess(b) \/ ClearAccess(b) \/ ClearRefresh(b)
  BY <1>2 DEF Login, Unauthorized, StartRefresh, StoreAccess, ClearAccess, ClearRefresh, Goto
<1>3. CASE StartLogout(b) \/ SendLogout(b) \/ OutAccess(b)
  BY <1>3 DEF StartLogout, SendLogout, StartRefresh, OutAccess, Goto
<1> QED BY <1>1, <1>2, <1>3 DEF TabStep

\* What _doRefresh makes of a tab and of the server.
LEMMA RefreshEffect ==
  ASSUME TypeOK, NEW b \in Tabs, NEW then, StartRefresh(b, then), store.refresh # None
  PROVE  \E s \in Slots :
           /\ srv[s] = Free
           /\ srv'[s] = [pc |-> "lookup", token |-> store.refresh, fresh |-> None]
           /\ \A r \in Slots : r # s => srv'[r] = srv[r]
           /\ tabs'[b].pc = "wait" /\ tabs'[b].slot = s /\ tabs'[b].held = store.refresh
           /\ tabs'[b].since = now /\ tabs'[b].then = then /\ tabs'[b].in = tabs[b].in
<1>0. /\ srv \in [Slots -> SrvRecord \cup {Free}]
      /\ tabs \in [Tabs -> TabRecord] /\ tabs[b] \in TabRecord
  BY DEF TypeOK, ServerTypeOK, SrvRecord, TabRecord
<1>1. PICK s \in Slots :
        /\ Receive(s, store.refresh)
        /\ tabs' = [tabs EXCEPT ![b].pc = "wait", ![b].then = then, ![b].slot = s,
                                ![b].held = store.refresh, ![b].since = now]
  BY DEF StartRefresh
<1> DEFINE q == [tabs[b] EXCEPT !.pc = "wait", !.then = then, !.slot = s,
                                !.held = store.refresh, !.since = now]
<1>2. tabs'[b] = q
  BY <1>0, <1>1
<1>3. /\ q.pc = "wait" /\ q.slot = s /\ q.held = store.refresh
      /\ q.since = now /\ q.then = then /\ q.in = tabs[b].in
  BY <1>0 DEF TabRecord
<1> HIDE DEF q
<1>4. /\ srv[s] = Free
      /\ srv'[s] = [pc |-> "lookup", token |-> store.refresh, fresh |-> None]
      /\ \A r \in Slots : r # s => srv'[r] = srv[r]
  BY <1>0, <1>1 DEF Receive
<1> QED BY <1>2, <1>3, <1>4

\* The three ways of a tab: it takes an answer, it sends a request, or it leaves the
\* server's requests alone and waits for none.
Sends(b) == (Unauthorized(b) \/ SendLogout(b)) /\ tabs'[b].pc = "wait"

LEMMA WaysOfATab ==
  ASSUME TypeOK, NEW b \in Tabs, TabStep(b)
  PROVE  \/ TakeAnswer(b)
         \/ /\ Sends(b) /\ store.refresh # None
            /\ \E then \in {"request", "logout"} : StartRefresh(b, then)
         \/ srv' = srv /\ tabs'[b].pc # "wait"
<1>0. /\ tabs \in [Tabs -> TabRecord] /\ tabs[b] \in TabRecord
      /\ Settled(tabs[b]) \in TabRecord /\ Expired(b) \in TabRecord
      /\ Resume(b) \in TabRecord
  BY TabRecords DEF TypeOK, TabRecord
<1>s. /\ Settled(tabs[b]).pc = "idle" /\ Expired(b).pc = "clearAccess"
      /\ tabs[b].pc # "wait" => Resume(b).pc # "wait"
  BY <1>0 DEF Settled, Expired, Resume, TabRecord
<1>r. ASSUME NEW then, StartRefresh(b, then)
      PROVE  \/ store.refresh # None /\ tabs'[b].pc = "wait"
             \/ srv' = srv /\ tabs'[b].pc # "wait"
  <2>1. CASE store.refresh = None
    BY <1>r, <2>1, <1>0, <1>s DEF StartRefresh
  <2>2. CASE store.refresh # None
    BY <1>r, <2>2, <1>0, RefreshEffect DEF TabRecord
  <2> QED BY <2>1, <2>2
<1>1. CASE Unauthorized(b)
  BY <1>1, <1>r DEF Unauthorized, Sends
<1>2. CASE SendLogout(b)
  <2>1. CASE ~AccessValid(tabs[b].access) /\ tabs[b].pc = "send"
    BY <1>2, <2>1, <1>r DEF SendLogout, Sends
  <2>2. CASE AccessValid(tabs[b].access) \/ tabs[b].pc # "send"
    BY <1>2, <2>2, <1>0 DEF SendLogout, Goto, TabRecord
  <2> QED BY <2>1, <2>2
<1>3. CASE Open(b) \/ Close(b)
  <2>1. Opened.pc = "idle" /\ Closed.pc = "closed"
    BY DEF Opened, Closed
  <2>2. tabs'[b] \in {Opened, Closed} /\ srv' = srv
    BY <1>3, <1>0 DEF Open, Opened, Close, serverVars
  <2> QED BY <2>1, <2>2
<1>8. CASE Login(b) \/ StoreAccess(b) \/ ClearAccess(b) \/ ClearRefresh(b) \/ OutAccess(b)
             \/ StartLogout(b)
  BY <1>8, <1>0 DEF Login, StoreAccess, ClearAccess, ClearRefresh, OutAccess, StartLogout,
                    Goto, TabRecord, serverVars
<1>4. CASE StoreRefresh(b)
  BY <1>4, <1>0, <1>s DEF StoreRefresh, serverVars
<1>5. CASE Look(b)
  <2>1. Resume(b).pc # "wait"
    BY <1>5, <1>s DEF Look
  <2>2. [Resume(b) EXCEPT !.access = store.access].pc # "wait"
    BY <2>1, <1>0 DEF TabRecord
  <2>3. [tabs[b] EXCEPT !.pc = "lookAgain", !.since = now].pc # "wait"
    BY <1>0 DEF TabRecord
  <2> QED BY <2>2, <2>3, <1>5, <1>0, <1>s DEF Look, serverVars
<1>6. CASE Wipe(b)
  <2>1. [Settled(tabs[b]) EXCEPT !.in = FALSE, !.access = None].pc # "wait"
    BY <1>0, <1>s DEF TabRecord
  <2> QED BY <2>1, <1>6, <1>0 DEF Wipe, serverVars
<1>7. CASE Break(b)
  <2>1. [tabs[b] EXCEPT !.pc = "outAccess", !.slot = None].pc # "wait"
    BY <1>0 DEF TabRecord
  <2> QED BY <2>1, <1>7, <1>0, <1>s DEF Break, serverVars
<1> QED BY <1>1, <1>2, <1>3, <1>4, <1>5, <1>6, <1>7, <1>8 DEF TabStep

\* What an answer makes of the tab that takes it.
LEMMA AnswerEffect ==
  ASSUME TypeOK, NEW b \in Tabs, TakeAnswer(b)
  PROVE  \E s \in Slots :
           /\ tabs[b].pc = "wait" /\ tabs[b].slot = s /\ Busy(s)
           /\ srv'[s] = Free
           /\ \A r \in Slots : r # s => srv'[r] = srv[r]
           /\ tabs'[b].in = tabs[b].in
           /\ \/ /\ srv[s].pc = "ok" /\ tabs'[b].pc = "storeAccess" /\ loss' = loss
                 /\ tabs'[b].fresh = srv[s].fresh /\ tabs'[b].since = tabs[b].since
                 /\ tabs'[b].held = tabs[b].held /\ tabs'[b].then = tabs[b].then
              \/ /\ srv[s].pc = "rejected" /\ tabs'[b].pc = "look" /\ loss' = loss
                 /\ tabs'[b].held = tabs[b].held /\ tabs'[b].then = tabs[b].then
              \/ srv[s].pc = "error" /\ tabs'[b].pc = "idle" /\ loss' = loss
              \/ srv[s].pc = "error" /\ tabs'[b].pc = "outAccess" /\ loss'
<1>0. /\ srv \in [Slots -> SrvRecord \cup {Free}]
      /\ tabs \in [Tabs -> TabRecord] /\ tabs[b] \in TabRecord /\ loss \in BOOLEAN
  BY DEF TypeOK, ServerTypeOK, SrvRecord, TabRecord
<1>1. PICK s \in Slots :
        /\ tabs[b].slot = s /\ Answered(s)
        /\ tabs' = [tabs EXCEPT ![b] =
             CASE srv[s].pc = "ok" ->
                    [tabs[b] EXCEPT !.pc = "storeAccess", !.fresh = srv[s].fresh,
                                    !.access = srv[s].fresh, !.slot = None]
               [] srv[s].pc = "rejected" -> [tabs[b] EXCEPT !.pc = "look", !.slot = None]
               [] srv[s].pc = "error" ->
                    IF tabs[b].then = "logout"
                      THEN [tabs[b] EXCEPT !.pc = "outAccess", !.slot = None]
                      ELSE Settled(tabs[b])]
        /\ srv' = [srv EXCEPT ![s] = Free]
        /\ loss' = (loss \/ (srv[s].pc = "error" /\ tabs[b].then = "logout"))
  BY DEF TakeAnswer
<1>2. /\ tabs[b].pc = "wait" /\ tabs[b].slot = s /\ Busy(s) /\ srv'[s] = Free
      /\ \A r \in Slots : r # s => srv'[r] = srv[r]
  BY <1>0, <1>1 DEF Answered, Busy, Free, TakeAnswer
<1> DEFINE ok == [tabs[b] EXCEPT !.pc = "storeAccess", !.fresh = srv[s].fresh,
                                 !.access = srv[s].fresh, !.slot = None]
           no == [tabs[b] EXCEPT !.pc = "look", !.slot = None]
           out == [tabs[b] EXCEPT !.pc = "outAccess", !.slot = None]
<1>3. /\ ok.pc = "storeAccess" /\ ok.fresh = srv[s].fresh /\ ok.since = tabs[b].since
      /\ ok.held = tabs[b].held /\ ok.in = tabs[b].in /\ ok.then = tabs[b].then
  BY <1>0 DEF TabRecord
<1>4. /\ no.pc = "look" /\ no.held = tabs[b].held /\ no.in = tabs[b].in
      /\ no.then = tabs[b].then
  BY <1>0 DEF TabRecord
<1>5. out.pc = "outAccess" /\ out.in = tabs[b].in
  BY <1>0 DEF TabRecord
<1>6. Settled(tabs[b]).pc = "idle" /\ Settled(tabs[b]).in = tabs[b].in
  BY <1>0 DEF TabRecord, Settled
<1>7. tabs'[b] = CASE srv[s].pc = "ok" -> ok
                   [] srv[s].pc = "rejected" -> no
                   [] srv[s].pc = "error" ->
                        IF tabs[b].then = "logout" THEN out ELSE Settled(tabs[b])
  BY <1>0, <1>1
<1> HIDE DEF ok, no, out
<1>8. loss' = (loss \/ (srv[s].pc = "error" /\ tabs[b].then = "logout"))
  BY <1>1
<1>9. CASE srv[s].pc = "ok"
  BY <1>0, <1>2, <1>3, <1>7, <1>8, <1>9
<1>10. CASE srv[s].pc = "rejected"
  BY <1>0, <1>2, <1>4, <1>7, <1>8, <1>10
<1>11. CASE srv[s].pc = "error" /\ tabs[b].then = "logout"
  BY <1>0, <1>2, <1>5, <1>7, <1>8, <1>11
<1>12. CASE srv[s].pc = "error" /\ tabs[b].then # "logout"
  BY <1>0, <1>2, <1>6, <1>7, <1>8, <1>12
<1> QED BY <1>1, <1>9, <1>10, <1>11, <1>12 DEF Answered

\* A statement of the server changes only its own request, and never its token.
LEMMA StatementEffect ==
  ASSUME TypeOK, NEW s \in Slots, ServerStep(s) \/ Fail(s)
  PROVE  /\ Busy(s) /\ srv[s] \in SrvRecord /\ srv'[s] \in SrvRecord
         /\ srv'[s].token = srv[s].token
         /\ \A r \in Slots : r # s => srv'[r] = srv[r]
         /\ \A r \in Slots : Busy(r)' <=> Busy(r)
<1>0. srv \in [Slots -> SrvRecord \cup {Free}] /\ Free.pc = "free"
  BY DEF TypeOK, ServerTypeOK, SrvRecord, Free
<1>1. srv[s] \in SrvRecord /\ srv[s].pc \in {"lookup", "issue", "retire"}
  BY <1>0 DEF ServerStep, Lookup, IssueFresh, Retire, Fail
<1>2. CASE Lookup(s) \/ Retire(s) \/ Fail(s)
  BY <1>0, <1>1, <1>2 DEF Lookup, Retire, Fail, SrvRecord, Busy
<1>3. CASE IssueFresh(s)
  <2>1. PICK t \in Tokens : srv' = [srv EXCEPT ![s].pc = "retire", ![s].fresh = t]
    BY <1>3 DEF IssueFresh
  <2>2. srv' = [srv EXCEPT ![s] = [srv[s] EXCEPT !.pc = "retire", !.fresh = t]]
    BY <2>1, <1>0
  <2>3. [srv[s] EXCEPT !.pc = "retire", !.fresh = t] \in SrvRecord
    BY <1>1 DEF SrvRecord
  <2>4. [srv[s] EXCEPT !.pc = "retire", !.fresh = t].token = srv[s].token
    BY <1>1 DEF SrvRecord
  <2> QED BY <1>0, <1>1, <2>2, <2>3, <2>4 DEF Busy, SrvRecord
<1> QED BY <1>2, <1>3 DEF ServerStep

\* Every step keeps a tab and its request together.
LEMMA WaitsKept ==
  ASSUME TypeOK, WaitInv, [Next]_vars
  PROVE  WaitInv'
<1>0. srv \in [Slots -> SrvRecord \cup {Free}] /\ tabs \in [Tabs -> TabRecord]
  BY DEF TypeOK, ServerTypeOK, SrvRecord, TabRecord
<1>1. ASSUME NEW b \in Tabs, TabStep(b)
      PROVE  WaitInv'
  <2>o. \A c \in Tabs : c # b => tabs'[c] = tabs[c]
    BY <1>1, OthersKeep
  <2>1. CASE TakeAnswer(b)
    <3>1. PICK s \in Slots :
            /\ tabs[b].pc = "wait" /\ tabs[b].slot = s /\ tabs'[b].pc # "wait"
            /\ \A r \in Slots : r # s => srv'[r] = srv[r]
      BY <2>1, AnswerEffect
    <3> QED BY <3>1, <2>o, <1>0 DEF WaitInv, Busy
  <2>2. CASE store.refresh # None /\ \E then : StartRefresh(b, then)
    <3>1. PICK then : StartRefresh(b, then)
      BY <2>2
    <3>2. PICK s \in Slots :
            /\ srv[s] = Free
            /\ srv'[s] = [pc |-> "lookup", token |-> store.refresh, fresh |-> None]
            /\ \A r \in Slots : r # s => srv'[r] = srv[r]
            /\ tabs'[b].slot = s /\ tabs'[b].held = store.refresh
      BY <2>2, <3>1, RefreshEffect
    <3>3. srv'[s].token = store.refresh /\ srv'[s] # Free
      BY <3>2 DEF Free
    <3>4. \A c \in Tabs : c # b /\ tabs[c].pc = "wait" => tabs[c].slot # s
      BY <3>2 DEF WaitInv, Busy
    <3> QED BY <3>2, <3>3, <3>4, <2>o, <1>0 DEF WaitInv, Busy
  <2>3. CASE srv' = srv /\ tabs'[b].pc # "wait"
    BY <2>3, <2>o DEF WaitInv, Busy
  <2> QED BY <1>1, <2>1, <2>2, <2>3, WaysOfATab
<1>2. ASSUME NEW s \in Slots, Discard(s) PROVE WaitInv'
  BY <1>2, <1>0 DEF Discard, WaitInv, Busy
<1>3. ASSUME NEW s \in Slots, ServerStep(s) \/ Fail(s), UNCHANGED clientVars PROVE WaitInv'
  BY <1>3, StatementEffect DEF WaitInv, clientVars
<1>4. CASE Tick
  BY <1>4 DEF Tick, Advance, clientVars, WaitInv, Busy
<1>5. CASE UNCHANGED vars
  BY <1>5 DEF vars, WaitInv, Busy
<1> QED BY <1>1, <1>2, <1>3, <1>4, <1>5 DEF Next

-----------------------------------------------------------------------------
(***************************************************************************)
(* Where a new token is.                                                   *)
(***************************************************************************)

\* The tab has been answered and has not stored the new refresh token yet.
Storing(b) == tabs[b].pc \in {"storeAccess", "storeRefresh"}

\* A token on its way from the server to the store.
Carried(t) ==
  \/ \E s \in Slots : Busy(s) /\ srv[s].fresh = t
  \/ \E b \in Tabs : Storing(b) /\ tabs[b].fresh = t

\* A new token is on its way in one place only; it was never stored, sent or retired.
CarryInv ==
  /\ \A s \in Slots : Busy(s) =>
        /\ signed[srv[s].token] > 0
        /\ srv[s].fresh # None <=> srv[s].pc \in {"retire", "ok"}
  /\ \A b \in Tabs : Storing(b) => tabs[b].fresh \in Tokens
  /\ store.refresh # None => signed[store.refresh] > 0
  /\ \A t \in Tokens : Carried(t) =>
        /\ signed[t] > 0 /\ retired[t] = 0 /\ store.refresh # t
        /\ \A s \in Slots : srv[s].token # t
  /\ \A s, r \in Slots :
        Busy(s) /\ Busy(r) /\ srv[s].fresh = srv[r].fresh /\ srv[s].fresh # None => s = r
  /\ \A b, c \in Tabs : Storing(b) /\ Storing(c) /\ tabs[b].fresh = tabs[c].fresh => b = c
  /\ \A s \in Slots, b \in Tabs : Busy(s) /\ Storing(b) => srv[s].fresh # tabs[b].fresh

\* A step that carries nothing new, and stores or sends nothing that is carried.
LEMMA CarriesNothingNew ==
  ASSUME TypeOK, CarryInv,
         \A t \in Tokens : signed[t] > 0 => signed'[t] > 0,
         retired' = retired,
         store'.refresh \in {store.refresh, None},
         srv' = srv,
         \A b \in Tabs : Storing(b)' => Storing(b) /\ tabs'[b].fresh = tabs[b].fresh
  PROVE  CarryInv'
<1>0. /\ srv \in [Slots -> SrvRecord \cup {Free}] /\ tabs \in [Tabs -> TabRecord]
      /\ store.refresh \in Tokens \cup {None} /\ None \notin Tokens
  BY ServerConstants DEF TypeOK, ServerTypeOK, SrvRecord, TabRecord
<1>1. \A s \in Slots : Busy(s)' <=> Busy(s)
  BY DEF Busy
<1>2. \A t \in Tokens : Carried(t)' => Carried(t)
  BY <1>1 DEF Carried
<1>3. \A s \in Slots : Busy(s) => srv[s].token \in Tokens
  BY <1>0 DEF Busy, SrvRecord
<1>4. store'.refresh # None => signed'[store'.refresh] > 0
  BY <1>0 DEF CarryInv
<1> QED BY <1>0, <1>1, <1>2, <1>3, <1>4 DEF CarryInv

\* A step of a tab keeps CarryInv.
LEMMA TabsCarry ==
  ASSUME TypeOK, TypeOK', RowInv, CarryInv, NEW b \in Tabs, TabStep(b)
  PROVE  CarryInv'
<1>0. /\ srv \in [Slots -> SrvRecord \cup {Free}] /\ tabs \in [Tabs -> TabRecord]
      /\ store.refresh \in Tokens \cup {None} /\ tabs[b] \in TabRecord
      /\ signed \in [Tokens -> Nat] /\ None \notin Tokens
  BY ServerConstants DEF TypeOK, ServerTypeOK, SrvRecord, TabRecord
<1>o. \A c \in Tabs : c # b => tabs'[c] = tabs[c]
  BY OthersKeep
<1>p. /\ Settled(tabs[b]).pc = "idle" /\ Expired(b).pc = "clearAccess"
      /\ Resume(b).pc \in {"idle", "resend"}
  BY <1>0 DEF Settled, Expired, Resume, TabRecord
\* Most steps bring the tab to no place where it would carry a token.
<1>q. ASSUME \A t \in Tokens : signed[t] > 0 => signed'[t] > 0, retired' = retired, srv' = srv,
             store'.refresh \in {store.refresh, None},
             tabs'[b].pc \notin {"storeAccess", "storeRefresh"}
      PROVE  CarryInv'
  BY <1>q, <1>o, CarriesNothingNew DEF Storing
<1>1. CASE Login(b)
  <2>1. PICK t \in Tokens : /\ Issue(t)
                            /\ store' = [access |-> t, refresh |-> t, user |-> TRUE]
                            /\ tabs' = [tabs EXCEPT ![b].in = TRUE, ![b].access = t]
    BY <1>1 DEF Login
  <2>2. /\ \A u \in Tokens : signed[u] > 0 => signed'[u] > 0
        /\ signed'[t] > 0 /\ signed[t] = 0 /\ store'.refresh = t
        /\ retired' = retired /\ srv' = srv
    BY <2>1, <1>1, <1>0 DEF Issue, Login, TypeOK, ServerTypeOK
  <2>3. ~Carried(t)
    BY <2>2 DEF CarryInv
  <2>4. \A c \in Tabs : (Storing(c)' <=> Storing(c)) /\ (Storing(c) => tabs'[c] = tabs[c])
    BY <2>1, <1>0, <1>1, <1>o DEF Storing, Login, TabRecord
  <2>5. \A u \in Tokens : Carried(u)' => Carried(u)
    BY <2>2, <2>4 DEF Carried, Busy
  <2>6. \A s \in Slots : Busy(s) => srv[s].token \in Tokens
    BY <1>0 DEF Busy, SrvRecord
  <2>7. \A u \in Tokens : Carried(u)' =>
          /\ signed'[u] > 0 /\ retired'[u] = 0 /\ store'.refresh # u
          /\ \A r \in Slots : srv'[r].token # u
    BY <2>2, <2>3, <2>5 DEF CarryInv
  <2>8. \A s \in Slots : Busy(s)' =>
          /\ signed'[srv'[s].token] > 0
          /\ srv'[s].fresh # None <=> srv'[s].pc \in {"retire", "ok"}
    BY <2>2, <2>6 DEF CarryInv, Busy
  <2> QED BY <2>2, <2>4, <2>7, <2>8 DEF CarryInv, Busy
<1>2. ASSUME store.refresh # None, NEW then, StartRefresh(b, then),
             UNCHANGED <<signed, retired, store>>
      PROVE  CarryInv'
  <2>1. PICK s \in Slots :
          /\ srv[s] = Free
          /\ srv'[s] = [pc |-> "lookup", token |-> store.refresh, fresh |-> None]
          /\ \A r \in Slots : r # s => srv'[r] = srv[r]
          /\ tabs'[b].pc = "wait"
    BY <1>2, RefreshEffect
  <2>2. /\ srv'[s].token = store.refresh /\ srv'[s].fresh = None /\ srv'[s].pc = "lookup"
        /\ \A r \in Slots : r # s => srv'[r] = srv[r]
        /\ ~Busy(s) /\ \A r \in Slots : r # s => (Busy(r)' <=> Busy(r))
        /\ tabs'[b].pc = "wait"
    BY <2>1 DEF Busy
  <2>3. \A c \in Tabs : Storing(c)' => c # b /\ Storing(c) /\ tabs'[c] = tabs[c]
    BY <2>2, <1>o DEF Storing
  <2>4. \A t \in Tokens : Carried(t)' => Carried(t)
    BY <2>2, <2>3, <1>0 DEF Carried
  <2>5. \A t \in Tokens : Carried(t)' =>
          /\ signed[t] > 0 /\ retired[t] = 0 /\ store.refresh # t
          /\ \A r \in Slots : srv'[r].token # t
    BY <2>2, <2>4 DEF CarryInv
  <2>6. \A r \in Slots : Busy(r)' =>
          /\ signed[srv'[r].token] > 0
          /\ srv'[r].fresh # None <=> srv'[r].pc \in {"retire", "ok"}
    BY <2>2, <1>2 DEF CarryInv
  <2>7. \A r, q \in Slots : Busy(r)' /\ Busy(q)' /\ srv'[r].fresh = srv'[q].fresh
                              /\ srv'[r].fresh # None => r = q
    BY <2>2 DEF CarryInv
  <2>8. \A r \in Slots, c \in Tabs : Busy(r)' /\ Storing(c)' => srv'[r].fresh # tabs'[c].fresh
    BY <2>2, <2>3, <1>0 DEF CarryInv
  <2> QED BY <1>2, <2>3, <2>5, <2>6, <2>7, <2>8 DEF CarryInv
<1>3. CASE Unauthorized(b) \/ SendLogout(b)
  <2>1. CASE srv' = srv /\ tabs'[b].pc # "wait"
    <3>1. tabs'[b].pc \notin {"storeAccess", "storeRefresh"}
      <4>1. ASSUME NEW then, StartRefresh(b, then) PROVE tabs'[b].pc \in {"wait", "clearAccess"}
        <5>1. CASE store.refresh = None
          BY <4>1, <5>1, <1>0, <1>p DEF StartRefresh
        <5>2. CASE store.refresh # None
          BY <4>1, <5>2, RefreshEffect
        <5> QED BY <5>1, <5>2
      <4> QED BY <1>3, <4>1, <1>0 DEF Unauthorized, SendLogout, Goto, TabRecord
    <3> QED BY <1>3, <2>1, <3>1, <1>q DEF Unauthorized, SendLogout
  <2>2. CASE store.refresh # None /\ \E then : StartRefresh(b, then)
    BY <1>3, <2>2, <1>2 DEF Unauthorized, SendLogout
  <2>3. ~TakeAnswer(b)
    BY <1>3 DEF Unauthorized, SendLogout, TakeAnswer
  <2> QED BY <2>1, <2>2, <2>3, WaysOfATab
<1>4. CASE TakeAnswer(b)
  <2>0. UNCHANGED <<signed, retired, store>>
    BY <1>4 DEF TakeAnswer
  <2>1. PICK s \in Slots :
          /\ Busy(s) /\ srv'[s] = Free /\ tabs[b].pc = "wait"
          /\ \A r \in Slots : r # s => srv'[r] = srv[r]
          /\ \/ /\ srv[s].pc = "ok" /\ tabs'[b].pc = "storeAccess"
                /\ tabs'[b].fresh = srv[s].fresh
             \/ tabs'[b].pc \in {"look", "idle", "outAccess"}
    BY <1>4, AnswerEffect
  <2>2. /\ \A r \in Slots : Busy(r)' => Busy(r) /\ r # s /\ srv'[r] = srv[r]
        /\ srv'[s].token = None
        /\ \A r \in Slots : srv'[r] = srv[r] \/ r = s
    BY <2>1, <1>0 DEF Busy, Free
  <2>3. CASE tabs'[b].pc \in {"look", "idle", "outAccess"}
    <3>1. \A c \in Tabs : Storing(c)' => Storing(c) /\ tabs'[c] = tabs[c]
      BY <2>3, <1>o DEF Storing
    <3>2. \A t \in Tokens : Carried(t)' => Carried(t)
      BY <2>2, <3>1 DEF Carried
    <3>3. \A t \in Tokens : Carried(t)' =>
            /\ signed[t] > 0 /\ retired[t] = 0 /\ store.refresh # t
            /\ \A r \in Slots : srv'[r].token # t
      BY <2>2, <3>2, <1>0 DEF CarryInv
    <3> QED BY <2>0, <2>2, <3>1, <3>3 DEF CarryInv
  <2>4. CASE /\ srv[s].pc = "ok" /\ tabs'[b].pc = "storeAccess"
             /\ tabs'[b].fresh = srv[s].fresh
    <3>1. tabs'[b].fresh = srv[s].fresh /\ tabs'[b].pc = "storeAccess" /\ ~Storing(b)
      BY <2>1, <2>4 DEF Storing
    <3>2. srv[s].fresh \in Tokens
      BY <2>1, <2>4, <1>0 DEF CarryInv, Busy, SrvRecord
    <3>3. \A c \in Tabs : Storing(c)' => c = b \/ (Storing(c) /\ tabs'[c] = tabs[c])
      BY <1>o DEF Storing
    <3>4. \A t \in Tokens : Carried(t)' => Carried(t)
      BY <2>1, <2>2, <3>1, <3>3 DEF Carried
    <3>5. \A t \in Tokens : Carried(t)' =>
            /\ signed[t] > 0 /\ retired[t] = 0 /\ store.refresh # t
            /\ \A r \in Slots : srv'[r].token # t
      BY <2>2, <3>4, <1>0 DEF CarryInv
    <3>6. \A c, d \in Tabs : Storing(c)' /\ Storing(d)' /\ tabs'[c].fresh = tabs'[d].fresh => c = d
      BY <2>1, <3>1, <3>3 DEF CarryInv
    <3>7. \A r \in Slots, c \in Tabs : Busy(r)' /\ Storing(c)' => srv'[r].fresh # tabs'[c].fresh
      <4>1. ASSUME NEW r \in Slots, Busy(r)' PROVE srv'[r].fresh # srv[s].fresh
        BY <4>1, <2>1, <2>2, <3>2, <1>0 DEF CarryInv
      <4> QED BY <4>1, <2>2, <3>1, <3>3 DEF CarryInv
    <3> QED BY <2>0, <2>2, <3>1, <3>2, <3>3, <3>5, <3>6, <3>7 DEF CarryInv
  <2> QED BY <2>1, <2>3, <2>4
<1>5. CASE StoreAccess(b)
  <2>1. tabs'[b].fresh = tabs[b].fresh /\ Storing(b)
    BY <1>5, <1>0 DEF StoreAccess, Goto, TabRecord, Storing
  <2> QED BY <1>5, <2>1, <1>0, <1>o, CarriesNothingNew
          DEF StoreAccess, Storing, serverVars, TypeOK
<1>6. CASE StoreRefresh(b)
  <2>1. /\ Storing(b) /\ store'.refresh = tabs[b].fresh /\ tabs'[b].pc \in {"idle", "resend"}
        /\ UNCHANGED <<signed, retired, srv>>
    BY <1>6, <1>0, <1>p DEF StoreRefresh, Storing, TypeOK, serverVars
  <2>2. \A c \in Tabs : Storing(c)' => c # b /\ Storing(c) /\ tabs'[c] = tabs[c]
    BY <2>1, <1>o DEF Storing
  <2>3. \A s \in Slots : Busy(s)' <=> Busy(s)
    BY <2>1 DEF Busy
  <2>4. \A t \in Tokens : Carried(t)' => Carried(t) /\ t # tabs[b].fresh
    BY <2>1, <2>2, <2>3 DEF Carried, CarryInv
  <2>5. tabs[b].fresh \in Tokens /\ Carried(tabs[b].fresh)
    BY <2>1 DEF Carried, CarryInv
  <2> QED BY <2>1, <2>2, <2>3, <2>4, <2>5 DEF CarryInv
<1>7. CASE Open(b) \/ ClearAccess(b) \/ ClearRefresh(b) \/ StartLogout(b) \/ OutAccess(b)
             \/ Break(b) \/ Close(b)
  <2>1. [tabs[b] EXCEPT !.pc = "outAccess", !.slot = None].pc = "outAccess"
    BY <1>0 DEF TabRecord
  <2>2. tabs'[b].pc \notin {"storeAccess", "storeRefresh"}
    <3>1. CASE Open(b) \/ Close(b)
      <4>1. Opened.pc = "idle" /\ Closed.pc = "closed"
        BY DEF Opened, Closed
      <4>2. tabs'[b] \in {Opened, Closed}
        BY <3>1, <1>0 DEF Open, Opened, Close
      <4> QED BY <4>1, <4>2
    <3>2. CASE ClearAccess(b) \/ ClearRefresh(b) \/ StartLogout(b) \/ OutAccess(b)
      BY <3>2, <1>0 DEF ClearAccess, ClearRefresh, StartLogout, OutAccess, Goto, TabRecord
    <3>3. CASE Break(b)
      BY <3>3, <2>1, <1>0, <1>p DEF Break
    <3> QED BY <1>7, <3>1, <3>2, <3>3
  <2>3. /\ UNCHANGED <<signed, retired, srv>>
        /\ store'.refresh \in {store.refresh, None}
    BY <1>7 DEF Open, ClearAccess, ClearRefresh, StartLogout, OutAccess, Break, Close,
                serverVars, TypeOK
  <2> QED BY <2>2, <2>3, <1>q
<1>8. CASE Look(b)
  <2>1. /\ [Resume(b) EXCEPT !.access = store.access].pc \in {"idle", "resend"}
        /\ [tabs[b] EXCEPT !.pc = "lookAgain", !.since = now].pc = "lookAgain"
    <3>1. Resume(b) \in TabRecord
      BY TabRecords
    <3> QED BY <3>1, <1>0, <1>p DEF TabRecord
  <2>2. tabs'[b].pc \notin {"storeAccess", "storeRefresh"}
    BY <1>8, <2>1, <1>0, <1>p DEF Look
  <2> QED BY <2>2, <1>8, <1>q DEF Look, serverVars
<1>9. CASE Wipe(b)
  <2>1. [Settled(tabs[b]) EXCEPT !.in = FALSE, !.access = None].pc = "idle"
    BY TabRecords, <1>p DEF TabRecord
  <2> QED BY <2>1, <1>9, <1>0, <1>q DEF Wipe, serverVars
<1> QED BY <1>1, <1>3, <1>4, <1>5, <1>6, <1>7, <1>8, <1>9 DEF TabStep

\* A statement of the server keeps CarryInv.
LEMMA StatementsCarry ==
  ASSUME TypeOK, TypeOK', RowInv, CarryInv, NEW s \in Slots, ServerStep(s) \/ Fail(s),
         UNCHANGED clientVars
  PROVE  CarryInv'
<1>0. /\ srv \in [Slots -> SrvRecord \cup {Free}] /\ tabs \in [Tabs -> TabRecord]
      /\ signed \in [Tokens -> Nat] /\ None \notin Tokens
      /\ store' = store /\ tabs' = tabs /\ store.refresh \in Tokens \cup {None}
  BY ServerConstants DEF TypeOK, ServerTypeOK, SrvRecord, TabRecord, clientVars
<1>1. /\ Busy(s) /\ srv[s] \in SrvRecord /\ srv'[s] \in SrvRecord
      /\ srv'[s].token = srv[s].token
      /\ \A r \in Slots : r # s => srv'[r] = srv[r]
      /\ \A r \in Slots : Busy(r)' <=> Busy(r)
      /\ \A c \in Tabs : Storing(c)' <=> Storing(c)
  BY <1>0, StatementEffect DEF Storing
<1>2. \A r \in Slots : Busy(r) => srv[r].token \in Tokens
  BY <1>0 DEF Busy, SrvRecord
<1>t. \A r \in Slots : srv'[r].token = srv[r].token
  BY <1>1
<1>3. ASSUME srv'[s].fresh = srv[s].fresh, signed' = signed,
             srv[s].pc \in {"retire", "ok"} <=> srv'[s].pc \in {"retire", "ok"},
             \A t \in Tokens : t # srv[s].token => retired'[t] = retired[t]
      PROVE  CarryInv'
  <2>1. \A r \in Slots : srv'[r].fresh = srv[r].fresh
    BY <1>1, <1>3
  <2>2. \A t \in Tokens : Carried(t)' <=> Carried(t)
    BY <1>0, <1>1, <2>1 DEF Carried
  <2>3. \A t \in Tokens : Carried(t)' =>
          /\ signed'[t] > 0 /\ retired'[t] = 0 /\ store.refresh # t
          /\ \A r \in Slots : srv'[r].token # t
    BY <2>2, <1>t, <1>3 DEF CarryInv
  <2>4. \A r \in Slots : Busy(r)' =>
          /\ signed'[srv'[r].token] > 0
          /\ srv'[r].fresh # None <=> srv'[r].pc \in {"retire", "ok"}
    BY <1>1, <1>t, <1>3 DEF CarryInv
  <2> QED BY <1>0, <1>1, <1>3, <2>1, <2>3, <2>4 DEF CarryInv
<1>4. CASE Lookup(s)
  BY <1>4, <1>0, <1>1, <1>3 DEF Lookup, SrvRecord
<1>5. CASE Fail(s)
  BY <1>5, <1>0, <1>1, <1>3 DEF Fail, SrvRecord
<1>6. CASE Retire(s)
  <2>1. \A t \in Tokens : t # srv[s].token => retired'[t] = retired[t]
    BY <1>6 DEF Retire, TypeOK, ServerTypeOK
  <2>2. srv'[s].fresh = srv[s].fresh /\ srv'[s].pc = "ok" /\ srv[s].pc = "retire"
    BY <1>6, <1>0, <1>1 DEF Retire, SrvRecord
  <2> QED BY <1>6, <1>3, <2>1, <2>2 DEF Retire
<1>7. CASE IssueFresh(s)
  <2>1. PICK t \in Tokens :
          Issue(t) /\ srv' = [srv EXCEPT ![s].pc = "retire", ![s].fresh = t]
    BY <1>7 DEF IssueFresh
  <2>2. srv'[s].fresh = t /\ srv'[s].pc = "retire"
    <3>1. srv'[s] = [srv[s] EXCEPT !.pc = "retire", !.fresh = t]
      BY <2>1, <1>0
    <3> QED BY <3>1, <1>1 DEF SrvRecord
  <2>3. /\ \A u \in Tokens : signed[u] > 0 => signed'[u] > 0
        /\ signed'[t] > 0 /\ signed[t] = 0 /\ retired[t] = 0 /\ retired' = retired
    BY <1>7, <2>1, <1>0 DEF Issue, IssueFresh, RowInv, TypeOK, ServerTypeOK
  <2>4. /\ ~Carried(t) /\ store.refresh # t
        /\ \A r \in Slots : Busy(r) => srv[r].token # t
        /\ \A r \in Slots : srv[r].token # t
    BY <2>3, <1>0 DEF CarryInv, Busy, Free
  <2>5. \A u \in Tokens : Carried(u)' => Carried(u) \/ u = t
    BY <1>0, <1>1, <2>2 DEF Carried
  <2>6. \A u \in Tokens : Carried(u)' =>
          /\ signed'[u] > 0 /\ retired'[u] = 0 /\ store.refresh # u
          /\ \A r \in Slots : srv'[r].token # u
    BY <2>3, <2>4, <2>5, <1>t DEF CarryInv
  <2>7. \A r, q \in Slots : Busy(r)' /\ Busy(q)' /\ srv'[r].fresh = srv'[q].fresh
                              /\ srv'[r].fresh # None => r = q
    BY <1>1, <2>2, <2>4 DEF CarryInv, Carried
  <2>8. \A r \in Slots, c \in Tabs : Busy(r)' /\ Storing(c)' => srv'[r].fresh # tabs'[c].fresh
    BY <1>0, <1>1, <2>2, <2>4 DEF CarryInv, Carried
  <2>9. \A r \in Slots : Busy(r)' =>
          /\ signed'[srv'[r].token] > 0
          /\ srv'[r].fresh # None <=> srv'[r].pc \in {"retire", "ok"}
    BY <1>0, <1>1, <1>2, <1>t, <2>2, <2>3 DEF CarryInv
  <2> QED BY <1>0, <1>1, <2>3, <2>6, <2>7, <2>8, <2>9 DEF CarryInv
<1> QED BY <1>4, <1>5, <1>6, <1>7 DEF ServerStep

LEMMA CarryKept ==
  ASSUME TypeOK, TypeOK', RowInv, CarryInv, [Next]_vars
  PROVE  CarryInv'
<1>1. ASSUME NEW b \in Tabs, TabStep(b) PROVE CarryInv'
  BY <1>1, TabsCarry
<1>2. ASSUME NEW s \in Slots, Discard(s) PROVE CarryInv'
  <2>0. srv \in [Slots -> SrvRecord \cup {Free}] /\ None \notin Tokens
    BY ServerConstants DEF TypeOK, ServerTypeOK, SrvRecord
  <2>1. /\ \A r \in Slots : Busy(r)' => Busy(r) /\ srv'[r] = srv[r]
        /\ \A r \in Slots : srv'[r] = srv[r] \/ srv'[r].token = None
        /\ UNCHANGED <<signed, retired, store, tabs>>
    BY <1>2, <2>0 DEF Discard, Busy, Free
  <2>2. \A t \in Tokens : Carried(t)' => Carried(t)
    BY <2>1 DEF Carried, Storing
  <2>3. \A t \in Tokens : Carried(t)' =>
          /\ signed[t] > 0 /\ retired[t] = 0 /\ store.refresh # t
          /\ \A r \in Slots : srv'[r].token # t
    BY <2>0, <2>1, <2>2 DEF CarryInv
  <2> QED BY <2>1, <2>3 DEF CarryInv, Storing
<1>3. ASSUME NEW s \in Slots, ServerStep(s) \/ Fail(s), UNCHANGED clientVars PROVE CarryInv'
  BY <1>3, StatementsCarry
<1>4. CASE Tick
  BY <1>4, CarriesNothingNew DEF Tick, Advance, clientVars, Storing
<1>5. CASE UNCHANGED vars
  BY <1>5, CarriesNothingNew DEF vars, Storing
<1> QED BY <1>1, <1>2, <1>3, <1>4, <1>5 DEF Next

-----------------------------------------------------------------------------
(***************************************************************************)
(* Whom a race signs out.                                                  *)
(***************************************************************************)

\* What no step takes back.
LEMMA OneWay ==
  ASSUME TypeOK, [Next]_vars
  PROVE  /\ now' \in {now, now + 1} /\ revoked \subseteq revoked' /\ (loss => loss')
         /\ \A t \in Tokens :
              /\ signed[t] > 0 => signed'[t] = signed[t] /\ expires'[t] <= expires[t]
              /\ retired[t] > 0 => retired'[t] = retired[t]
<1> USE ServerConstants DEF TypeOK, ServerTypeOK
<1>1. ASSUME NEW b \in Tabs, TabStep(b)
      PROVE  /\ now' = now /\ revoked \subseteq revoked' /\ (loss => loss') /\ retired' = retired
             /\ \A t \in Tokens :
                  signed[t] > 0 => signed'[t] = signed[t] /\ expires'[t] <= expires[t]
  <2>1. CASE Login(b)
    BY <2>1 DEF Login, Issue
  <2>2. CASE SendLogout(b)
    <3>1. CASE AccessValid(tabs[b].access) /\ Revokes(b) # None
      BY <2>2, <3>1 DEF SendLogout, DeleteSession
    <3>2. CASE ~(AccessValid(tabs[b].access) /\ Revokes(b) # None)
      BY <2>2, <3>2 DEF SendLogout
    <3> QED BY <3>1, <3>2
  <2>3. ASSUME \/ Open(b) \/ Unauthorized(b) \/ TakeAnswer(b) \/ StoreAccess(b)
               \/ StoreRefresh(b) \/ Look(b) \/ ClearAccess(b) \/ ClearRefresh(b)
               \/ Wipe(b) \/ StartLogout(b) \/ OutAccess(b) \/ Break(b) \/ Close(b)
        PROVE  UNCHANGED <<now, signed, expires, retired, revoked>> /\ (loss => loss')
    <3> HIDE DEF TypeOK, ServerTypeOK
    <3>1. CASE Open(b) \/ Unauthorized(b) \/ StoreAccess(b)
                 \/ StoreRefresh(b) \/ Look(b) \/ ClearAccess(b) \/ ClearRefresh(b)
      BY <3>1 DEF Open, Unauthorized, StoreAccess, StoreRefresh, Look, ClearAccess,
                  ClearRefresh, serverVars
    <3>3. CASE TakeAnswer(b)
      BY <3>3, AnswerEffect DEF TakeAnswer
    <3>2. CASE Wipe(b) \/ StartLogout(b) \/ OutAccess(b) \/ Break(b) \/ Close(b)
      BY <3>2 DEF Wipe, StartLogout, OutAccess, Break, Close, serverVars
    <3> QED BY <2>3, <3>1, <3>2, <3>3
  <2>4. CASE UNCHANGED <<now, signed, expires, retired, revoked>> /\ (loss => loss')
    BY <2>4
  <2> QED BY <1>1, <2>1, <2>2, <2>3, <2>4 DEF TabStep
<1>2. ASSUME NEW s \in Slots, ServerStep(s) \/ Fail(s), UNCHANGED clientVars
      PROVE  /\ now' = now /\ revoked' = revoked /\ loss' = loss
             /\ \A t \in Tokens :
                  /\ signed[t] > 0 => signed'[t] = signed[t] /\ expires'[t] <= expires[t]
                  /\ retired[t] > 0 => retired'[t] = retired[t]
  <2>1. CASE Lookup(s) \/ Fail(s)
    BY <2>1, <1>2 DEF Lookup, Fail, clientVars
  <2>2. CASE IssueFresh(s)
    BY <2>2, <1>2 DEF IssueFresh, Issue, clientVars
  <2>3. CASE Retire(s)
    BY <2>3, <1>2 DEF Retire, RetireAt, Least, clientVars
  <2> QED BY <1>2, <2>1, <2>2, <2>3 DEF ServerStep
<1>3. ASSUME NEW s \in Slots, Discard(s)
      PROVE  UNCHANGED <<now, signed, expires, retired, revoked, loss>>
  BY <1>3 DEF Discard
<1>4. CASE Tick
  BY <1>4 DEF Tick, Advance, clientVars
<1>5. CASE UNCHANGED vars
  BY <1>5 DEF vars
<1> QED BY <1>1, <1>2, <1>3, <1>4, <1>5 DEF Next

\* What has ended a session is never undone.
LEMMA QuietBefore ==
  ASSUME TypeOK, [Next]_vars, Quiet'
  PROVE  Quiet
  BY OneWay, ServerConstants DEF Quiet, Genuine, TypeOK, ServerTypeOK

\* A token the server takes no more.
Over(t) == t \in Tokens /\ signed[t] > 0 /\ ~Live(t)

\* What the server has rejected, and a tab looks at, is over.
RefusedInv ==
  /\ \A s \in Slots : Busy(s) /\ srv[s].pc = "rejected" => Over(srv[s].token)
  /\ \A b \in Tabs : tabs[b].pc \in {"look", "lookAgain"} => Over(tabs[b].held)

LEMMA RefusedKept ==
  ASSUME TypeOK, TypeOK', RowInv, WaitInv, CarryInv, RefusedInv, [Next]_vars
  PROVE  RefusedInv'
<1>0. /\ srv \in [Slots -> SrvRecord \cup {Free}] /\ tabs \in [Tabs -> TabRecord]
  BY DEF TypeOK, ServerTypeOK, SrvRecord, TabRecord
<1>1. \A t \in Tokens : Over(t) => Over(t)'
  <2> SUFFICES ASSUME NEW t, Over(t) PROVE Over(t)'
    OBVIOUS
  <2>1. /\ t \in Tokens /\ signed'[t] = signed[t] /\ expires'[t] <= expires[t]
        /\ now' \in {now, now + 1}
    BY OneWay DEF Over
  <2>2. /\ now \in Nat /\ expires[t] \in Int /\ signed[t] > 0 /\ ~(expires[t] > now)
    BY <2>1, ServerConstants DEF Over, Live, TypeOK, ServerTypeOK
  <2>3. now' \in Nat /\ expires'[t] \in Int
    BY <2>1, <2>2, ServerConstants DEF TypeOK, ServerTypeOK
  <2>4. ~(expires'[t] > now')
    BY <2>1, <2>2, <2>3
  <2> QED BY <2>1, <2>2, <2>4 DEF Over, Live
<1>2. ASSUME NEW b \in Tabs, TabStep(b)
      PROVE  RefusedInv'
  <2>o. \A c \in Tabs : c # b => tabs'[c] = tabs[c]
    BY <1>2, OthersKeep
  <2>1. CASE TakeAnswer(b)
    <3>1. PICK s \in Slots :
            /\ tabs[b].pc = "wait" /\ tabs[b].slot = s /\ Busy(s)
            /\ srv'[s] = Free
            /\ \A r \in Slots : r # s => srv'[r] = srv[r]
            /\ \/ tabs'[b].pc \in {"storeAccess", "idle", "outAccess"}
               \/ /\ srv[s].pc = "rejected"
                  /\ tabs'[b].pc = "look" /\ tabs'[b].held = tabs[b].held
      BY <2>1, AnswerEffect
    <3>2. tabs'[b].pc \in {"look", "lookAgain"} => Over(tabs'[b].held)
      BY <3>1 DEF RefusedInv, WaitInv
    <3> QED BY <3>1, <3>2, <2>o, <1>1 DEF RefusedInv, Busy, Over
  <2>2. CASE store.refresh # None /\ \E then : StartRefresh(b, then)
    <3>1. PICK then : StartRefresh(b, then)
      BY <2>2
    <3>2. PICK s \in Slots :
            /\ srv'[s] = [pc |-> "lookup", token |-> store.refresh, fresh |-> None]
            /\ \A r \in Slots : r # s => srv'[r] = srv[r]
            /\ tabs'[b].pc = "wait"
      BY <2>2, <3>1, RefreshEffect
    <3> QED BY <3>2, <2>o, <1>1 DEF RefusedInv, Busy, Over
  <2>3. CASE srv' = srv /\ tabs'[b].pc # "wait"
    <3>1. CASE Look(b)
      <4>1. \/ tabs'[b].pc \notin {"look", "lookAgain"}
            \/ tabs'[b].held = tabs[b].held
        <5>1. [Resume(b) EXCEPT !.access = store.access].pc \in {"idle", "resend"}
          <6>1. Resume(b).pc \in {"idle", "resend"}
            BY <1>0 DEF Resume, Settled, TabRecord
          <6> QED BY <6>1, TabRecords DEF TabRecord
        <5>2. [tabs[b] EXCEPT !.pc = "lookAgain", !.since = now].held = tabs[b].held
          BY <1>0 DEF TabRecord
        <5>3. Expired(b).pc = "clearAccess"
          BY TabRecords DEF Expired, TabRecord
        <5> QED BY <5>1, <5>2, <5>3, <3>1, <1>0 DEF Look
      <4> QED BY <4>1, <3>1, <2>3, <2>o, <1>1 DEF Look, RefusedInv, Busy, Over
    <3>2. CASE ~Look(b)
      <4>1. tabs'[b].pc \notin {"look", "lookAgain"}
        <5>1. CASE Open(b) \/ Close(b)
          <6>1. Opened.pc = "idle" /\ Closed.pc = "closed"
            BY DEF Opened, Closed
          <6>2. tabs'[b] \in {Opened, Closed}
            BY <5>1, <1>0 DEF Open, Opened, Close
          <6> QED BY <6>1, <6>2
        <5>2. CASE Login(b) \/ StoreAccess(b) \/ ClearAccess(b) \/ ClearRefresh(b)
                     \/ OutAccess(b) \/ StartLogout(b)
          BY <5>2, <1>0 DEF Login, StoreAccess, ClearAccess, ClearRefresh, OutAccess,
                            StartLogout, Goto, TabRecord
        <5>3. CASE Unauthorized(b) \/ SendLogout(b)
          <6>1. ASSUME NEW then, StartRefresh(b, then) PROVE tabs'[b].pc = "clearAccess"
            <7>1. store.refresh = None
              BY <2>3, <6>1, RefreshEffect
            <7>2. Expired(b).pc = "clearAccess"
              BY TabRecords DEF Expired, TabRecord
            <7> QED BY <6>1, <7>1, <7>2, <1>0 DEF StartRefresh
          <6> QED BY <5>3, <6>1, <1>0 DEF Unauthorized, SendLogout, Goto, TabRecord
        <5>4. CASE TakeAnswer(b)
          <6>1. PICK s \in Slots : Busy(s) /\ srv'[s] = Free
            BY <5>4, AnswerEffect
          <6> QED BY <6>1, <2>3 DEF Busy
        <5>5. CASE StoreRefresh(b)
          <6>1. Resume(b).pc \in {"idle", "resend"}
            BY <1>0 DEF Resume, Settled, TabRecord
          <6> QED BY <6>1, <5>5, <1>0 DEF StoreRefresh
        <5>6. CASE Wipe(b)
          <6>2. Settled(tabs[b]).pc = "idle"
            BY <1>0 DEF Settled, TabRecord
          <6>1. [Settled(tabs[b]) EXCEPT !.in = FALSE, !.access = None].pc = "idle"
            BY <6>2, TabRecords DEF TabRecord
          <6> QED BY <6>1, <5>6, <1>0 DEF Wipe
        <5>7. CASE Break(b)
          <6>1. /\ Settled(tabs[b]).pc = "idle"
                /\ [tabs[b] EXCEPT !.pc = "outAccess", !.slot = None].pc = "outAccess"
            BY <1>0 DEF Settled, TabRecord
          <6> QED BY <6>1, <5>7, <1>0 DEF Break
        <5> QED BY <1>2, <3>2, <5>1, <5>2, <5>3, <5>4, <5>5, <5>6, <5>7 DEF TabStep
      <4> QED BY <4>1, <2>3, <2>o, <1>1 DEF RefusedInv, Busy, Over
    <3> QED BY <3>1, <3>2
  <2> QED BY <1>2, <2>1, <2>2, <2>3, WaysOfATab
<1>3. ASSUME NEW s \in Slots, ServerStep(s) \/ Fail(s), UNCHANGED clientVars
      PROVE  RefusedInv'
  <2>0. /\ Busy(s) /\ srv[s] \in SrvRecord /\ srv'[s] \in SrvRecord
        /\ srv'[s].token = srv[s].token
        /\ \A r \in Slots : r # s => srv'[r] = srv[r]
        /\ \A r \in Slots : Busy(r)' <=> Busy(r)
    BY <1>3, StatementEffect
  <2>1. ASSUME srv'[s].pc = "rejected" PROVE Over(srv[s].token)
    <3>1. Lookup(s)
      <4>1. IssueFresh(s) => srv'[s].pc = "retire"
        <5>1. ASSUME IssueFresh(s) PROVE srv'[s].pc = "retire"
          <6>1. PICK t \in Tokens : srv' = [srv EXCEPT ![s].pc = "retire", ![s].fresh = t]
            BY <5>1 DEF IssueFresh
          <6>2. srv'[s] = [srv[s] EXCEPT !.pc = "retire", !.fresh = t]
            BY <6>1, <1>0
          <6> QED BY <6>2, <2>0 DEF SrvRecord
        <5> QED BY <5>1
      <4>2. Retire(s) \/ Fail(s) => srv'[s].pc # "rejected"
        BY <1>0, <2>0 DEF Retire, Fail, SrvRecord
      <4> QED BY <1>3, <2>1, <4>1, <4>2 DEF ServerStep
    <3>2. ~(Genuine(srv[s].token) /\ Live(srv[s].token))
      BY <2>1, <3>1, <1>0 DEF Lookup, SrvRecord
    <3>3. srv[s].token \in Tokens /\ signed[srv[s].token] > 0
      BY <2>0 DEF CarryInv, SrvRecord
    <3>4. Live(srv[s].token) => Genuine(srv[s].token)
      BY <3>3, ServerConstants DEF RowInv, End, Least, Live, Genuine, TypeOK, ServerTypeOK
    <3> QED BY <3>2, <3>3, <3>4 DEF Over
  <2> QED BY <2>0, <2>1, <1>1, <1>3 DEF RefusedInv, clientVars, Over
<1>4. ASSUME NEW s \in Slots, Discard(s) PROVE RefusedInv'
  BY <1>4, <1>1, <1>0 DEF Discard, RefusedInv, Busy, Over
<1>5. CASE Tick
  BY <1>5, <1>1 DEF Tick, Advance, clientVars, RefusedInv, Busy, Over
<1>6. CASE UNCHANGED vars
  BY <1>6 DEF vars, RefusedInv, Busy, Over, Live
<1> QED BY <1>2, <1>3, <1>4, <1>5, <1>6 DEF Next

\* A token that is over although nothing has ended a session: the grace period after
\* its retirement has passed.
DeadSince(t, time) == t \in Tokens /\ retired[t] > 0 /\ retired[t] + Grace <= time

\* The refresh that retired t first is answered, but the answer not stored yet.
Replacing(t) ==
  \E b \in Tabs :
    /\ tabs[b].held = t /\ tabs[b].since <= retired[t]
    /\ Storing(b) \/ (tabs[b].pc = "wait" /\ srv[tabs[b].slot].pc = "ok")

\* Every request has a tab that waits for it.
Served ==
  \A s \in Slots : Busy(s) => \E b \in Tabs : tabs[b].pc = "wait" /\ tabs[b].slot = s

\* No session is being cleared: whoever is signed in finds a token.
SignedIn ==
  \A b \in Tabs :
    /\ tabs[b].pc \notin {"clearAccess", "clearRefresh", "wipe", "outAccess"}
    /\ tabs[b].pc \notin {"new", "closed", "idle"} => tabs[b].in
    /\ tabs[b].in \/ store.user => store.refresh # None
    /\ tabs[b].pc = "send" => tabs[b].held # None

\* Refreshes are fast.
Prompt ==
  \A b \in Tabs : tabs[b].pc = "wait" \/ Storing(b) =>
    tabs[b].since <= now /\ now <= tabs[b].since + MaxDelay

\* What is refused has been replaced a while ago.
Rotated ==
  /\ \A s \in Slots : Busy(s) /\ srv[s].pc = "rejected" => DeadSince(srv[s].token, now)
  /\ \A b \in Tabs : /\ tabs[b].pc = "look" => DeadSince(tabs[b].held, now)
                     /\ tabs[b].pc = "lookAgain" => DeadSince(tabs[b].held, tabs[b].since)

\* A retired token is the stored one only as long as its successor is on its way.
Replaced == \A t \in Tokens : retired[t] > 0 => Replacing(t) \/ store.refresh # t

SessionInv == Served /\ SignedIn /\ Prompt /\ Rotated /\ Replaced

\* While nothing has ended a session, a second look that finds no newer token cannot be:
\* the successor was stored within MaxDelay of the retirement, the second look comes
\* Grace and Settle after it.
LEMMA SecondLookFinds ==
  ASSUME TypeOK, SessionInv, NEW b \in Tabs, tabs[b].pc = "lookAgain",
         now >= tabs[b].since + Settle
  PROVE  MovedOn(b)
<1> DEFINE t == tabs[b].held
<1>1. /\ t \in Tokens /\ retired[t] > 0 /\ retired[t] + Grace <= tabs[b].since
      /\ store.refresh # None
  BY DEF SessionInv, Rotated, DeadSince, SignedIn
<1>2. ~Replacing(t)
  <2> SUFFICES ASSUME Replacing(t) PROVE FALSE
    OBVIOUS
  <2>1. PICK c \in Tabs : /\ tabs[c].since <= retired[t]
                          /\ Storing(c) \/ tabs[c].pc = "wait"
    BY DEF Replacing
  <2>2. now <= tabs[c].since + MaxDelay
    BY <2>1 DEF SessionInv, Prompt
  <2>3. /\ now \in Int /\ retired[t] \in Int /\ tabs[b].since \in Int /\ tabs[c].since \in Int
    BY <1>1 DEF TypeOK, ServerTypeOK
  <2> QED BY <1>1, <2>1, <2>2, <2>3, ServerConstants, TabConstants
<1> QED BY <1>1, <1>2 DEF SessionInv, Replaced, MovedOn

\* The steps that tabs take while nothing ends a session.
LEMMA QuietSteps ==
  ASSUME TypeOK, TypeOK', RowInv, WaitInv, CarryInv, SessionInv, Quiet, Quiet',
         NEW b \in Tabs, TabStep(b)
  PROVE  \/ \* it rests
            /\ srv' = srv /\ store' = store /\ ~Storing(b) /\ tabs[b].pc # "wait"
            /\ tabs'[b].pc \in {"idle", "send", "resend", "lookAgain"}
            /\ tabs'[b].pc # "idle" => tabs'[b].in
            /\ tabs'[b].in => store.refresh # None
            /\ tabs'[b].pc = "send" => tabs'[b].held # None
            /\ tabs'[b].pc = "lookAgain" => DeadSince(tabs'[b].held, tabs'[b].since)
         \/ \* it signs in
            /\ srv' = srv /\ ~Storing(b) /\ tabs[b].pc # "wait" /\ tabs'[b].pc = "idle"
            /\ store'.refresh \in Tokens /\ retired[store'.refresh] = 0
         \/ \* it sends a request
            /\ store' = store /\ ~Storing(b) /\ tabs[b].pc # "wait"
            /\ tabs[b].in /\ store.refresh # None /\ \E then : StartRefresh(b, then)
         \/ TakeAnswer(b) /\ store' = store
         \/ \* it stores the access token
            /\ srv' = srv /\ store'.refresh = store.refresh /\ store'.user = store.user
            /\ Storing(b) /\ tabs'[b].pc = "storeRefresh" /\ tabs'[b].in = tabs[b].in
            /\ tabs'[b].held = tabs[b].held /\ tabs'[b].since = tabs[b].since
         \/ \* it stores the refresh token
            /\ srv' = srv /\ store'.refresh = tabs[b].fresh /\ Storing(b)
            /\ tabs'[b].pc \in {"idle", "resend"} /\ tabs'[b].in = tabs[b].in
<1>0. /\ srv \in [Slots -> SrvRecord \cup {Free}] /\ tabs \in [Tabs -> TabRecord]
      /\ tabs[b] \in TabRecord /\ loss \in BOOLEAN /\ None \notin Tokens
      /\ store \in [access : Tokens \cup {None}, refresh : Tokens \cup {None}, user : BOOLEAN]
  BY ServerConstants DEF TypeOK, ServerTypeOK, SrvRecord, TabRecord
<1>1. /\ tabs[b].pc \notin {"clearAccess", "clearRefresh", "wipe", "outAccess"}
      /\ tabs[b].pc \notin {"new", "closed", "idle"} => tabs[b].in
      /\ tabs[b].in \/ store.user => store.refresh # None
      /\ tabs[b].pc = "send" => tabs[b].held # None
  BY DEF SessionInv, SignedIn
<1>2. ~loss' /\ revoked' = {} /\ revoked = {}
  BY DEF Quiet
<1>3. /\ Resume(b) \in TabRecord /\ Resume(b).pc \in {"idle", "resend"}
      /\ Resume(b).in = tabs[b].in
  <2>1. Resume(b) \in TabRecord
    BY TabRecords
  <2> QED BY <2>1, <1>0 DEF Resume, Settled, TabRecord
<1>4. CASE Open(b)
  <2>1. Opened.pc = "idle" /\ Opened.in = store.user
    BY DEF Opened, Closed
  <2>2. tabs'[b] = Opened /\ srv' = srv /\ store' = store /\ tabs[b].pc \in {"new", "closed"}
    BY <1>4, <1>0 DEF Open, Opened, serverVars
  <2> QED BY <2>1, <2>2, <1>0, <1>1 DEF Storing
<1>5. CASE Login(b)
  <2>1. PICK t \in Tokens : /\ Issue(t)
                            /\ store' = [access |-> t, refresh |-> t, user |-> TRUE]
                            /\ tabs' = [tabs EXCEPT ![b].in = TRUE, ![b].access = t]
    BY <1>5 DEF Login
  <2>2. tabs'[b].pc = tabs[b].pc
    BY <2>1, <1>0 DEF TabRecord
  <2>3. store'.refresh = t /\ retired[t] = 0
    BY <2>1 DEF Issue, RowInv
  <2> QED BY <2>2, <2>3, <1>5 DEF Login, Storing
<1>6. CASE Unauthorized(b)
  BY <1>6, <1>1 DEF Unauthorized, Storing
<1>7. CASE TakeAnswer(b)
  BY <1>7 DEF TakeAnswer
<1>8. CASE StoreAccess(b)
  <2>1. [store EXCEPT !.access = tabs[b].fresh].refresh = store.refresh
    BY <1>0
  <2>2. [store EXCEPT !.access = tabs[b].fresh].user = store.user
    BY <1>0
  <2>3. /\ tabs'[b].pc = "storeRefresh" /\ tabs'[b].in = tabs[b].in
        /\ tabs'[b].held = tabs[b].held /\ tabs'[b].since = tabs[b].since
    BY <1>8, <1>0 DEF StoreAccess, Goto, TabRecord
  <2> QED BY <1>8, <2>1, <2>2, <2>3 DEF StoreAccess, Storing, serverVars
<1>9. CASE StoreRefresh(b)
  <2>1. [store EXCEPT !.refresh = tabs[b].fresh].refresh = tabs[b].fresh
    BY <1>0
  <2> QED BY <1>9, <2>1, <1>0, <1>3 DEF StoreRefresh, Storing, serverVars
<1>10. CASE Look(b)
  <2>1. CASE MovedOn(b)
    <3>1. /\ [Resume(b) EXCEPT !.access = store.access].pc = Resume(b).pc
          /\ [Resume(b) EXCEPT !.access = store.access].in = Resume(b).in
      BY <1>3 DEF TabRecord
    <3>2. tabs'[b] = [Resume(b) EXCEPT !.access = store.access]
      BY <1>10, <2>1, <1>0 DEF Look
    <3> QED BY <3>1, <3>2, <1>1, <1>3, <1>10 DEF Look, Storing, serverVars
  <2>2. CASE ~MovedOn(b)
    <3>1. tabs[b].pc = "look"
      BY <2>2, <1>10, SecondLookFinds DEF Look
    <3>2. AfterLook(b) = "lookAgain"
      BY <3>1 DEF AfterLook
    <3>3. tabs'[b] = [tabs[b] EXCEPT !.pc = "lookAgain", !.since = now]
      BY <1>10, <2>2, <3>2, <1>0 DEF Look
    <3>4. /\ tabs'[b].pc = "lookAgain" /\ tabs'[b].since = now /\ tabs'[b].held = tabs[b].held
          /\ tabs'[b].in = tabs[b].in
      BY <3>3, <1>0 DEF TabRecord
    <3>5. DeadSince(tabs[b].held, now)
      BY <3>1 DEF SessionInv, Rotated
    <3> QED BY <3>1, <3>4, <3>5, <1>1, <1>10 DEF Look, Storing, serverVars
  <2> QED BY <2>1, <2>2
<1>11. CASE StartLogout(b)
  <2>1. store.refresh # None
    BY <1>11, <1>1 DEF StartLogout
  <2>2. tabs' = [tabs EXCEPT ![b] = [tabs[b] EXCEPT !.pc = "send", !.held = store.refresh]]
    BY <1>11, <2>1, <1>0 DEF StartLogout
  <2>3. tabs'[b].pc = "send" /\ tabs'[b].held = store.refresh /\ tabs'[b].in = tabs[b].in
    BY <2>2, <1>0 DEF TabRecord
  <2> QED BY <2>1, <2>3, <1>11 DEF StartLogout, Storing, serverVars
<1>12. CASE SendLogout(b)
  <2>1. tabs[b].in /\ store.refresh # None /\ store' = store
    BY <1>12, <1>1 DEF SendLogout
  <2>2. ~AccessValid(tabs[b].access)
    <3>1. Revokes(b) # None
      BY <1>12, <1>1, <2>1 DEF SendLogout, Revokes
    <3>2. AccessValid(tabs[b].access) => revoked' # {}
      BY <1>12, <3>1 DEF SendLogout, DeleteSession
    <3> QED BY <3>2, <1>2
  <2>3. tabs[b].pc = "send"
    BY <1>12, <2>2, <1>2, <1>0 DEF SendLogout
  <2>4. StartRefresh(b, "logout")
    BY <1>12, <2>2, <2>3 DEF SendLogout
  <2> QED BY <2>1, <2>3, <2>4 DEF Storing
<1>13. ~Break(b) /\ ~Close(b)
  BY <1>2 DEF Break, Close
<1>14. ~ClearAccess(b) /\ ~ClearRefresh(b) /\ ~Wipe(b) /\ ~OutAccess(b)
  BY <1>1 DEF ClearAccess, ClearRefresh, Wipe, OutAccess
<1> QED BY <1>4, <1>5, <1>6, <1>7, <1>8, <1>9, <1>10, <1>11, <1>12, <1>13, <1>14 DEF TabStep

\* A step of a tab keeps SessionInv as long as it ends no session.
LEMMA TabsKeepSession ==
  ASSUME TypeOK, TypeOK', RowInv, WaitInv, CarryInv, SessionInv, Quiet, Quiet',
         NEW b \in Tabs, TabStep(b)
  PROVE  SessionInv'
<1>0. /\ srv \in [Slots -> SrvRecord \cup {Free}] /\ tabs \in [Tabs -> TabRecord]
      /\ now \in Int /\ retired \in [Tokens -> Int]
      /\ MaxDelay \in Nat /\ store.refresh \in Tokens \cup {None} /\ None \notin Tokens
  BY ServerConstants, TabConstants DEF TypeOK, ServerTypeOK, SrvRecord, TabRecord
<1>o. \A c \in Tabs : c # b => tabs'[c] = tabs[c]
  BY OthersKeep
<1>n. now' = now /\ retired' = retired
  <2>1. CASE SendLogout(b)
    BY <2>1 DEF SendLogout
  <2>2. CASE Open(b) \/ Login(b) \/ Unauthorized(b) \/ TakeAnswer(b) \/ StoreAccess(b)
               \/ StoreRefresh(b) \/ Look(b) \/ ClearAccess(b) \/ ClearRefresh(b)
    BY <2>2 DEF Open, Login, Unauthorized, TakeAnswer, StoreAccess, StoreRefresh, Look,
                ClearAccess, ClearRefresh, serverVars
  <2>3. CASE Wipe(b) \/ StartLogout(b) \/ OutAccess(b) \/ Break(b) \/ Close(b)
    BY <2>3 DEF Wipe, StartLogout, OutAccess, Break, Close, serverVars
  <2> QED BY <2>1, <2>2, <2>3 DEF TabStep
<1>d. \A t, time : DeadSince(t, time)' <=> DeadSince(t, time)
  BY <1>n DEF DeadSince
\* What the invariant says of the other tabs stays true.
<1>s. ASSUME store'.refresh # None,
             tabs'[b].pc \notin {"clearAccess", "clearRefresh", "wipe", "outAccess"},
             tabs'[b].pc \notin {"new", "closed", "idle"} => tabs'[b].in,
             tabs'[b].pc = "send" => tabs'[b].held # None
      PROVE  SignedIn'
  BY <1>s, <1>o DEF SessionInv, SignedIn
<1>p. ASSUME tabs'[b].pc = "wait" \/ Storing(b)' =>
               tabs'[b].since <= now /\ now <= tabs'[b].since + MaxDelay
      PROVE  Prompt'
  BY <1>p, <1>o, <1>n DEF SessionInv, Prompt, Storing
<1>r. ASSUME \A s \in Slots : Busy(s)' /\ srv'[s].pc = "rejected" =>
                Busy(s) /\ srv[s].pc = "rejected" /\ srv'[s].token = srv[s].token,
             tabs'[b].pc = "look" => DeadSince(tabs'[b].held, now),
             tabs'[b].pc = "lookAgain" => DeadSince(tabs'[b].held, tabs'[b].since)
      PROVE  Rotated'
  BY <1>r, <1>o, <1>n, <1>d DEF SessionInv, Rotated
\* The step of a tab that waits for nothing and stores nothing.
<1>w. ASSUME ~Storing(b), tabs[b].pc # "wait"
      PROVE  /\ \A s \in Slots : Busy(s) =>
                  \E c \in Tabs : c # b /\ tabs[c].pc = "wait" /\ tabs[c].slot = s
             /\ \A t \in Tokens : Replacing(t) =>
                  \E c \in Tabs :
                     /\ c # b /\ tabs[c].held = t /\ tabs[c].since <= retired[t]
                     /\ Storing(c) \/ (tabs[c].pc = "wait" /\ srv[tabs[c].slot].pc = "ok")
  BY <1>w DEF SessionInv, Served, Replacing
<1>v. ASSUME ~Storing(b), tabs[b].pc # "wait", srv' = srv
      PROVE  Served' /\ \A t \in Tokens : Replacing(t) => Replacing(t)'
  <2>1. Served'
    BY <1>v, <1>w, <1>o DEF Served, Busy
  <2>2. ASSUME NEW t \in Tokens, Replacing(t) PROVE Replacing(t)'
    <3>1. PICK c \in Tabs :
            /\ c # b /\ tabs[c].held = t /\ tabs[c].since <= retired[t]
            /\ Storing(c) \/ (tabs[c].pc = "wait" /\ srv[tabs[c].slot].pc = "ok")
      BY <1>v, <1>w, <2>2
    <3> QED BY <3>1, <1>v, <1>o, <1>n DEF Replacing, Storing
  <2> QED BY <2>1, <2>2
<1>1. CASE /\ srv' = srv /\ store' = store /\ ~Storing(b) /\ tabs[b].pc # "wait"
           /\ tabs'[b].pc \in {"idle", "send", "resend", "lookAgain"}
           /\ tabs'[b].pc # "idle" => tabs'[b].in
           /\ tabs'[b].in => store.refresh # None
           /\ tabs'[b].pc = "send" => tabs'[b].held # None
           /\ tabs'[b].pc = "lookAgain" => DeadSince(tabs'[b].held, tabs'[b].since)
  <2>1. Served' /\ \A t \in Tokens : Replacing(t) => Replacing(t)'
    BY <1>1, <1>v
  <2>2. Replaced'
    BY <2>1, <1>1, <1>n DEF SessionInv, Replaced
  <2>3. SignedIn'
    BY <1>1, <1>o DEF SessionInv, SignedIn
  <2>4. Prompt'
    BY <1>1, <1>p DEF Storing
  <2>5. Rotated'
    BY <1>1, <1>r DEF Busy
  <2> QED BY <2>1, <2>2, <2>3, <2>4, <2>5 DEF SessionInv
<1>2. CASE /\ srv' = srv /\ ~Storing(b) /\ tabs[b].pc # "wait" /\ tabs'[b].pc = "idle"
           /\ store'.refresh \in Tokens /\ retired[store'.refresh] = 0
  <2>1. Served'
    BY <1>2, <1>v
  <2>2. Replaced'
    BY <1>2, <1>n DEF Replaced
  <2>3. SignedIn'
    BY <1>2, <1>s, <1>0
  <2>4. Prompt'
    BY <1>2, <1>p DEF Storing
  <2>5. Rotated'
    BY <1>2, <1>r DEF Busy
  <2> QED BY <2>1, <2>2, <2>3, <2>4, <2>5 DEF SessionInv
<1>3. CASE /\ store' = store /\ ~Storing(b) /\ tabs[b].pc # "wait"
           /\ tabs[b].in /\ store.refresh # None /\ \E then : StartRefresh(b, then)
  <2>0. PICK then : StartRefresh(b, then)
    BY <1>3
  <2>s. PICK s \in Slots :
          /\ srv[s] = Free
          /\ srv'[s] = [pc |-> "lookup", token |-> store.refresh, fresh |-> None]
          /\ \A r \in Slots : r # s => srv'[r] = srv[r]
          /\ tabs'[b].pc = "wait" /\ tabs'[b].slot = s /\ tabs'[b].held = store.refresh
          /\ tabs'[b].since = now /\ tabs'[b].then = then /\ tabs'[b].in = tabs[b].in
    BY <1>3, <2>0, RefreshEffect
  <2>1. Served'
    BY <1>3, <1>w, <1>o, <2>s DEF Served, Busy
  <2>2. Replaced'
    <3> SUFFICES ASSUME NEW t \in Tokens, retired[t] > 0, Replacing(t), store.refresh = t
                 PROVE  Replacing(t)'
      BY <1>3, <1>n DEF Replaced, SessionInv
    <3>1. PICK c \in Tabs :
            /\ c # b /\ tabs[c].held = t /\ tabs[c].since <= retired[t]
            /\ Storing(c) \/ (tabs[c].pc = "wait" /\ srv[tabs[c].slot].pc = "ok")
      BY <1>3, <1>w
    <3>2. tabs[c].pc = "wait" => tabs[c].slot \in Slots /\ tabs[c].slot # s
      BY <2>s DEF WaitInv, Busy
    <3> QED BY <3>1, <3>2, <2>s, <1>o, <1>n DEF Replacing, Storing
  <2>3. SignedIn'
    BY <1>3, <1>s, <2>s
  <2>4. Prompt'
    BY <2>s, <1>p, <1>0 DEF Storing
  <2>5. Rotated'
    <3>1. \A r \in Slots : Busy(r)' /\ srv'[r].pc = "rejected" =>
            Busy(r) /\ srv[r].pc = "rejected" /\ srv'[r].token = srv[r].token
      BY <2>s DEF Busy
    <3> QED BY <3>1, <2>s, <1>r
  <2> QED BY <2>1, <2>2, <2>3, <2>4, <2>5 DEF SessionInv
<1>4. CASE TakeAnswer(b) /\ store' = store
  <2>s. PICK s \in Slots :
          /\ tabs[b].pc = "wait" /\ tabs[b].slot = s /\ Busy(s)
          /\ srv'[s] = Free
          /\ \A r \in Slots : r # s => srv'[r] = srv[r]
          /\ tabs'[b].in = tabs[b].in
          /\ \/ /\ srv[s].pc = "ok" /\ tabs'[b].pc = "storeAccess" /\ loss' = loss
                /\ tabs'[b].fresh = srv[s].fresh /\ tabs'[b].since = tabs[b].since
                /\ tabs'[b].held = tabs[b].held /\ tabs'[b].then = tabs[b].then
             \/ /\ srv[s].pc = "rejected" /\ tabs'[b].pc = "look" /\ loss' = loss
                /\ tabs'[b].held = tabs[b].held /\ tabs'[b].then = tabs[b].then
             \/ srv[s].pc = "error" /\ tabs'[b].pc = "idle" /\ loss' = loss
             \/ srv[s].pc = "error" /\ tabs'[b].pc = "outAccess" /\ loss'
    BY <1>4, AnswerEffect
  <2>l. ~loss'
    BY DEF Quiet
  <2>u. \A c \in Tabs : c # b /\ tabs[c].pc = "wait" => tabs[c].slot \in Slots \ {s}
    BY <2>s DEF WaitInv
  <2>i. tabs[b].in /\ store.refresh # None /\ tabs'[b].pc \in {"storeAccess", "look", "idle"}
    BY <2>s, <2>l DEF SessionInv, SignedIn
  <2>1. Served'
    <3>1. ASSUME NEW r \in Slots, Busy(r)'
          PROVE  \E c \in Tabs : tabs'[c].pc = "wait" /\ tabs'[c].slot = r
      <4>1. r # s /\ Busy(r)
        BY <3>1, <2>s DEF Busy
      <4>2. PICK c \in Tabs : tabs[c].pc = "wait" /\ tabs[c].slot = r
        BY <4>1 DEF SessionInv, Served
      <4> QED BY <4>1, <4>2, <2>s, <1>o
    <3> QED BY <3>1 DEF Served
  <2>2. Replaced'
    <3> SUFFICES ASSUME NEW t \in Tokens, retired[t] > 0, Replacing(t), store.refresh = t
                 PROVE  Replacing(t)'
      BY <1>4, <1>n DEF Replaced, SessionInv
    <3>1. PICK c \in Tabs :
            /\ tabs[c].held = t /\ tabs[c].since <= retired[t]
            /\ Storing(c) \/ (tabs[c].pc = "wait" /\ srv[tabs[c].slot].pc = "ok")
      BY DEF Replacing
    <3>2. CASE c # b
      BY <3>1, <3>2, <2>s, <2>u, <1>o, <1>n DEF Replacing, Storing
    <3>3. CASE c = b
      <4>1. srv[s].pc = "ok"
        BY <3>1, <3>3, <2>s DEF Storing
      <4>2. tabs'[b].pc = "storeAccess" /\ tabs'[b].held = t /\ tabs'[b].since <= retired[t]
        BY <4>1, <3>1, <3>3, <2>s
      <4> QED BY <4>2, <1>n DEF Replacing, Storing
    <3> QED BY <3>2, <3>3
  <2>3. SignedIn'
    BY <1>4, <1>s, <2>s, <2>i
  <2>4. Prompt'
    <3>1. tabs[b].since <= now /\ now <= tabs[b].since + MaxDelay
      BY <2>s DEF SessionInv, Prompt
    <3> QED BY <3>1, <2>s, <2>i, <1>p DEF Storing
  <2>5. Rotated'
    <3>1. tabs'[b].pc = "look" => DeadSince(tabs'[b].held, now)
      BY <2>s DEF SessionInv, Rotated, WaitInv
    <3>2. \A r \in Slots : Busy(r)' /\ srv'[r].pc = "rejected" =>
            Busy(r) /\ srv[r].pc = "rejected" /\ srv'[r].token = srv[r].token
      BY <2>s DEF Busy
    <3> QED BY <3>1, <3>2, <2>i, <1>r
  <2> QED BY <2>1, <2>2, <2>3, <2>4, <2>5 DEF SessionInv
<1>5. CASE /\ srv' = srv /\ store'.refresh = store.refresh /\ store'.user = store.user
           /\ Storing(b) /\ tabs'[b].pc = "storeRefresh" /\ tabs'[b].in = tabs[b].in
           /\ tabs'[b].held = tabs[b].held /\ tabs'[b].since = tabs[b].since
  <2>1. Served'
    BY <1>5, <1>o DEF SessionInv, Served, Busy, Storing
  <2>2. Replaced'
    <3> SUFFICES ASSUME NEW t \in Tokens, retired[t] > 0, Replacing(t) PROVE Replacing(t)'
      BY <1>5, <1>n DEF Replaced, SessionInv
    <3> QED BY <1>5, <1>o, <1>n DEF Replacing, Storing
  <2>3. SignedIn'
    BY <1>5, <1>s DEF SessionInv, SignedIn, Storing
  <2>4. Prompt'
    BY <1>5, <1>p DEF SessionInv, Prompt
  <2>5. Rotated'
    BY <1>5, <1>r DEF Busy
  <2> QED BY <2>1, <2>2, <2>3, <2>4, <2>5 DEF SessionInv
<1>6. CASE /\ srv' = srv /\ store'.refresh = tabs[b].fresh /\ Storing(b)
           /\ tabs'[b].pc \in {"idle", "resend"} /\ tabs'[b].in = tabs[b].in
  <2>0. tabs[b].fresh \in Tokens /\ retired[tabs[b].fresh] = 0
    BY <1>6 DEF CarryInv, Carried
  <2>1. Served'
    BY <1>6, <1>o DEF SessionInv, Served, Busy, Storing
  <2>2. Replaced'
    BY <1>6, <2>0, <1>n DEF Replaced
  <2>3. SignedIn'
    BY <1>6, <2>0, <1>0, <1>s DEF SessionInv, SignedIn, Storing
  <2>4. Prompt'
    BY <1>6, <1>p DEF Storing
  <2>5. Rotated'
    BY <1>6, <1>r DEF Busy
  <2> QED BY <2>1, <2>2, <2>3, <2>4, <2>5 DEF SessionInv
<1> QED BY <1>1, <1>2, <1>3, <1>4, <1>5, <1>6, QuietSteps

\* A statement of the server keeps it: what it rejects has been retired, and what it
\* retires has a tab that waits for its successor.
LEMMA StatementsKeepSession ==
  ASSUME TypeOK, TypeOK', RowInv, WaitInv, CarryInv, SessionInv, Quiet,
         NEW s \in Slots, ServerStep(s) \/ Fail(s), UNCHANGED clientVars
  PROVE  SessionInv'
<1>0. /\ srv \in [Slots -> SrvRecord \cup {Free}] /\ tabs \in [Tabs -> TabRecord]
      /\ now \in Int /\ now > 0 /\ retired \in [Tokens -> Int] /\ retired' \in [Tokens -> Int]
      /\ store' = store /\ tabs' = tabs
  BY ServerConstants DEF TypeOK, ServerTypeOK, SrvRecord, TabRecord, clientVars
<1>1. /\ Busy(s) /\ srv[s] \in SrvRecord /\ srv'[s] \in SrvRecord
      /\ srv'[s].token = srv[s].token
      /\ \A r \in Slots : r # s => srv'[r] = srv[r]
      /\ \A r \in Slots : Busy(r)' <=> Busy(r)
  BY StatementEffect
<1> DEFINE k == srv[s].token
<1>2. k \in Tokens /\ signed[k] > 0
  BY <1>1 DEF CarryInv, SrvRecord
<1>3. now' = now /\ \A t \in Tokens : retired[t] > 0 => retired'[t] = retired[t]
  BY OneWay DEF ServerStep, Lookup, IssueFresh, Retire, Fail, Next
<1>4. /\ srv'[s].pc = "rejected" => Lookup(s)
      /\ srv[s].pc # "ok"
  <2>1. CASE IssueFresh(s)
    <3>1. PICK t \in Tokens : srv' = [srv EXCEPT ![s].pc = "retire", ![s].fresh = t]
      BY <2>1 DEF IssueFresh
    <3>2. srv'[s] = [srv[s] EXCEPT !.pc = "retire", !.fresh = t]
      BY <3>1, <1>0
    <3> QED BY <3>2, <2>1, <1>1 DEF SrvRecord, IssueFresh
  <2>2. CASE Retire(s) \/ Fail(s)
    BY <2>2, <1>0, <1>1 DEF Retire, Fail, SrvRecord
  <2>3. CASE Lookup(s)
    BY <2>3 DEF Lookup
  <2> QED BY <2>1, <2>2, <2>3 DEF ServerStep
<1>5. srv'[s].pc = "rejected" => DeadSince(k, now)
  <2> SUFFICES ASSUME srv'[s].pc = "rejected" PROVE DeadSince(k, now)
    OBVIOUS
  <2>1. ~(Genuine(k) /\ Live(k))
    <3>1. srv' = [srv EXCEPT ![s].pc = IF Genuine(k) /\ Live(k) THEN "issue" ELSE "rejected"]
      BY <1>4 DEF Lookup
    <3>2. Genuine(k) /\ Live(k) => srv'[s].pc = "issue"
      BY <3>1, <1>0, <1>1 DEF SrvRecord
    <3> QED BY <3>2
  <2>2. Genuine(k) /\ k \notin revoked
    BY <1>2 DEF Quiet
  <2>3. ~Live(k) /\ expires[k] = End(k)
    BY <2>1, <2>2, <1>2 DEF RowInv
  <2> QED BY <2>2, <2>3, <1>2, ServerConstants
          DEF DeadSince, End, Least, Live, Genuine, TypeOK, ServerTypeOK
<1>6. Served'
  BY <1>0, <1>1 DEF SessionInv, Served
<1>7. SignedIn'
  BY <1>0 DEF SessionInv, SignedIn
<1>8. Prompt'
  BY <1>0, <1>3 DEF SessionInv, Prompt, Storing
<1>d. \A t, time : DeadSince(t, time) => DeadSince(t, time)'
  BY <1>3 DEF DeadSince
<1>9. Rotated'
  <2>1. \A r \in Slots : Busy(r)' /\ srv'[r].pc = "rejected" => DeadSince(srv'[r].token, now)
    BY <1>1, <1>5 DEF SessionInv, Rotated
  <2> QED BY <2>1, <1>0, <1>3, <1>d DEF SessionInv, Rotated
<1>10. Replaced'
  <2> SUFFICES ASSUME NEW t \in Tokens, retired'[t] > 0, store.refresh = t
               PROVE  Replacing(t)'
    BY <1>0 DEF Replaced
  <2>1. CASE retired[t] > 0
    <3>1. PICK c \in Tabs :
            /\ tabs[c].held = t /\ tabs[c].since <= retired[t]
            /\ Storing(c) \/ (tabs[c].pc = "wait" /\ srv[tabs[c].slot].pc = "ok")
      BY <2>1 DEF SessionInv, Replaced, Replacing
    <3>2. tabs[c].pc = "wait" /\ srv[tabs[c].slot].pc = "ok" => srv'[tabs[c].slot].pc = "ok"
      BY <1>1, <1>4 DEF WaitInv
    <3> QED BY <3>1, <3>2, <2>1, <1>0, <1>3 DEF Replacing, Storing
  <2>2. CASE ~(retired[t] > 0)
    <3>1. Retire(s) /\ k = t /\ retired'[t] = now
      <4>1. retired' # retired
        BY <2>2
      <4>2. Retire(s)
        BY <4>1 DEF ServerStep, Lookup, IssueFresh, Fail
      <4>3. k = t
        BY <4>2, <2>2, <1>0 DEF Retire
      <4> QED BY <4>2, <4>3, <2>2, <1>0, ServerConstants DEF Retire, TypeOK, ServerTypeOK
    <3>2. srv'[s].pc = "ok"
      BY <3>1, <1>0, <1>1 DEF Retire, SrvRecord
    <3>3. PICK b \in Tabs : tabs[b].pc = "wait" /\ tabs[b].slot = s
      BY <1>1 DEF SessionInv, Served
    <3>4. tabs[b].held = t /\ tabs[b].since <= now
      BY <3>1, <3>3 DEF WaitInv, SessionInv, Prompt
    <3> QED BY <3>1, <3>2, <3>3, <3>4, <1>0 DEF Replacing
  <2> QED BY <2>1, <2>2
<1> QED BY <1>6, <1>7, <1>8, <1>9, <1>10 DEF SessionInv

\* Every step that leaves the sessions alone keeps it.
LEMMA SessionsKept ==
  ASSUME TypeOK, TypeOK', RowInv, WaitInv, CarryInv, Quiet => SessionInv, [Next]_vars
  PROVE  (Quiet => SessionInv)'
<1> SUFFICES ASSUME Quiet' PROVE SessionInv'
  OBVIOUS
<1>0. Quiet /\ SessionInv
  BY QuietBefore
<1>1. ASSUME NEW b \in Tabs, TabStep(b) PROVE SessionInv'
  BY <1>0, <1>1, TabsKeepSession
<1>2. ASSUME NEW s \in Slots, Discard(s) PROVE FALSE
  <2>1. Busy(s)
    BY <1>2 DEF Discard, Answered, Busy, Free
  <2> QED BY <1>0, <1>2, <2>1 DEF SessionInv, Served, Discard
<1>3. ASSUME NEW s \in Slots, ServerStep(s) \/ Fail(s), UNCHANGED clientVars PROVE SessionInv'
  BY <1>0, <1>3, StatementsKeepSession
<1>4. CASE Tick
  <2>1. /\ now' = now + 1 /\ UNCHANGED <<retired, srv, store, tabs>>
    BY <1>4 DEF Tick, Advance, clientVars
  <2>2. now \in Int /\ MaxDelay \in Nat /\ tabs \in [Tabs -> TabRecord] /\ Grace \in Nat
    BY ServerConstants, TabConstants DEF TypeOK, ServerTypeOK, TabRecord
  <2>3. Prompt'
    <3>1. ASSUME NEW b \in Tabs, tabs[b].pc = "wait" \/ Storing(b)
          PROVE  tabs[b].since <= now + 1 /\ now + 1 <= tabs[b].since + MaxDelay
      <4>1. tabs[b].since \in Int /\ tabs[b].since <= now
        BY <1>0, <2>2, <3>1, ServerConstants DEF SessionInv, Prompt, TabRecord
      <4>2. now < tabs[b].since + MaxDelay
        BY <1>4, <3>1 DEF Tick, Storing
      <4> QED BY <4>1, <4>2, <2>2
    <3> QED BY <3>1, <2>1 DEF Prompt, Storing
  <2>4. \A t : DeadSince(t, now) => DeadSince(t, now)'
    BY <2>1, <2>2 DEF DeadSince, TypeOK, ServerTypeOK
  <2>5. Rotated'
    BY <1>0, <2>1, <2>4 DEF SessionInv, Rotated, Busy, DeadSince
  <2>6. Served' /\ SignedIn' /\ Replaced'
    BY <1>0, <2>1 DEF SessionInv, Served, SignedIn, Replaced, Replacing, Storing, Busy
  <2> QED BY <2>3, <2>5, <2>6 DEF SessionInv
<1>5. CASE UNCHANGED vars
  BY <1>0, <1>5 DEF vars, SessionInv, Served, SignedIn, Prompt, Rotated, Replaced, Replacing,
                    DeadSince, Storing, Busy
<1> QED BY <1>1, <1>2, <1>3, <1>4, <1>5 DEF Next

LEMMA SessionsAlwaysKept ==
  Spec => [](TypeOK /\ RowInv /\ WaitInv /\ CarryInv /\ RefusedInv /\ (Quiet => SessionInv))
<1> DEFINE I == WaitInv /\ CarryInv /\ RefusedInv /\ (Quiet => SessionInv)
<1>1. Init => I
  <2> SUFFICES ASSUME Init PROVE I
    OBVIOUS
  <2>1. /\ \A b \in Tabs : tabs[b].pc = "new" /\ ~tabs[b].in
        /\ \A s \in Slots : ~Busy(s)
        /\ store.refresh = None /\ ~store.user
        /\ \A t \in Tokens : retired[t] = 0
        /\ \A s \in Slots : srv[s].pc = "free" /\ srv[s].token = None
    BY DEF Init, ServerInit, New, Closed, Busy, Free
  <2>2. WaitInv /\ CarryInv /\ RefusedInv
    BY <2>1, ServerConstants DEF WaitInv, CarryInv, RefusedInv, Carried, Storing
  <2>3. SessionInv
    BY <2>1 DEF SessionInv, Served, SignedIn, Prompt, Rotated, Replaced, Storing
  <2> QED BY <2>2, <2>3
<1>2. TypeOK /\ TypeOK' /\ RowInv /\ I /\ [Next]_vars => I'
  BY WaitsKept, CarryKept, RefusedKept, SessionsKept
<1> QED BY <1>1, <1>2, RowsAlwaysEnd, PTL DEF Spec

\* _adoptRotatedToken: a tab signs the user out for a rejected refresh only when the stored
\* session is over, and never because tabs have raced on a token.
THEOREM RacesSignNobodyOut == Spec => SignedOutForCause
<1>1. TypeOK /\ RefusedInv /\ (Quiet => SessionInv) /\ [Next]_vars
        => [\A b \in Tabs :
              tabs[b].pc \in {"look", "lookAgain"} /\ tabs'[b].pc = "clearAccess"
                => /\ store.refresh = None \/ ~Live(store.refresh)
                   /\ ~Quiet]_vars
  <2> SUFFICES ASSUME TypeOK, RefusedInv, Quiet => SessionInv, Next, NEW b \in Tabs,
                      tabs[b].pc \in {"look", "lookAgain"}, tabs'[b].pc = "clearAccess"
               PROVE  /\ store.refresh = None \/ ~Live(store.refresh)
                      /\ ~Quiet
    BY DEF vars
  <2>0. tabs \in [Tabs -> TabRecord] /\ tabs[b] \in TabRecord
    BY DEF TypeOK, TabRecord
  <2>1. TabStep(b)
    <3>1. ASSUME NEW c \in Tabs, TabStep(c), c # b PROVE FALSE
      BY <3>1, OthersKeep
    <3>2. ~(tabs' = tabs)
      OBVIOUS
    <3> QED BY <3>1, <3>2 DEF Next, Discard, clientVars, Tick
  <2>2. Look(b)
    <3>1. ~Close(b)
      <4>1. Closed.pc = "closed"
        BY DEF Closed
      <4> QED BY <4>1, <2>0 DEF Close
    <3>2. ~Break(b)
      BY DEF Break
    <3> QED BY <2>1, <3>1, <3>2 DEF TabStep, Open, Login, Unauthorized, TakeAnswer, StoreAccess,
               StoreRefresh, ClearAccess, ClearRefresh, Wipe, StartLogout, SendLogout, OutAccess
  <2>3. ~MovedOn(b)
    <3>1. Resume(b).pc \in {"idle", "resend"}
      BY <2>0 DEF Resume, Settled, TabRecord
    <3>2. [Resume(b) EXCEPT !.access = store.access].pc \in {"idle", "resend"}
      BY <3>1, TabRecords DEF TabRecord
    <3> QED BY <2>0, <2>2, <3>2 DEF Look
  <2>4. tabs[b].pc = "lookAgain" /\ now >= tabs[b].since + Settle
    <3>1. CASE tabs[b].pc = "look"
      <4>1. AfterLook(b) = "lookAgain"
        BY <3>1 DEF AfterLook
      <4>2. tabs'[b] = [tabs[b] EXCEPT !.pc = "lookAgain", !.since = now]
        BY <4>1, <2>0, <2>2, <2>3 DEF Look
      <4> QED BY <4>2, <2>0 DEF TabRecord
    <3> QED BY <3>1, <2>2 DEF Look
  <2>5. ~Quiet
    BY <2>3, <2>4, SecondLookFinds
  <2>6. store.refresh = None \/ ~Live(store.refresh)
    BY <2>3 DEF MovedOn, RefusedInv, Over
  <2> QED BY <2>5, <2>6
<1> QED BY <1>1, SessionsAlwaysKept, PTL DEF Spec, SignedOutForCause

-----------------------------------------------------------------------------
(***************************************************************************)
(* What a logout leaves.                                                   *)
(***************************************************************************)

RowsStay == UNCHANGED <<now, signed, expires, retired, revoked, failed>>

\* Every step of a tab, by the fields that it changes.
LEMMA TabEffect ==
  ASSUME TypeOK, NEW b \in Tabs, TabStep(b)
  PROVE
    \/ \* it is opened
       /\ RowsStay /\ srv' = srv /\ store' = store /\ tabs'[b].pc = "idle"
       /\ tabs[b].pc \in {"new", "closed"}
    \/ \* it signs in
       /\ tabs[b].pc = "idle" /\ ~tabs[b].in /\ srv' = srv /\ UNCHANGED <<now, revoked, failed>>
       /\ \E t \in Tokens : Issue(t) /\ store'.refresh = t
       /\ tabs'[b].pc = "idle" /\ tabs'[b].in
    \/ \* it sends a refresh, or has nothing to send
       /\ RowsStay /\ store' = store
       /\ tabs[b].pc = "send" \/ (tabs[b].pc = "idle" /\ tabs[b].in)
       /\ \/ store.refresh # None /\ \E then : StartRefresh(b, then)
          \/ /\ store.refresh = None /\ srv' = srv
             /\ tabs'[b].pc = "clearAccess" /\ tabs'[b].in = tabs[b].in
    \/ TakeAnswer(b) /\ RowsStay /\ store' = store
    \/ \* it stores the answer
       /\ RowsStay /\ srv' = srv /\ tabs[b].pc = "storeAccess" /\ tabs'[b].pc = "storeRefresh"
       /\ tabs'[b].fresh = tabs[b].fresh /\ tabs'[b].in = tabs[b].in
       /\ store'.refresh = store.refresh
    \/ /\ RowsStay /\ srv' = srv /\ tabs[b].pc = "storeRefresh"
       /\ tabs'[b].pc \in {"idle", "resend"} /\ tabs'[b].in = tabs[b].in
       /\ store'.refresh = tabs[b].fresh
    \/ \* it looks
       /\ RowsStay /\ srv' = srv /\ store' = store /\ tabs[b].pc \in {"look", "lookAgain"}
       /\ tabs'[b].pc \in {"idle", "resend", "lookAgain", "clearAccess"}
       /\ tabs'[b].in = tabs[b].in
       /\ tabs'[b].pc = "lookAgain" => tabs'[b].held = tabs[b].held
    \/ \* it clears
       /\ RowsStay /\ srv' = srv
       /\ tabs[b].pc \in {"clearAccess", "clearRefresh", "wipe", "outAccess"}
       /\ \/ tabs'[b].pc \in {"clearRefresh", "wipe"} /\ tabs'[b].in = tabs[b].in
          \/ tabs'[b].pc = "idle" /\ ~tabs'[b].in
    \/ \* it starts to log out
       /\ RowsStay /\ srv' = srv /\ store' = store /\ tabs[b].pc = "idle" /\ tabs[b].in
       /\ tabs'[b].in
       /\ \/ tabs'[b].pc = "send" /\ tabs'[b].held = store.refresh
          \/ tabs'[b].pc = "outAccess" /\ store.refresh = None
    \/ \* the logout gets through
       /\ tabs[b].pc \in {"send", "resend"} /\ tabs'[b].pc = "outAccess"
       /\ tabs'[b].in = tabs[b].in
       /\ srv' = srv /\ store' = store /\ UNCHANGED <<now, signed, retired, failed>>
       /\ \/ Revokes(b) = None /\ UNCHANGED <<expires, revoked>>
          \/ DeleteSession(Revokes(b))
    \/ \* the flow is lost
       loss' /\ RowsStay /\ srv' = srv /\ store' = store /\ tabs'[b].pc # "new"
<1>0. /\ tabs \in [Tabs -> TabRecord] /\ tabs[b] \in TabRecord
      /\ Settled(tabs[b]) \in TabRecord /\ Expired(b) \in TabRecord
      /\ Resume(b) \in TabRecord
      /\ store \in [access : Tokens \cup {None}, refresh : Tokens \cup {None}, user : BOOLEAN]
  BY TabRecords DEF TypeOK, TabRecord
<1>1. /\ Settled(tabs[b]).pc = "idle" /\ Settled(tabs[b]).in = tabs[b].in
      /\ Expired(b).pc = "clearAccess" /\ Expired(b).in = tabs[b].in
      /\ Resume(b).pc \in {"idle", "resend"} /\ Resume(b).in = tabs[b].in
  BY <1>0 DEF Settled, Expired, Resume, TabRecord
<1>2. CASE Open(b)
  <2>1. Opened.pc = "idle" /\ tabs'[b] = Opened
    BY <1>2, <1>0 DEF Opened, Closed, Open
  <2> QED BY <1>2, <2>1 DEF Open, RowsStay, serverVars
<1>3. CASE Login(b)
  <2>1. PICK t \in Tokens : /\ Issue(t)
                            /\ store' = [access |-> t, refresh |-> t, user |-> TRUE]
                            /\ tabs' = [tabs EXCEPT ![b].in = TRUE, ![b].access = t]
    BY <1>3 DEF Login
  <2>2. tabs'[b].pc = tabs[b].pc /\ tabs'[b].in /\ store'.refresh = t
    BY <2>1, <1>0 DEF TabRecord
  <2> QED BY <1>3, <2>1, <2>2 DEF Login
<1>4. ASSUME NEW then, StartRefresh(b, then)
      PROVE  \/ store.refresh # None /\ \E h : StartRefresh(b, h)
             \/ /\ store.refresh = None /\ srv' = srv
                /\ tabs'[b].pc = "clearAccess" /\ tabs'[b].in = tabs[b].in
  <2>1. CASE store.refresh = None
    BY <1>4, <2>1, <1>0, <1>1 DEF StartRefresh
  <2>2. CASE store.refresh # None
    BY <1>4, <2>2
  <2> QED BY <2>1, <2>2
<1>5. CASE Unauthorized(b)
  <2>1. StartRefresh(b, "request") /\ RowsStay /\ store' = store
    BY <1>5 DEF Unauthorized, RowsStay
  <2> QED BY <1>5, <2>1, <1>4 DEF Unauthorized
<1>6. CASE TakeAnswer(b)
  BY <1>6 DEF TakeAnswer, RowsStay
<1>7. CASE StoreAccess(b)
  <2>1. [store EXCEPT !.access = tabs[b].fresh].refresh = store.refresh
    BY <1>0
  <2>2. /\ tabs'[b].pc = "storeRefresh" /\ tabs'[b].in = tabs[b].in
        /\ tabs'[b].fresh = tabs[b].fresh
    BY <1>7, <1>0 DEF StoreAccess, Goto, TabRecord
  <2> QED BY <1>7, <2>1, <2>2 DEF StoreAccess, RowsStay, serverVars
<1>8. CASE StoreRefresh(b)
  <2>1. [store EXCEPT !.refresh = tabs[b].fresh].refresh = tabs[b].fresh
    BY <1>0
  <2> QED BY <1>8, <2>1, <1>0, <1>1 DEF StoreRefresh, RowsStay, serverVars
<1>9. CASE Look(b)
  <2>1. /\ [Resume(b) EXCEPT !.access = store.access].pc = Resume(b).pc
        /\ [Resume(b) EXCEPT !.access = store.access].in = Resume(b).in
    BY <1>0 DEF TabRecord
  <2>2. /\ [tabs[b] EXCEPT !.pc = "lookAgain", !.since = now].pc = "lookAgain"
        /\ [tabs[b] EXCEPT !.pc = "lookAgain", !.since = now].held = tabs[b].held
        /\ [tabs[b] EXCEPT !.pc = "lookAgain", !.since = now].in = tabs[b].in
    BY <1>0 DEF TabRecord
  <2>3. /\ tabs'[b].pc \in {"idle", "resend", "lookAgain", "clearAccess"}
        /\ tabs'[b].in = tabs[b].in
        /\ tabs'[b].pc = "lookAgain" => tabs'[b].held = tabs[b].held
    BY <2>1, <2>2, <1>0, <1>1, <1>9 DEF Look
  <2> QED BY <2>3, <1>9 DEF Look, RowsStay, serverVars
<1>10. CASE ClearAccess(b) \/ ClearRefresh(b) \/ OutAccess(b)
  BY <1>10, <1>0 DEF ClearAccess, ClearRefresh, OutAccess, Goto, TabRecord, RowsStay, serverVars
<1>11. CASE Wipe(b)
  <2>1. /\ [Settled(tabs[b]) EXCEPT !.in = FALSE, !.access = None].pc = "idle"
        /\ ~[Settled(tabs[b]) EXCEPT !.in = FALSE, !.access = None].in
    BY <1>0, <1>1 DEF TabRecord
  <2> QED BY <2>1, <1>11, <1>0 DEF Wipe, RowsStay, serverVars
<1>12. CASE StartLogout(b)
  <2>1. PICK pc \in {"outAccess", "send"} :
          /\ pc = "outAccess" <=> store.refresh = None
          /\ tabs' = [tabs EXCEPT ![b] = [tabs[b] EXCEPT !.pc = pc, !.held = store.refresh]]
    BY <1>12, <1>0 DEF StartLogout
  <2>2. tabs'[b].pc = pc /\ tabs'[b].held = store.refresh /\ tabs'[b].in = tabs[b].in
    BY <2>1, <1>0 DEF TabRecord
  <2> QED BY <2>1, <2>2, <1>12 DEF StartLogout, RowsStay, serverVars
<1>13. CASE SendLogout(b)
  <2>1. CASE AccessValid(tabs[b].access)
    <3>1. tabs'[b].pc = "outAccess" /\ tabs'[b].in = tabs[b].in
      BY <2>1, <1>13, <1>0 DEF SendLogout, Goto, TabRecord
    <3> QED BY <2>1, <3>1, <1>13 DEF SendLogout
  <2>2. CASE ~AccessValid(tabs[b].access) /\ tabs[b].pc = "send"
    <3>1. StartRefresh(b, "logout") /\ RowsStay /\ store' = store
      BY <2>2, <1>13 DEF SendLogout, RowsStay
    <3> QED BY <2>2, <3>1, <1>4
  <2>3. CASE ~AccessValid(tabs[b].access) /\ tabs[b].pc = "resend"
    <3>1. tabs'[b].pc = "outAccess"
      BY <2>3, <1>13, <1>0 DEF SendLogout, Goto, TabRecord
    <3>2. loss' /\ RowsStay /\ srv' = srv /\ store' = store
      BY <2>3, <1>13 DEF SendLogout, RowsStay
    <3> QED BY <3>1, <3>2
  <2> QED BY <2>1, <2>2, <2>3, <1>13 DEF SendLogout
<1>14. CASE Break(b)
  <2>1. [tabs[b] EXCEPT !.pc = "outAccess", !.slot = None].pc = "outAccess"
    BY <1>0 DEF TabRecord
  <2> QED BY <2>1, <1>14, <1>0, <1>1 DEF Break, RowsStay, serverVars
<1>15. CASE Close(b)
  <2>1. Closed.pc = "closed"
    BY DEF Closed
  <2> QED BY <2>1, <1>15, <1>0 DEF Close, RowsStay, serverVars
<1> QED
  BY <1>2, <1>3, <1>5, <1>6, <1>7, <1>8, <1>9, <1>10, <1>11, <1>12, <1>13, <1>14, <1>15
     DEF TabStep

\* One tab is used, and every answer has arrived.
Alone(b) == ~loss /\ ~failed /\ \A c \in Tabs \ {b} : tabs[c].pc = "new"

\* The token that may outlive the grace period while only b is used: the stored one, or
\* its successor once the server has retired it.
MayLive(b) ==
  CASE tabs[b].pc \in {"send", "resend"} \/ (tabs[b].pc = "idle" /\ tabs[b].in)
         -> {store.refresh}
    [] tabs[b].pc = "wait" /\ srv[tabs[b].slot].pc = "retire"
         -> {store.refresh, srv[tabs[b].slot].fresh}
    [] tabs[b].pc = "wait" /\ srv[tabs[b].slot].pc = "ok" -> {srv[tabs[b].slot].fresh}
    [] tabs[b].pc = "wait" /\ srv[tabs[b].slot].pc \notin {"retire", "ok"} -> {store.refresh}
    [] Storing(b) -> {tabs[b].fresh}
    [] OTHER -> {}

Short(t) == expires[t] <= now + Grace

\* While b alone is used: every other token is short-lived, the only request is its own, and
\* what it sends or looks at is the stored token.
AloneFor(b) ==
  /\ \A t \in Tokens \ MayLive(b) : Short(t)
  /\ \A s \in Slots :
       Busy(s) => tabs[b].pc = "wait" /\ tabs[b].slot = s /\ srv[s].pc # "error"
  /\ tabs[b].pc \notin {"new", "closed", "idle"} => tabs[b].in
  /\ tabs[b].pc \in {"send", "wait", "look", "lookAgain"} => tabs[b].held = store.refresh

AloneInv == \A b \in Tabs : Alone(b) => AloneFor(b)

\* Whoever is used alone was so before, and the step was its own.
LEMMA AloneBefore ==
  ASSUME TypeOK, NEW b \in Tabs, Alone(b)', NEW c \in Tabs, TabStep(c)
  PROVE  Alone(b) /\ c = b
<1>0. tabs \in [Tabs -> TabRecord] /\ loss \in BOOLEAN /\ failed \in BOOLEAN
  BY DEF TypeOK, ServerTypeOK, TabRecord
<1>1. tabs'[c].pc # "new" /\ failed' = failed
  <2>1. CASE TakeAnswer(c)
    <3>1. tabs'[c].pc # "new"
      BY <2>1, AnswerEffect
    <3> QED BY <3>1, <2>1 DEF TakeAnswer
  <2>2. CASE RowsStay /\ store.refresh # None /\ \E then : StartRefresh(c, then)
    <3>1. PICK then : StartRefresh(c, then)
      BY <2>2
    <3>2. tabs'[c].pc = "wait"
      BY <2>2, <3>1, RefreshEffect
    <3> QED BY <2>2, <3>2 DEF RowsStay
  <2>3. CASE tabs'[c].pc # "new" /\ failed' = failed
    BY <2>3
  <2> QED BY <2>1, <2>2, <2>3, TabEffect DEF RowsStay
<1>2. c = b
  BY <1>1 DEF Alone
<1>3. \A d \in Tabs : d # b => tabs'[d] = tabs[d]
  BY <1>2, OthersKeep
<1>4. loss => loss'
  BY OneWay DEF Next
<1> QED BY <1>1, <1>2, <1>3, <1>4 DEF Alone

\* A step of the only tab keeps AloneInv.
LEMMA TabStaysAlone ==
  ASSUME TypeOK, TypeOK', WaitInv, CarryInv, RefusedInv, AloneInv,
         NEW b \in Tabs, TabStep(b), Alone(b)'
  PROVE  AloneFor(b)'
<1>0. /\ srv \in [Slots -> SrvRecord \cup {Free}] /\ tabs \in [Tabs -> TabRecord]
      /\ store.refresh \in Tokens \cup {None} /\ None \notin Tokens
      /\ now \in Int /\ expires \in [Tokens -> Int] /\ Grace \in Nat
      /\ signed \in [Tokens -> Int] /\ TTL \in Nat
  BY ServerConstants DEF TypeOK, ServerTypeOK, SrvRecord, TabRecord
<1>a. Alone(b) /\ ~loss'
  BY AloneBefore DEF Alone
<1>i. AloneFor(b)
  BY <1>a DEF AloneInv
<1>t. RowsStay => \A t \in Tokens : Short(t)' <=> Short(t)
  BY DEF RowsStay, Short
<1>b. tabs[b].pc # "wait" => \A s \in Slots : ~Busy(s)
  BY <1>i DEF AloneFor
\* A step between requests, after which every token lives that may have lived before.
<1>q. ASSUME RowsStay, srv' = srv, tabs[b].pc # "wait", tabs'[b].pc # "wait",
             \A t \in Tokens : t \in MayLive(b) => t \in MayLive(b)',
             tabs'[b].pc \notin {"new", "closed", "idle"} => tabs'[b].in,
             tabs'[b].pc \in {"send", "look", "lookAgain"} => tabs'[b].held = store'.refresh
      PROVE  AloneFor(b)'
  <2>1. \A s \in Slots : ~Busy(s)'
    BY <1>q, <1>b DEF Busy
  <2>2. \A t \in Tokens : t \notin MayLive(b)' => Short(t)'
    BY <1>q, <1>t, <1>i DEF AloneFor
  <2> QED BY <1>q, <2>1, <2>2 DEF AloneFor
<1>1. CASE /\ RowsStay /\ srv' = srv /\ store' = store /\ tabs'[b].pc = "idle"
           /\ tabs[b].pc \in {"new", "closed"}
  <2>1. \A t \in Tokens : t \notin MayLive(b)
    BY <1>1 DEF MayLive, Storing
  <2> QED BY <1>1, <1>q, <2>1
<1>2. CASE /\ tabs[b].pc = "idle" /\ ~tabs[b].in /\ srv' = srv /\ UNCHANGED <<now, revoked, failed>>
           /\ \E t \in Tokens : Issue(t) /\ store'.refresh = t
           /\ tabs'[b].pc = "idle" /\ tabs'[b].in
  <2>1. PICK t \in Tokens : Issue(t) /\ store'.refresh = t
    BY <1>2
  <2>2. MayLive(b) = {} /\ MayLive(b)' = {t}
    BY <1>2, <2>1 DEF MayLive, Storing
  <2>3. \A u \in Tokens : u # t => expires'[u] = expires[u]
    BY <2>1, <1>0 DEF Issue
  <2>4. \A u \in Tokens \ MayLive(b)' : Short(u)'
    BY <1>2, <1>i, <2>2, <2>3 DEF AloneFor, Short
  <2> QED BY <1>2, <1>b, <2>4 DEF AloneFor, Busy
<1>3. CASE /\ RowsStay /\ store' = store
           /\ tabs[b].pc = "send" \/ (tabs[b].pc = "idle" /\ tabs[b].in)
           /\ store.refresh # None /\ \E then : StartRefresh(b, then)
  <2>1. PICK then : StartRefresh(b, then)
    BY <1>3
  <2>2. PICK s \in Slots :
           /\ srv'[s] = [pc |-> "lookup", token |-> store.refresh, fresh |-> None]
           /\ \A r \in Slots : r # s => srv'[r] = srv[r]
           /\ tabs'[b].pc = "wait" /\ tabs'[b].slot = s /\ tabs'[b].held = store.refresh
           /\ tabs'[b].in = tabs[b].in
    BY <1>3, <2>1, RefreshEffect
  <2>3. srv'[s].pc = "lookup"
    BY <2>2
  <2>4. MayLive(b) = {store.refresh} /\ MayLive(b)' = {store.refresh}
    BY <1>3, <2>2, <2>3 DEF MayLive, Storing
  <2>5. \A t \in Tokens \ MayLive(b)' : Short(t)'
    BY <1>3, <1>t, <1>i, <2>4 DEF AloneFor
  <2>6. \A r \in Slots : Busy(r)' => r = s
    BY <1>3, <1>b, <2>2 DEF Busy
  <2>7. tabs[b].in
    BY <1>3, <1>i DEF AloneFor
  <2> QED BY <1>3, <2>2, <2>3, <2>5, <2>6, <2>7 DEF AloneFor
<1>4. CASE /\ RowsStay /\ store' = store
           /\ tabs[b].pc = "send" \/ (tabs[b].pc = "idle" /\ tabs[b].in)
           /\ store.refresh = None /\ srv' = srv
           /\ tabs'[b].pc = "clearAccess" /\ tabs'[b].in = tabs[b].in
  <2>1. tabs[b].in
    BY <1>4, <1>i DEF AloneFor
  <2>2. \A t \in Tokens : t \notin MayLive(b)
    BY <1>4, <1>0 DEF MayLive, Storing
  <2> QED BY <1>4, <1>q, <2>1, <2>2
<1>5. CASE TakeAnswer(b) /\ RowsStay /\ store' = store
  <2>s. PICK s \in Slots :
          /\ tabs[b].pc = "wait" /\ tabs[b].slot = s /\ Busy(s)
          /\ srv'[s] = Free
          /\ \A r \in Slots : r # s => srv'[r] = srv[r]
          /\ tabs'[b].in = tabs[b].in
          /\ \/ /\ srv[s].pc = "ok" /\ tabs'[b].pc = "storeAccess"
                /\ tabs'[b].fresh = srv[s].fresh
             \/ /\ srv[s].pc = "rejected" /\ tabs'[b].pc = "look"
                /\ tabs'[b].held = tabs[b].held
             \/ srv[s].pc = "error"
    BY <1>5, AnswerEffect
  <2>1. \A r \in Slots : ~Busy(r)'
    BY <2>s, <1>i DEF AloneFor, Busy
  <2>2. tabs[b].in /\ tabs[b].held = store.refresh /\ srv[s].pc # "error"
    BY <2>s, <1>i DEF AloneFor
  <2>3. CASE srv[s].pc = "ok"
    <3>1. tabs'[b].pc = "storeAccess" /\ tabs'[b].fresh = srv[s].fresh
      BY <2>s, <2>3
    <3>2. MayLive(b) = {srv[s].fresh} /\ MayLive(b)' = {srv[s].fresh}
      BY <2>s, <2>3, <3>1 DEF MayLive, Storing
    <3>3. \A t \in Tokens \ MayLive(b)' : Short(t)'
      BY <1>5, <1>t, <1>i, <3>2 DEF AloneFor
    <3> QED BY <2>s, <2>1, <2>2, <3>1, <3>3 DEF AloneFor
  <2>4. CASE srv[s].pc = "rejected"
    <3>1. tabs'[b].pc = "look" /\ tabs'[b].held = store.refresh
      BY <2>s, <2>2, <2>4
    <3>2. MayLive(b) = {store.refresh}
      BY <2>s, <2>4 DEF MayLive, Storing
    <3>3. Over(store.refresh)
      BY <2>s, <2>2, <2>4 DEF RefusedInv, WaitInv
    <3>4. Short(store.refresh)
      BY <3>3, <1>0 DEF Over, Live, Short
    <3>5. \A t \in Tokens : Short(t)'
      BY <1>5, <1>t, <1>i, <3>2, <3>4 DEF AloneFor
    <3> QED BY <1>5, <2>s, <2>1, <2>2, <3>1, <3>5 DEF AloneFor
  <2> QED BY <2>s, <2>2, <2>3, <2>4
<1>6. CASE /\ RowsStay /\ srv' = srv
           /\ tabs[b].pc = "storeAccess" /\ tabs'[b].pc = "storeRefresh"
           /\ tabs'[b].fresh = tabs[b].fresh /\ tabs'[b].in = tabs[b].in
           /\ store'.refresh = store.refresh
  <2>1. MayLive(b) = {tabs[b].fresh} /\ MayLive(b)' = {tabs[b].fresh}
    BY <1>6 DEF MayLive, Storing
  <2>2. tabs[b].in
    BY <1>6, <1>i DEF AloneFor
  <2> QED BY <1>6, <1>q, <2>1, <2>2
<1>7. CASE /\ RowsStay /\ srv' = srv /\ tabs[b].pc = "storeRefresh"
           /\ tabs'[b].pc \in {"idle", "resend"} /\ tabs'[b].in = tabs[b].in
           /\ store'.refresh = tabs[b].fresh
  <2>2. tabs[b].in
    BY <1>7, <1>i DEF AloneFor
  <2>1. MayLive(b) = {tabs[b].fresh} /\ MayLive(b)' = {tabs[b].fresh}
    BY <1>7, <2>2 DEF MayLive, Storing
  <2> QED BY <1>7, <1>q, <2>1, <2>2
<1>8. CASE /\ RowsStay /\ srv' = srv /\ store' = store /\ tabs[b].pc \in {"look", "lookAgain"}
           /\ tabs'[b].pc \in {"idle", "resend", "lookAgain", "clearAccess"}
           /\ tabs'[b].in = tabs[b].in
           /\ tabs'[b].pc = "lookAgain" => tabs'[b].held = tabs[b].held
  <2>1. \A t \in Tokens : t \notin MayLive(b)
    BY <1>8 DEF MayLive, Storing
  <2>2. tabs[b].in /\ tabs[b].held = store.refresh
    BY <1>8, <1>i DEF AloneFor
  <2> QED BY <1>8, <1>q, <2>1, <2>2
<1>9. CASE /\ RowsStay /\ srv' = srv
           /\ tabs[b].pc \in {"clearAccess", "clearRefresh", "wipe", "outAccess"}
           /\ \/ tabs'[b].pc \in {"clearRefresh", "wipe"} /\ tabs'[b].in = tabs[b].in
              \/ tabs'[b].pc = "idle" /\ ~tabs'[b].in
  <2>1. \A t \in Tokens : t \notin MayLive(b)
    BY <1>9 DEF MayLive, Storing
  <2>2. tabs[b].in
    BY <1>9, <1>i DEF AloneFor
  <2> QED BY <1>9, <1>q, <2>1, <2>2
<1>10. CASE /\ RowsStay /\ srv' = srv /\ store' = store /\ tabs[b].pc = "idle" /\ tabs[b].in
            /\ tabs'[b].in
            /\ \/ tabs'[b].pc = "send" /\ tabs'[b].held = store.refresh
               \/ tabs'[b].pc = "outAccess" /\ store.refresh = None
  <2>1. MayLive(b) = {store.refresh}
    BY <1>10 DEF MayLive, Storing
  <2>2. tabs'[b].pc = "send" => MayLive(b)' = {store.refresh}
    BY <1>10 DEF MayLive, Storing
  <2> QED BY <1>10, <1>q, <1>0, <2>1, <2>2
<1>11. CASE /\ tabs[b].pc \in {"send", "resend"} /\ tabs'[b].pc = "outAccess"
            /\ tabs'[b].in = tabs[b].in
            /\ srv' = srv /\ store' = store /\ UNCHANGED <<now, signed, retired, failed>>
            /\ \/ Revokes(b) = None /\ UNCHANGED <<expires, revoked>>
               \/ DeleteSession(Revokes(b))
  <2>1. Revokes(b) = store.refresh /\ tabs[b].in /\ MayLive(b) = {store.refresh}
    BY <1>11, <1>i DEF Revokes, AloneFor, MayLive, Storing
  <2>2. \A t \in Tokens : Short(t)'
    <3>1. \A t \in Tokens : t # store.refresh => expires'[t] = expires[t]
      BY <1>11, <2>1, <1>0 DEF DeleteSession
    <3>2. store.refresh \in Tokens => expires'[store.refresh] = 0
      BY <1>11, <2>1, <1>0 DEF DeleteSession
    <3> QED BY <1>11, <1>i, <1>0, <2>1, <3>1, <3>2, ServerConstants
            DEF AloneFor, Short, TypeOK, ServerTypeOK
  <2> QED BY <1>11, <1>b, <2>1, <2>2 DEF AloneFor, Busy
<1> QED
  BY <1>a, <1>1, <1>2, <1>3, <1>4, <1>5, <1>6, <1>7, <1>8, <1>9, <1>10, <1>11, TabEffect

\* A statement of the server does: what it retires is the stored token.
LEMMA StatementsStayAlone ==
  ASSUME TypeOK, TypeOK', WaitInv, AloneInv,
         NEW s \in Slots, ServerStep(s) \/ Fail(s), UNCHANGED clientVars,
         NEW b \in Tabs, Alone(b)'
  PROVE  AloneFor(b)'
<1>0. /\ srv \in [Slots -> SrvRecord \cup {Free}] /\ tabs \in [Tabs -> TabRecord]
      /\ expires \in [Tokens -> Int] /\ now \in Int /\ now > 0 /\ Grace \in Nat
      /\ store' = store /\ tabs' = tabs /\ loss' = loss
  BY ServerConstants DEF TypeOK, ServerTypeOK, SrvRecord, TabRecord, clientVars
<1>1. /\ Busy(s) /\ srv[s] \in SrvRecord
      /\ \A r \in Slots : r # s => srv'[r] = srv[r]
      /\ \A r \in Slots : Busy(r)' <=> Busy(r)
  BY StatementEffect
<1>2. ServerStep(s) /\ Alone(b)
  BY <1>0 DEF Alone, Fail, ServerStep, Lookup, IssueFresh, Retire
<1>3. tabs[b].pc = "wait" /\ tabs[b].slot = s /\ tabs[b].in /\ tabs[b].held = store.refresh
  BY <1>1, <1>2 DEF AloneInv, AloneFor
<1>4. srv[s].token = store.refresh
  BY <1>3 DEF WaitInv
<1>5. \A t \in Tokens \ MayLive(b) : Short(t)
  BY <1>2 DEF AloneInv, AloneFor
<1>q. ASSUME \A t \in Tokens \ MayLive(b)' : Short(t)', srv'[s].pc # "error"
      PROVE  AloneFor(b)'
  BY <1>q, <1>0, <1>1, <1>2, <1>3 DEF AloneFor, AloneInv
<1>6. CASE Lookup(s)
  <2>1. srv[s].pc = "lookup" /\ srv'[s].pc \in {"issue", "rejected"} /\ expires' = expires
        /\ now' = now
    BY <1>6, <1>0, <1>1 DEF Lookup, SrvRecord
  <2>2. MayLive(b) = {store.refresh} /\ MayLive(b)' = {store.refresh}
    BY <2>1, <1>0, <1>3 DEF MayLive, Storing
  <2> QED BY <1>q, <1>5, <2>1, <2>2 DEF Short
<1>7. CASE IssueFresh(s)
  <2>1. PICK t \in Tokens : Issue(t) /\ srv' = [srv EXCEPT ![s].pc = "retire", ![s].fresh = t]
    BY <1>7 DEF IssueFresh
  <2>2. srv'[s] = [srv[s] EXCEPT !.pc = "retire", !.fresh = t]
    BY <2>1, <1>0
  <2>3. srv'[s].pc = "retire" /\ srv'[s].fresh = t /\ srv[s].pc = "issue" /\ now' = now
    BY <2>2, <1>1, <1>7 DEF SrvRecord, IssueFresh
  <2>4. MayLive(b) = {store.refresh} /\ MayLive(b)' = {store.refresh, t}
    BY <2>3, <1>0, <1>3 DEF MayLive, Storing
  <2>5. \A u \in Tokens : u # t => expires'[u] = expires[u]
    BY <2>1, <1>0 DEF Issue
  <2> QED BY <1>q, <1>5, <2>3, <2>4, <2>5 DEF Short
<1>8. CASE Retire(s)
  <2>1. srv[s].pc = "retire" /\ srv'[s].pc = "ok" /\ srv'[s].fresh = srv[s].fresh /\ now' = now
    BY <1>8, <1>0, <1>1 DEF Retire, SrvRecord
  <2>2. MayLive(b) = {store.refresh, srv[s].fresh} /\ MayLive(b)' = {srv[s].fresh}
    BY <2>1, <1>0, <1>3 DEF MayLive, Storing
  <2>3. store.refresh \in Tokens
    BY <1>1, <1>4 DEF SrvRecord
  <2>4. \A t \in Tokens : t # store.refresh => expires'[t] = expires[t]
    BY <1>8, <1>4, <1>0 DEF Retire
  <2>5. expires'[store.refresh] <= now + Grace
    <3>1. RetireAt(store.refresh) <= now + Grace
      BY <1>0, <2>3 DEF RetireAt, Least
    <3> QED BY <3>1, <1>8, <1>4, <1>0, <2>3 DEF Retire
  <2> QED BY <1>q, <1>5, <2>1, <2>2, <2>4, <2>5 DEF Short
<1> QED BY <1>2, <1>6, <1>7, <1>8 DEF ServerStep

\* Every step keeps it.
LEMMA AloneKept ==
  ASSUME TypeOK, TypeOK', WaitInv, CarryInv, RefusedInv, AloneInv, [Next]_vars
  PROVE  AloneInv'
<1> SUFFICES ASSUME NEW b \in Tabs, Alone(b)' PROVE AloneFor(b)'
  BY DEF AloneInv
<1>1. ASSUME NEW c \in Tabs, TabStep(c) PROVE AloneFor(b)'
  BY <1>1, AloneBefore, TabStaysAlone
<1>2. ASSUME NEW s \in Slots, Discard(s) PROVE FALSE
  <2>1. Busy(s)
    BY <1>2 DEF Discard, Answered, Busy, Free
  <2>2. Alone(b)
    BY <1>2 DEF Discard, Alone
  <2> QED BY <1>2, <2>1, <2>2 DEF AloneInv, AloneFor, Discard
<1>3. ASSUME NEW s \in Slots, ServerStep(s) \/ Fail(s), UNCHANGED clientVars
      PROVE  AloneFor(b)'
  BY <1>3, StatementsStayAlone
<1>4. CASE Tick
  <2>1. /\ now' = now + 1 /\ UNCHANGED <<expires, srv, store, tabs, loss, failed>>
    BY <1>4 DEF Tick, Advance, clientVars
  <2>2. now \in Int /\ Grace \in Nat /\ expires \in [Tokens -> Int]
    BY ServerConstants DEF TypeOK, ServerTypeOK
  <2>3. Alone(b) /\ MayLive(b)' = MayLive(b) /\ \A s \in Slots : Busy(s)' <=> Busy(s)
    BY <2>1 DEF Alone, MayLive, Storing, Busy
  <2>4. \A t \in Tokens : Short(t) => Short(t)'
    BY <2>1, <2>2 DEF Short
  <2> QED BY <2>1, <2>3, <2>4 DEF AloneInv, AloneFor
<1>5. CASE UNCHANGED vars
  BY <1>5 DEF vars, AloneInv, AloneFor, Alone, MayLive, Short, Storing, Busy
<1> QED BY <1>1, <1>2, <1>3, <1>4, <1>5 DEF Next

LEMMA AlwaysAlone == Spec => [](TypeOK /\ WaitInv /\ CarryInv /\ RefusedInv /\ AloneInv)
<1>1. Init => AloneInv
  <2> SUFFICES ASSUME Init, NEW b \in Tabs PROVE AloneFor(b)
    BY DEF AloneInv
  <2>1. /\ tabs[b].pc = "new" /\ \A s \in Slots : ~Busy(s)
        /\ now = 1 /\ \A t \in Tokens : expires[t] = 0
    BY DEF Init, ServerInit, New, Closed, Busy, Free
  <2> QED BY <2>1, ServerConstants DEF AloneFor, Short
<1>2. TypeOK /\ TypeOK' /\ WaitInv /\ CarryInv /\ RefusedInv /\ AloneInv /\ [Next]_vars
        => AloneInv'
  BY AloneKept
<1> QED BY <1>1, <1>2, SessionsAlwaysKept, PTL DEF Spec

\* AuthService.logout: with one tab and no lost answer, the logout that the server has
\* answered leaves no token that outlives the grace period, though a refresh may have run
\* between reading the token and the retry that revokes it.
THEOREM LogoutLeavesNothing == Spec => LogoutRevokes
<1>1. TypeOK /\ TypeOK' /\ WaitInv /\ CarryInv /\ RefusedInv /\ AloneInv /\ [Next]_vars
        => [\A b \in Tabs :
              /\ revoked' # revoked
              /\ tabs[b].pc \in {"send", "resend"} /\ tabs'[b].pc = "outAccess"
              /\ ~loss /\ ~failed /\ \A c \in Tabs \ {b} : tabs[c].pc = "new"
              => \A t \in Tokens : expires'[t] <= now + Grace]_vars
  <2> SUFFICES ASSUME TypeOK, TypeOK', WaitInv, CarryInv, RefusedInv, AloneInv, Next,
                      NEW b \in Tabs, revoked' # revoked,
                      tabs[b].pc \in {"send", "resend"}, tabs'[b].pc = "outAccess",
                      Alone(b)
               PROVE  \A t \in Tokens : expires'[t] <= now + Grace
    BY DEF vars, Alone
  <2>1. TabStep(b)
    <3>1. ASSUME NEW c \in Tabs, TabStep(c), c # b PROVE FALSE
      BY <3>1, OthersKeep
    <3>2. ~(tabs' = tabs)
      OBVIOUS
    <3> QED BY <3>1, <3>2 DEF Next, Discard, clientVars, Tick
  <2>2. SendLogout(b)
    <3>1. \A t : Issue(t) => revoked' = revoked \/ ~Login(b)
      BY DEF Login
    <3> QED BY <2>1, <3>1 DEF TabStep, Open, Login, Unauthorized, TakeAnswer, StoreAccess,
               StoreRefresh, Look, ClearAccess, ClearRefresh, Wipe, StartLogout, OutAccess,
               Break, Close, serverVars
  <2>3. DeleteSession(Revokes(b)) /\ Revokes(b) # None /\ UNCHANGED <<now, store, failed, loss>>
    BY <2>2 DEF SendLogout
  <2>4. Alone(b)'
    BY <2>1, <2>3, OthersKeep DEF Alone
  <2>5. AloneFor(b)'
    BY <2>1, <2>4, TabStaysAlone
  <2>6. \A t \in Tokens : t \notin MayLive(b)'
    BY DEF MayLive, Storing
  <2> QED BY <2>3, <2>5, <2>6 DEF AloneFor, Short
<1> QED BY <1>1, AlwaysAlone, TypeCorrect, PTL DEF Spec, LogoutRevokes
=============================================================================
