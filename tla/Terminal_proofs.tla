-------------------------- MODULE Terminal_proofs --------------------------
(***************************************************************************)
(* Proofs about Terminal, for any numbers of entries, sessions and         *)
(* commands in flight.                                                     *)
(***************************************************************************)
EXTENDS Terminal, TLAPS

\* What commands are made of.
LEMMA CommandRecords ==
  /\ NoForm \in FormType /\ Free \in CommandType
  /\ \A kind \in FormKinds, e \in Entries \cup {NoEntry} : Form(kind, e) \in FormType
  /\ \A f \in FormType :
       [Free EXCEPT !.do = "answer", !.form = f, !.outcome = "ok"] \in CommandType
  /\ \A v \in Vaults, e \in Entries \cup {NoEntry} :
       \A do \in {"load", "secret", "code", "loadEdit", "edit", "share", "write", "login",
                  "unlock", "pinUnlock", "enablePin", "disablePin"} :
         Cmd(do, v, e) \in CommandType
  /\ \A v \in Vaults \cup {0}, e \in Entries \cup {NoEntry} :
       /\ Copy("copyField", v, e) \in CommandType
       /\ Copy("timer", v, e) \in CommandType
       /\ Cmd("load", v, NoEntry) \in CommandType
  <1>1. NoForm \in FormType
    BY DEF NoForm, Form, FormType, FormKinds
  <1>2. Free \in CommandType
    BY <1>1 DEF Free, CommandType
  <1>3. \A kind \in FormKinds, e \in Entries \cup {NoEntry} : Form(kind, e) \in FormType
    BY DEF Form, FormType
  <1>4. \A f \in FormType :
          [Free EXCEPT !.do = "answer", !.form = f, !.outcome = "ok"] \in CommandType
    BY <1>1 DEF Free, CommandType
  <1>5. ASSUME NEW v \in Vaults, NEW e \in Entries \cup {NoEntry},
               NEW do \in {"load", "secret", "code", "loadEdit", "edit", "share", "write",
                           "login", "unlock", "pinUnlock", "enablePin", "disablePin"}
        PROVE  Cmd(do, v, e) \in CommandType
    <2>1. Form("none", e) \in FormType
      BY <1>3 DEF FormKinds
    <2> QED
      BY <1>1, <2>1 DEF Cmd, Free, CommandType
  <1>6. ASSUME NEW v \in Vaults \cup {0}, NEW e \in Entries \cup {NoEntry}
        PROVE  /\ Copy("copyField", v, e) \in CommandType
               /\ Copy("timer", v, e) \in CommandType
               /\ Cmd("load", v, NoEntry) \in CommandType
    <2>1. Form("none", NoEntry) \in FormType
      BY <1>3 DEF FormKinds
    <2> QED
      BY <1>1, <2>1 DEF Copy, Cmd, Free, CommandType
  <1> QED
    BY <1>1, <1>2, <1>3, <1>4, <1>5, <1>6

\* A command at work keeps its type.
LEMMA WorkRecords ==
  ASSUME NEW c \in CommandType
  PROVE  /\ c.v \in Vaults \cup {0} /\ c.secret \in Entries \cup {NoEntry}
         /\ c.form \in FormType /\ c.form.on \in Entries \cup {NoEntry}
         /\ \A o \in {"ok", "out"} : [c EXCEPT !.outcome = o] \in CommandType
         /\ \A v \in Vaults : [c EXCEPT !.outcome = "ok", !.v = v] \in CommandType
         /\ c.do = "pinUnlock" => [c EXCEPT !.do = "pinToken"] \in CommandType
  <1>1. c.v \in Vaults \cup {0} /\ c.secret \in Entries \cup {NoEntry}
        /\ c.form \in FormType
    BY DEF CommandType
  <1>2. c.form.on \in Entries \cup {NoEntry}
    BY <1>1 DEF FormType
  <1>3. ASSUME NEW o \in {"ok", "out"} PROVE [c EXCEPT !.outcome = o] \in CommandType
    BY DEF CommandType
  <1>4. ASSUME NEW v \in Vaults
        PROVE  [c EXCEPT !.outcome = "ok", !.v = v] \in CommandType
    BY DEF CommandType
  <1>5. c.do = "pinUnlock" => [c EXCEPT !.do = "pinToken"] \in CommandType
    BY DEF CommandType
  <1> QED
    BY <1>1, <1>2, <1>3, <1>4, <1>5

\* The Model keeps its type whatever a message changes in it: the screen ...
LEMMA ScreenRecords ==
  ASSUME NEW x \in ModelType
  PROVE  /\ \A s \in Screens : [x EXCEPT !.screen = s] \in ModelType
         /\ \A k \in Menus \cup {"none"} : [x EXCEPT !.menu = k] \in ModelType
         /\ \A v \in Vaults \cup {0} : [x EXCEPT !.rows = v] \in ModelType
         /\ \A b \in BOOLEAN : [x EXCEPT !.qr = b] \in ModelType
         /\ Locked(x) \in ModelType
  <1>n. NoForm \in FormType
    BY CommandRecords
  <1> USE <1>n DEF ModelType, Screens, AuthScreens, FieldSets, Locked
  <1>1. \A s \in Screens : [x EXCEPT !.screen = s] \in ModelType
    OBVIOUS
  <1>2. \A k \in Menus \cup {"none"} : [x EXCEPT !.menu = k] \in ModelType
    OBVIOUS
  <1>3. \A v \in Vaults \cup {0} : [x EXCEPT !.rows = v] \in ModelType
    OBVIOUS
  <1>4. \A b \in BOOLEAN : [x EXCEPT !.qr = b] \in ModelType
    OBVIOUS
  <1>5. Locked(x) \in ModelType
    OBVIOUS
  <1> QED
    BY <1>1, <1>2, <1>3, <1>4, <1>5

\* ... the fields of an auth screen ...
LEMMA AuthRecords ==
  ASSUME NEW x \in ModelType
  PROVE  /\ \A b \in BOOLEAN : [x EXCEPT !.busy = b] \in ModelType
         /\ \A f \in FieldSets : [x EXCEPT !.fields = f] \in ModelType
         /\ \A f \in FieldSets : [x EXCEPT !.fields = f, !.busy = FALSE] \in ModelType
         /\ \A b \in BOOLEAN, f \in FieldSets :
             [x EXCEPT !.pinMode = b, !.fields = f] \in ModelType
         /\ [x EXCEPT !.busy = FALSE, !.fields = "none"] \in ModelType
         /\ [x EXCEPT !.busy = FALSE, !.pinMode = FALSE, !.fields = "password"]
             \in ModelType
         /\ [x EXCEPT !.screen = "login", !.fields = "login", !.busy = FALSE, !.rows = 0]
             \in ModelType
         /\ \A v \in Vaults : [x EXCEPT !.busy = FALSE, !.vault = v, !.screen = "main",
                                     !.fields = "none", !.pinMode = FALSE] \in ModelType
  <1>n. NoForm \in FormType
    BY CommandRecords
  <1> USE <1>n DEF ModelType, Screens, AuthScreens, FieldSets, Locked
  <1>1. \A b \in BOOLEAN : [x EXCEPT !.busy = b] \in ModelType
    OBVIOUS
  <1>2. \A f \in FieldSets : [x EXCEPT !.fields = f] \in ModelType
    OBVIOUS
  <1>3. \A f \in FieldSets : [x EXCEPT !.fields = f, !.busy = FALSE] \in ModelType
    OBVIOUS
  <1>4. \A b \in BOOLEAN, f \in FieldSets :
            [x EXCEPT !.pinMode = b, !.fields = f] \in ModelType
    OBVIOUS
  <1>5. [x EXCEPT !.busy = FALSE, !.fields = "none"] \in ModelType
    OBVIOUS
  <1>6. [x EXCEPT !.busy = FALSE, !.pinMode = FALSE, !.fields = "password"]
            \in ModelType
    OBVIOUS
  <1>7. [x EXCEPT !.screen = "login", !.fields = "login", !.busy = FALSE, !.rows = 0]
            \in ModelType
    OBVIOUS
  <1>8. \A v \in Vaults : [x EXCEPT !.busy = FALSE, !.vault = v, !.screen = "main",
                                  !.fields = "none", !.pinMode = FALSE] \in ModelType
    OBVIOUS
  <1> QED
    BY <1>1, <1>2, <1>3, <1>4, <1>5, <1>6, <1>7, <1>8

\* ... a form ...
LEMMA FormRecords ==
  ASSUME NEW x \in ModelType
  PROVE  /\ \A f \in FormType : [x EXCEPT !.form = f] \in ModelType
         /\ \A f \in FormType : [x EXCEPT !.confirm = TRUE, !.back = f] \in ModelType
         /\ [x EXCEPT !.confirm = FALSE, !.back = NoForm] \in ModelType
         /\ [x EXCEPT !.confirm = FALSE, !.back = NoForm, !.form = x.back] \in ModelType
  <1>n. NoForm \in FormType
    BY CommandRecords
  <1> USE <1>n DEF ModelType, Screens, AuthScreens, FieldSets, Locked
  <1>1. \A f \in FormType : [x EXCEPT !.form = f] \in ModelType
    OBVIOUS
  <1>2. \A f \in FormType : [x EXCEPT !.confirm = TRUE, !.back = f] \in ModelType
    OBVIOUS
  <1>3. [x EXCEPT !.confirm = FALSE, !.back = NoForm] \in ModelType
    OBVIOUS
  <1>4. [x EXCEPT !.confirm = FALSE, !.back = NoForm, !.form = x.back] \in ModelType
    OBVIOUS
  <1> QED
    BY <1>1, <1>2, <1>3, <1>4

\* ... or what the detail screen shows.
LEMMA DetailRecords ==
  ASSUME NEW x \in ModelType
  PROVE  /\ \A c \in Coded \cup {NoEntry} : [x EXCEPT !.code = c] \in ModelType
         /\ \A e \in Entries \cup {NoEntry}, b \in BOOLEAN :
             [x EXCEPT !.pw = e, !.has = b] \in ModelType
         /\ \A e \in Entries \cup {NoEntry} :
             [x EXCEPT !.pw = e, !.code = NoEntry] \in ModelType
         /\ [x EXCEPT !.reveal = TRUE] \in ModelType
         /\ [x EXCEPT !.reveal = FALSE, !.code = NoEntry] \in ModelType
         /\ \A e \in Entries : [x EXCEPT !.detail = e, !.reveal = FALSE, !.pw = NoEntry,
                                      !.has = FALSE, !.code = NoEntry] \in ModelType
  <1>n. NoForm \in FormType
    BY CommandRecords
  <1> USE <1>n DEF ModelType, Screens, AuthScreens, FieldSets, Locked
  <1>1. \A c \in Coded \cup {NoEntry} : [x EXCEPT !.code = c] \in ModelType
    OBVIOUS
  <1>2. \A e \in Entries \cup {NoEntry}, b \in BOOLEAN :
            [x EXCEPT !.pw = e, !.has = b] \in ModelType
    OBVIOUS
  <1>3. \A e \in Entries \cup {NoEntry} :
            [x EXCEPT !.pw = e, !.code = NoEntry] \in ModelType
    OBVIOUS
  <1>4. [x EXCEPT !.reveal = TRUE] \in ModelType
    OBVIOUS
  <1>5. [x EXCEPT !.reveal = FALSE, !.code = NoEntry] \in ModelType
    OBVIOUS
  <1>6. \A e \in Entries : [x EXCEPT !.detail = e, !.reveal = FALSE, !.pw = NoEntry,
                                   !.has = FALSE, !.code = NoEntry] \in ModelType
    OBVIOUS
  <1> QED
    BY <1>1, <1>2, <1>3, <1>4, <1>5, <1>6

\* The Model keeps its type.
LEMMA ModelStep ==
  TypeOK /\ [Next]_vars => m' \in ModelType
  <1> SUFFICES ASSUME TypeOK, [Next]_vars PROVE m' \in ModelType
    OBVIOUS
  <1>m. m \in ModelType
    BY DEF TypeOK
  <1>n. \A kind \in FormKinds, e \in Entries \cup {NoEntry} : Form(kind, e) \in FormType
    BY CommandRecords
  <1>o. NoForm \in FormType
    BY CommandRecords
  <1>g. m.form \in FormType
    BY <1>m DEF ModelType
  <1>w. \A r \in Runners :
          /\ runs[r].v \in Vaults \cup {0}
          /\ runs[r].form.on \in Entries \cup {NoEntry}
    BY WorkRecords DEF TypeOK
  <1>v. \A r \in Runners :
          runs[r].do \in {"login", "unlock", "pinToken"} => runs[r].v \in Vaults
    BY DEF TypeOK, CommandType
  <1>1. CASE SubmitForm
    BY <1>1, <1>m DEF SubmitForm, Answer, KeyStarts, Press
  <1>2. CASE CancelForm
    BY <1>2, <1>m DEF CancelForm, Answer, KeyStarts, Press
  <1>3. CASE UseGenerated
    BY <1>3, <1>m, FormRecords DEF UseGenerated, KeyStarts, Press
  <1>4. CASE GeneratorOptions
    BY <1>4, <1>m, FormRecords, <1>n DEF GeneratorOptions, Key, Press, Open,
       FormKinds
  <1>5. CASE DiscardGenerated
    BY <1>5, <1>m, FormRecords DEF DiscardGenerated, Key, Press
  <1>6. ASSUME NEW k \in Menus, OpenMenu(k) PROVE m' \in ModelType
    BY <1>6, <1>m, ScreenRecords DEF OpenMenu, Key, Press, Menu, Screens,
       AuthScreens, FieldSets
  <1>7. CASE GoSettings
    BY <1>7, <1>m, ScreenRecords DEF GoSettings, Key, Press, To, Screens,
       AuthScreens, FieldSets
  <1>8. CASE GoTools
    BY <1>8, <1>m, ScreenRecords DEF GoTools, Key, Press, To, Screens, AuthScreens,
       FieldSets
  <1>9. CASE Refresh
    BY <1>9, <1>m DEF Refresh, KeyStarts, Press
  <1>10. ASSUME NEW kind \in FormKinds, OpenListForm(kind) PROVE m' \in ModelType
    BY <1>10, <1>m, FormRecords, <1>n DEF OpenListForm, Key, Press, Open, FormKinds
  <1>11. ASSUME NEW e \in Entries, EditSelected(e) PROVE m' \in ModelType
    BY <1>11, <1>m DEF EditSelected, KeyStarts, Press
  <1>12. ASSUME NEW e \in Entries, CopyField(e) PROVE m' \in ModelType
    BY <1>12, <1>m DEF CopyField, KeyStarts, Press
  <1>13. CASE CloseMenu
    BY <1>13, <1>m, ScreenRecords DEF CloseMenu, Key, Press, Menu, Screens,
       AuthScreens, FieldSets
  <1>14. CASE CloseQR
    BY <1>14, <1>m, ScreenRecords DEF CloseQR, Key, Press, Screens, AuthScreens,
       FieldSets
  <1>15. CASE PickTarget
    BY <1>15, <1>m, ScreenRecords DEF PickTarget, KeyStarts, Press, Menu, Screens,
       AuthScreens, FieldSets
  <1>16. CASE Reveal
    BY <1>16, <1>m, DetailRecords DEF Reveal, Key, KeyStarts, Press
  <1>17. CASE CopyShown
    BY <1>17, <1>m DEF CopyShown
  <1>18. CASE AddCode
    BY <1>18, <1>m, FormRecords, <1>n DEF AddCode, Key, Press, Open, FormKinds
  <1>19. CASE EditDetail
    BY <1>19, <1>m DEF EditDetail, KeyStarts, Press
  <1>20. CASE AskRestore
    BY <1>20, <1>m, FormRecords, <1>n DEF AskRestore, Key, Press, Open, FormKinds
  <1>21. CASE OpenOther(m.screen)
    BY <1>21, <1>m, FormRecords, <1>n DEF OpenOther, Key, Press, Open, FormKinds
  <1>22. CASE LockNow
    BY <1>22, <1>m, ScreenRecords DEF LockNow, Press, Locked, Screens, AuthScreens,
       FieldSets
  <1>23. CASE ManagePIN
    BY <1>23, <1>m, ScreenRecords, AuthRecords DEF ManagePIN, Key, KeyStarts, Press,
       To, Screens, AuthScreens, FieldSets
  <1>24. CASE ToRegister
    BY <1>24, <1>m, ScreenRecords, AuthRecords DEF ToRegister, AuthKey, Key, Press,
       To, Screens, AuthScreens, FieldSets
  <1>25. CASE BackToLogin
    BY <1>25, <1>m, ScreenRecords, AuthRecords DEF BackToLogin, AuthKey, Key, Press,
       To, Screens, AuthScreens, FieldSets
  <1>26. CASE CancelPIN
    BY <1>26, <1>m, ScreenRecords, AuthRecords DEF CancelPIN, AuthKey, Key, Press,
       To, Screens, AuthScreens, FieldSets
  <1>27. CASE TogglePIN
    BY <1>27, <1>m, AuthRecords DEF TogglePIN, AuthKey, Key, Press, Screens,
       AuthScreens, FieldSets
  <1>28. CASE Submit(m.screen)
    BY <1>28, <1>m, AuthRecords DEF Submit, KeyStarts, Press, Screens, AuthScreens,
       FieldSets
  <1>29. CASE Leave(m.screen)
    BY <1>29, <1>m, ScreenRecords DEF Leave, Key, Press, To, Screens, AuthScreens,
       FieldSets
  <1>30. CASE Logout(m.screen)
    BY <1>30, <1>m, AuthRecords DEF Logout, Press, Screens, AuthScreens, FieldSets
  <1>31. ASSUME NEW e \in Entries, OpenDetail(e) PROVE m' \in ModelType
    BY <1>31, <1>m, ScreenRecords, DetailRecords DEF OpenDetail, To, Screens,
       AuthScreens, FieldSets
  <1>32. ASSUME NEW r \in Runners, WorkCopy(r) PROVE m' \in ModelType
    BY <1>32, <1>m DEF WorkCopy
  <1>33. ASSUME NEW r \in Runners, WipeClipboard(r) PROVE m' \in ModelType
    BY <1>33, <1>m DEF WipeClipboard
  <1>34. ASSUME NEW r \in Runners, WorkLogin(r) PROVE m' \in ModelType
    BY <1>34, <1>m DEF WorkLogin
  <1>35. ASSUME NEW r \in Runners, WorkUnlock(r) PROVE m' \in ModelType
    BY <1>35, <1>m DEF WorkUnlock
  <1>36. ASSUME NEW r \in Runners, WorkPIN(r) PROVE m' \in ModelType
    BY <1>36, <1>m DEF WorkPIN
  <1>37. ASSUME NEW r \in Runners, WorkToken(r) PROVE m' \in ModelType
    BY <1>37, <1>m DEF WorkToken
  <1>38. ASSUME NEW r \in Runners, WorkSetPIN(r) PROVE m' \in ModelType
    BY <1>38, <1>m DEF WorkSetPIN
  <1>39. ASSUME NEW r \in Runners, LateResult(r) PROVE m' \in ModelType
    BY <1>39, <1>m DEF LateResult, Ends, Tail
  <1>40. ASSUME NEW r \in Runners, PlainFails(r) PROVE m' \in ModelType
    BY <1>40, <1>m DEF PlainFails, Ends, Tail
  <1>41. ASSUME NEW r \in Runners, FormClosed(r) PROVE m' \in ModelType
    BY <1>41, <1>m, FormRecords, <1>o DEF FormClosed, Ends, Tail, Close
  <1>42. ASSUME NEW r \in Runners, FormSubmitted(r) PROVE m' \in ModelType
    BY <1>42, <1>m, FormRecords, <1>o DEF FormSubmitted, Leads, Tail, Close
  <1>43. ASSUME NEW r \in Runners, GenConfirm(r) PROVE m' \in ModelType
    BY <1>43, <1>m, FormRecords, <1>o, <1>g DEF GenConfirm, Ends, Tail, Close
  <1>44. ASSUME NEW r \in Runners, AuthResult(r) PROVE m' \in ModelType
    BY <1>44, <1>m, AuthRecords, <1>v DEF AuthResult, Message, Screens, AuthScreens,
       FieldSets
  <1>45. ASSUME NEW r \in Runners, PINRefused(r) PROVE m' \in ModelType
    BY <1>45, <1>m, AuthRecords DEF PINRefused, Ends, Tail, Screens, AuthScreens,
       FieldSets
  <1>46. ASSUME NEW r \in Runners, PINConfig(r) PROVE m' \in ModelType
    BY <1>46, <1>m, ScreenRecords, AuthRecords DEF PINConfig, Ends, Tail, To,
       Screens, AuthScreens, FieldSets
  <1>47. ASSUME NEW r \in Runners, AuthFails(r) PROVE m' \in ModelType
    BY <1>47, <1>m, AuthRecords DEF AuthFails, Screens, AuthScreens, FieldSets
  <1>48. ASSUME NEW r \in Runners, ListLoaded(r) PROVE m' \in ModelType
    BY <1>48, <1>m, ScreenRecords, <1>w DEF ListLoaded, Ends, Tail, Screens,
       AuthScreens, FieldSets, On
  <1>49. ASSUME NEW r \in Runners, SecretLoaded(r) PROVE m' \in ModelType
    <2>1. On(r) \in Entries \cup {NoEntry} /\ (On(r) \in Coded) \in BOOLEAN
      BY <1>w DEF On
    <2>2. [m EXCEPT !.pw = On(r), !.has = On(r) \in Coded] \in ModelType
      BY <1>m, <2>1, DetailRecords
    <2> QED
      BY <1>49, <1>m, <2>2 DEF SecretLoaded, Ends, Tail
  <1>50. ASSUME NEW r \in Runners, CodeComputed(r) PROVE m' \in ModelType
    BY <1>50, <1>m, DetailRecords DEF CodeComputed, Ends, Tail, On, Wanted
  <1>51. ASSUME NEW r \in Runners, EditLoaded(r) PROVE m' \in ModelType
    BY <1>51, <1>m, FormRecords, <1>n, <1>w DEF EditLoaded, Ends, Tail, Open,
       FormKinds, On
  <1>52. ASSUME NEW r \in Runners, EntryEdited(r) PROVE m' \in ModelType
    BY <1>52, <1>m, DetailRecords, <1>w DEF EntryEdited, Leads, Tail, On
  <1>53. ASSUME NEW r \in Runners, ActionResult(r) PROVE m' \in ModelType
    BY <1>53, <1>m DEF ActionResult, Leads, Tail
  <1>54. ASSUME NEW r \in Runners, SecretCopied(r) PROVE m' \in ModelType
    BY <1>54, <1>m DEF SecretCopied, Leads, Tail
  <1>55. ASSUME NEW r \in Runners, LinkCreated(r) PROVE m' \in ModelType
    BY <1>55, <1>m, ScreenRecords DEF LinkCreated, Screens, AuthScreens, FieldSets
  <1>56. CASE AutoLock
    BY <1>56, <1>m, ScreenRecords DEF AutoLock, Locked, Screens, AuthScreens,
       FieldSets
  <1>57. CASE Tick
    BY <1>57, <1>m DEF Tick
  <1>58. CASE UNCHANGED vars
    BY <1>58, <1>m DEF vars
  <1> QED
    BY <1>1, <1>2, <1>3, <1>4, <1>5, <1>6, <1>7, <1>8, <1>9, <1>10, <1>11, <1>12,
       <1>13, <1>14, <1>15, <1>16, <1>17, <1>18, <1>19, <1>20, <1>21, <1>22, <1>23,
       <1>24, <1>25, <1>26, <1>27, <1>28, <1>29, <1>30, <1>31, <1>32, <1>33, <1>34,
       <1>35, <1>36, <1>37, <1>38, <1>39, <1>40, <1>41, <1>42, <1>43, <1>44, <1>45,
       <1>46, <1>47, <1>48, <1>49, <1>50, <1>51, <1>52, <1>53, <1>54, <1>55, <1>56,
       <1>57, <1>58
      DEF Next, Keys, FormKeys, MainKeys, OverlayKeys, DetailKeys, SideKeys,
         AuthKeys, Commands, Messages

\* A step that starts no command and ends none leaves them alone; one that starts
\* a command, or gives one its next state, keeps their type.
LEMMA CommandStep ==
  TypeOK /\ [Next]_vars => runs' \in [Runners -> CommandType]
  <1> SUFFICES ASSUME TypeOK, [Next]_vars PROVE runs' \in [Runners -> CommandType]
    OBVIOUS
  <1> DEFINE Ran == runs' \in [Runners -> CommandType]
  <1>t. runs \in [Runners -> CommandType] /\ m.vault \in Vaults /\ m.form \in FormType
        /\ m.detail \in Entries \cup {NoEntry}
    BY DEF TypeOK, ModelType
  <1>c. NoForm \in FormType /\ Free \in CommandType
    BY CommandRecords
  <1>a. ASSUME NEW c \in CommandType, NEW r \in Runners
        PROVE  [runs EXCEPT ![r] = c] \in [Runners -> CommandType]
    BY <1>t
  <1>s. ASSUME NEW c \in CommandType, Start(c) PROVE Ran
    BY <1>s, <1>a DEF Start
  <1>w. ASSUME NEW r \in Runners
        PROVE  /\ runs[r].v \in Vaults \cup {0} /\ runs[r].secret \in Entries \cup {NoEntry}
               /\ runs[r].form \in FormType /\ runs[r].form.on \in Entries \cup {NoEntry}
               /\ \A o \in {"ok", "out"} :
                   [runs[r] EXCEPT !.outcome = o] \in CommandType
               /\ \A v \in Vaults :
                   [runs[r] EXCEPT !.outcome = "ok", !.v = v] \in CommandType
               /\ runs[r].do = "pinUnlock" => [runs[r] EXCEPT !.do = "pinToken"]
                   \in CommandType
    BY <1>t, WorkRecords
  <1>1. CASE SubmitForm
    <2>1. [Free EXCEPT !.do = "answer", !.form = m.form, !.outcome = "ok"]
        \in CommandType
      BY <1>t, CommandRecords
    <2> QED
      BY <1>1, <1>s, <2>1 DEF SubmitForm, Answer, KeyStarts
  <1>2. CASE CancelForm
    <2>1. [Free EXCEPT !.do = "answer", !.form = Form("other", NoEntry), !.outcome = "ok"]
        \in CommandType
      BY <1>t, CommandRecords DEF FormKinds
    <2> QED
      BY <1>2, <1>s, <2>1 DEF CancelForm, Answer, KeyStarts
  <1>3. CASE UseGenerated
    <2>1. Cmd("write", m.vault, NoEntry) \in CommandType
      BY <1>t, CommandRecords
    <2> QED
      BY <1>3, <1>s, <2>1 DEF UseGenerated, KeyStarts
  <1>4. CASE GeneratorOptions
    BY <1>4, <1>t DEF GeneratorOptions, Key, Press
  <1>5. CASE DiscardGenerated
    BY <1>5, <1>t DEF DiscardGenerated, Key, Press
  <1>6. ASSUME NEW k \in Menus, OpenMenu(k) PROVE Ran
    BY <1>6, <1>t DEF OpenMenu, Key, Press
  <1>7. CASE GoSettings
    BY <1>7, <1>t DEF GoSettings, Key, Press
  <1>8. CASE GoTools
    BY <1>8, <1>t DEF GoTools, Key, Press
  <1>9. CASE Refresh
    <2>1. Load(m.vault) \in CommandType
      BY <1>t, CommandRecords DEF Load
    <2> QED
      BY <1>9, <1>s, <2>1 DEF Refresh, KeyStarts
  <1>10. ASSUME NEW kind \in FormKinds, OpenListForm(kind) PROVE Ran
    BY <1>10, <1>t DEF OpenListForm, Key, Press
  <1>11. ASSUME NEW e \in Entries, EditSelected(e) PROVE Ran
    <2>1. Cmd("loadEdit", m.vault, e) \in CommandType
      BY <1>t, CommandRecords
    <2> QED
      BY <1>11, <1>s, <2>1 DEF EditSelected, KeyStarts
  <1>12. ASSUME NEW e \in Entries, CopyField(e) PROVE Ran
    <2>1. Copy("copyField", m.vault, e) \in CommandType
      BY <1>t, CommandRecords
    <2> QED
      BY <1>12, <1>s, <2>1 DEF CopyField, KeyStarts
  <1>13. CASE CloseMenu
    BY <1>13, <1>t DEF CloseMenu, Key, Press
  <1>14. CASE CloseQR
    BY <1>14, <1>t DEF CloseQR, Key, Press
  <1>15. CASE PickTarget
    <2>1. /\ Cmd("share", m.vault, NoEntry) \in CommandType
          /\ Cmd("write", m.vault, NoEntry) \in CommandType
      BY <1>t, CommandRecords
    <2> QED
      BY <1>15, <1>s, <2>1 DEF PickTarget, KeyStarts
  <1>16. CASE Reveal
    <2>1. Cmd("code", m.vault, m.detail) \in CommandType
      BY <1>t, CommandRecords
    <2> QED
      BY <1>16, <1>s, <2>1, <1>t DEF Reveal, Key, KeyStarts
  <1>17. CASE CopyShown
    <2>1. Copy("timer", 0, m.detail) \in CommandType
      BY <1>t, CommandRecords
    <2> QED
      BY <1>17, <1>s, <2>1 DEF CopyShown
  <1>18. CASE AddCode
    BY <1>18, <1>t DEF AddCode, Key, Press
  <1>19. CASE EditDetail
    <2>1. Cmd("loadEdit", m.vault, m.detail) \in CommandType
      BY <1>t, CommandRecords
    <2> QED
      BY <1>19, <1>s, <2>1 DEF EditDetail, KeyStarts
  <1>20. CASE AskRestore
    BY <1>20, <1>t DEF AskRestore, Key, Press
  <1>21. CASE OpenOther(m.screen)
    BY <1>21, <1>t DEF OpenOther, Key, Press
  <1>22. CASE LockNow
    BY <1>22, <1>t DEF LockNow, Press
  <1>23. CASE ManagePIN
    <2>1. Cmd("disablePin", m.vault, NoEntry) \in CommandType
      BY <1>t, CommandRecords
    <2> QED
      BY <1>23, <1>s, <2>1, <1>t DEF ManagePIN, Key, KeyStarts
  <1>24. CASE ToRegister
    BY <1>24, <1>t DEF ToRegister, AuthKey, Key, Press
  <1>25. CASE BackToLogin
    BY <1>25, <1>t DEF BackToLogin, AuthKey, Key, Press
  <1>26. CASE CancelPIN
    BY <1>26, <1>t DEF CancelPIN, AuthKey, Key, Press
  <1>27. CASE TogglePIN
    BY <1>27, <1>t DEF TogglePIN, AuthKey, Key, Press
  <1>28. CASE Submit(m.screen)
    <2>1. /\ Cmd("enablePin", m.vault, NoEntry) \in CommandType
          /\ Cmd("login", m.vault, NoEntry) \in CommandType
          /\ Cmd("pinUnlock", m.vault, NoEntry) \in CommandType
          /\ Cmd("unlock", m.vault, NoEntry) \in CommandType
      BY <1>t, CommandRecords
    <2> QED
      BY <1>28, <1>s, <2>1 DEF Submit, KeyStarts
  <1>29. CASE Leave(m.screen)
    BY <1>29, <1>t DEF Leave, Key, Press
  <1>30. CASE Logout(m.screen)
    BY <1>30, <1>t DEF Logout, Press
  <1>31. ASSUME NEW e \in Entries, OpenDetail(e) PROVE Ran
    <2>1. Cmd("secret", m.vault, e) \in CommandType
      BY <1>t, CommandRecords
    <2> QED
      BY <1>31, <1>s, <2>1 DEF OpenDetail
  <1>32. ASSUME NEW r \in Runners, WorkCopy(r) PROVE Ran
    BY <1>32, <1>t, <1>a, <1>w DEF WorkCopy, Done
  <1>33. ASSUME NEW r \in Runners, WipeClipboard(r) PROVE Ran
    BY <1>33, <1>t, <1>a, <1>c DEF WipeClipboard, Drop
  <1>34. ASSUME NEW r \in Runners, WorkLogin(r) PROVE Ran
    <2> PICK v \in Vaults : runs' = [runs EXCEPT ![r].outcome = "ok", ![r].v = v]
      BY <1>34 DEF WorkLogin
    <2>1. runs' = [runs EXCEPT ![r] = [runs[r] EXCEPT !.outcome = "ok", !.v = v]]
      BY <1>t
    <2>2. [runs[r] EXCEPT !.outcome = "ok", !.v = v] \in CommandType
      BY <1>w
    <2> QED
      BY <1>t, <2>1, <2>2
  <1>35. ASSUME NEW r \in Runners, WorkUnlock(r) PROVE Ran
    BY <1>35, <1>t, <1>a, <1>w DEF WorkUnlock, Done
  <1>36. ASSUME NEW r \in Runners, WorkPIN(r) PROVE Ran
    BY <1>36, <1>t, <1>a, <1>w DEF WorkPIN, Done
  <1>37. ASSUME NEW r \in Runners, WorkToken(r) PROVE Ran
    BY <1>37, <1>t, <1>a, <1>w DEF WorkToken, Done
  <1>38. ASSUME NEW r \in Runners, WorkSetPIN(r) PROVE Ran
    BY <1>38, <1>t, <1>a, <1>w DEF WorkSetPIN, Done
  <1>39. ASSUME NEW r \in Runners, LateResult(r) PROVE Ran
    BY <1>39, <1>t, <1>a, <1>c DEF LateResult, Ends, Tail, Drop
  <1>40. ASSUME NEW r \in Runners, PlainFails(r) PROVE Ran
    BY <1>40, <1>t, <1>a, <1>c DEF PlainFails, Ends, Tail, Drop
  <1>41. ASSUME NEW r \in Runners, FormClosed(r) PROVE Ran
    BY <1>41, <1>t, <1>a, <1>c DEF FormClosed, Ends, Tail, Drop
  <1>42. ASSUME NEW r \in Runners, FormSubmitted(r) PROVE Ran
    BY <1>42, <1>t, <1>a, CommandRecords, <1>w DEF FormSubmitted, Leads, Tail, Load,
       On
  <1>43. ASSUME NEW r \in Runners, GenConfirm(r) PROVE Ran
    BY <1>43, <1>t, <1>a, <1>c DEF GenConfirm, Ends, Tail, Drop
  <1>44. ASSUME NEW r \in Runners, AuthResult(r) PROVE Ran
    BY <1>44, <1>t, <1>a, CommandRecords, <1>w DEF AuthResult, Message, Load, On
  <1>45. ASSUME NEW r \in Runners, PINRefused(r) PROVE Ran
    BY <1>45, <1>t, <1>a, <1>c DEF PINRefused, Ends, Tail, Drop
  <1>46. ASSUME NEW r \in Runners, PINConfig(r) PROVE Ran
    BY <1>46, <1>t, <1>a, <1>c DEF PINConfig, Ends, Tail, Drop
  <1>47. ASSUME NEW r \in Runners, AuthFails(r) PROVE Ran
    BY <1>47, <1>t, <1>a, <1>c DEF AuthFails, Drop
  <1>48. ASSUME NEW r \in Runners, ListLoaded(r) PROVE Ran
    BY <1>48, <1>t, <1>a, <1>c DEF ListLoaded, Ends, Tail, Drop
  <1>49. ASSUME NEW r \in Runners, SecretLoaded(r) PROVE Ran
    BY <1>49, <1>t, <1>a, <1>c DEF SecretLoaded, Ends, Tail, Drop
  <1>50. ASSUME NEW r \in Runners, CodeComputed(r) PROVE Ran
    BY <1>50, <1>t, <1>a, <1>c DEF CodeComputed, Ends, Tail, Drop
  <1>51. ASSUME NEW r \in Runners, EditLoaded(r) PROVE Ran
    BY <1>51, <1>t, <1>a, <1>c DEF EditLoaded, Ends, Tail, Drop
  <1>52. ASSUME NEW r \in Runners, EntryEdited(r) PROVE Ran
    BY <1>52, <1>t, <1>a, CommandRecords, <1>w DEF EntryEdited, Leads, Tail, Load,
       On
  <1>53. ASSUME NEW r \in Runners, ActionResult(r) PROVE Ran
    BY <1>53, <1>t, <1>a, CommandRecords, <1>w DEF ActionResult, Leads, Tail, Load,
       On
  <1>54. ASSUME NEW r \in Runners, SecretCopied(r) PROVE Ran
    BY <1>54, <1>t, <1>a, CommandRecords, <1>w DEF SecretCopied, Leads, Tail, Load,
       On
  <1>55. ASSUME NEW r \in Runners, LinkCreated(r) PROVE Ran
    BY <1>55, <1>t, <1>a, <1>c DEF LinkCreated, Drop
  <1>56. CASE AutoLock
    BY <1>56, <1>t DEF AutoLock
  <1>57. CASE Tick
    <2>1. Cmd("code", m.vault, m.detail) \in CommandType
      BY <1>t, CommandRecords
    <2> QED
      BY <1>57, <1>s, <2>1 DEF Tick
  <1>58. CASE UNCHANGED vars
    BY <1>58, <1>t DEF vars
  <1> QED
    BY <1>1, <1>2, <1>3, <1>4, <1>5, <1>6, <1>7, <1>8, <1>9, <1>10, <1>11, <1>12,
       <1>13, <1>14, <1>15, <1>16, <1>17, <1>18, <1>19, <1>20, <1>21, <1>22, <1>23,
       <1>24, <1>25, <1>26, <1>27, <1>28, <1>29, <1>30, <1>31, <1>32, <1>33, <1>34,
       <1>35, <1>36, <1>37, <1>38, <1>39, <1>40, <1>41, <1>42, <1>43, <1>44, <1>45,
       <1>46, <1>47, <1>48, <1>49, <1>50, <1>51, <1>52, <1>53, <1>54, <1>55, <1>56,
       <1>57, <1>58
      DEF Next, Keys, FormKeys, MainKeys, OverlayKeys, DetailKeys, SideKeys,
         AuthKeys, Commands, Messages

\* A step that is not one of these leaves the sessions alone.
LEMMA SessionsStay ==
  ASSUME [Next]_vars
  PROVE  \/ UNCHANGED vaults
         \/ LockNow \/ Logout(m.screen) \/ AutoLock
         \/ \E r \in Runners : WorkLogin(r) \/ WorkUnlock(r) \/ WorkPIN(r) \/ WorkSetPIN(r)
  <1>1. FormKeys => UNCHANGED vaults
    BY DEF FormKeys, SubmitForm, CancelForm, Answer, UseGenerated, GeneratorOptions,
       DiscardGenerated, Key, KeyStarts
  <1>2. MainKeys => UNCHANGED vaults
    BY DEF MainKeys, OpenMenu, GoSettings, GoTools, Refresh, OpenListForm,
       EditSelected, CopyField, Key, KeyStarts
  <1>3. OverlayKeys => UNCHANGED vaults
    BY DEF OverlayKeys, CloseMenu, CloseQR, PickTarget, Key, KeyStarts
  <1>4. DetailKeys => UNCHANGED vaults
    BY DEF DetailKeys, Reveal, CopyShown, AddCode, EditDetail, Key, KeyStarts
  <1>5. SideKeys => LockNow \/ UNCHANGED vaults
    BY DEF SideKeys, AskRestore, OpenOther, ManagePIN, Key, KeyStarts
  <1>6. AuthKeys => UNCHANGED vaults
    BY DEF AuthKeys, ToRegister, BackToLogin, CancelPIN, TogglePIN, Submit, AuthKey,
       Key, KeyStarts
  <1>7. Leave(m.screen) => UNCHANGED vaults
    BY DEF Leave, Key
  <1>8. (\E e \in Entries : OpenDetail(e)) => UNCHANGED vaults
    BY DEF OpenDetail
  <1>9. Commands => UNCHANGED vaults
          \/ \E r \in Runners : WorkLogin(r) \/ WorkUnlock(r) \/ WorkPIN(r) \/ WorkSetPIN(r)
    BY DEF Commands, WorkCopy, WipeClipboard, WorkToken
  <1>10. Messages => UNCHANGED vaults
    BY DEF Messages, LateResult, PlainFails, FormClosed, FormSubmitted, GenConfirm,
       AuthResult, PINRefused, PINConfig, AuthFails, ListLoaded, SecretLoaded,
       CodeComputed, EditLoaded, EntryEdited, ActionResult, SecretCopied,
       LinkCreated, Ends, Leads, Tail
  <1>11. Tick => UNCHANGED vaults
    BY DEF Tick
  <1> QED
    BY <1>1, <1>2, <1>3, <1>4, <1>5, <1>6, <1>7, <1>8, <1>9, <1>10, <1>11
      DEF Next, Keys, vars

\* The sessions keep their type.
LEMMA SessionStep ==
  TypeOK /\ [Next]_vars => vaults' \in [Vaults -> VaultType]
  <1> SUFFICES ASSUME TypeOK, [Next]_vars PROVE vaults' \in [Vaults -> VaultType]
    OBVIOUS
  <1>t. vaults \in [Vaults -> VaultType] /\ m.vault \in Vaults
    BY DEF TypeOK, ModelType
  <1>d. \A v \in Vaults : DropKeys(v) \in [Vaults -> VaultType]
    BY <1>t DEF DropKeys, VaultType
  <1>1. CASE LockNow \/ AutoLock
    BY <1>1, <1>t, <1>d DEF LockNow, AutoLock
  <1>2. CASE Logout(m.screen)
    BY <1>2, <1>t DEF Logout, SignedOut, VaultType
  <1>3. ASSUME NEW r \in Runners, WorkLogin(r) PROVE vaults' \in [Vaults -> VaultType]
    BY <1>3, <1>t DEF WorkLogin, VaultType
  <1>4. ASSUME NEW r \in Runners, WorkUnlock(r) PROVE vaults' \in [Vaults -> VaultType]
    BY <1>4, <1>t DEF WorkUnlock, VaultType
  <1>5. ASSUME NEW r \in Runners, WorkPIN(r) PROVE vaults' \in [Vaults -> VaultType]
    <2>1. runs[r].v \in Vaults /\ vaults[runs[r].v].in /\ vaults[runs[r].v].born
      BY <1>5, <1>t DEF WorkPIN, TypeOK, CommandType, VaultType
    <2>2. [vaults[runs[r].v] EXCEPT !.keys = TRUE] \in VaultType
      BY <1>t, <2>1 DEF VaultType
    <2>3. \A b \in BOOLEAN : [vaults[runs[r].v] EXCEPT !.pin = b] \in VaultType
      BY <1>t, <2>1 DEF VaultType
    <2> QED
      BY <1>5, <1>t, <2>1, <2>2, <2>3 DEF WorkPIN
  <1>6. ASSUME NEW r \in Runners, WorkSetPIN(r) PROVE vaults' \in [Vaults -> VaultType]
    <2> DEFINE set == runs[r].do = "enablePin"
    <2>1. runs[r].v \in Vaults /\ (set => vaults[runs[r].v].in)
      BY <1>6 DEF WorkSetPIN, TypeOK, CommandType
    <2>2. [vaults[runs[r].v] EXCEPT !.pin = set] \in VaultType
      BY <1>t, <2>1 DEF VaultType
    <2>3. vaults' = [vaults EXCEPT ![runs[r].v].pin = set]
      BY <1>6 DEF WorkSetPIN
    <2> QED
      BY <1>t, <2>1, <2>2, <2>3
  <1> QED
    BY <1>t, <1>1, <1>2, <1>3, <1>4, <1>5, <1>6, SessionsStay

\* The clipboard and the history keep their type.
LEMMA RestStep ==
  TypeOK /\ [Next]_vars => clip' \in Entries \cup {NoEntry, Missed} /\ offline' \in BOOLEAN
  <1> SUFFICES ASSUME TypeOK, [Next]_vars
               PROVE  clip' \in Entries \cup {NoEntry, Missed} /\ offline' \in BOOLEAN
    OBVIOUS
  <1> DEFINE Rest == clip' \in Entries \cup {NoEntry, Missed} /\ offline' \in BOOLEAN
  <1>t. /\ clip \in Entries \cup {NoEntry, Missed} /\ offline \in BOOLEAN
        /\ m.detail \in Entries \cup {NoEntry}
        /\ \A r \in Runners : runs[r].secret \in Entries \cup {NoEntry}
    BY WorkRecords DEF TypeOK, ModelType
  <1> HIDE DEF Rest
  <1>1. FormKeys => Rest
    BY <1>t DEF FormKeys, SubmitForm, CancelForm, Answer, UseGenerated,
       GeneratorOptions, DiscardGenerated, Key, KeyStarts, Press, Rest
  <1>2. MainKeys => Rest
    BY <1>t DEF MainKeys, OpenMenu, GoSettings, GoTools, Refresh, OpenListForm,
       EditSelected, CopyField, Key, KeyStarts, Press, Rest
  <1>3. OverlayKeys => Rest
    BY <1>t DEF OverlayKeys, CloseMenu, CloseQR, PickTarget, Key, KeyStarts, Press,
       Rest
  <1>4. DetailKeys => Rest
    BY <1>t DEF DetailKeys, Reveal, CopyShown, AddCode, EditDetail, Key, KeyStarts,
       Press, Rest
  <1>5. SideKeys => Rest
    BY <1>t DEF SideKeys, AskRestore, OpenOther, LockNow, ManagePIN, Key, KeyStarts,
       Press, Rest
  <1>6. AuthKeys => Rest
    BY <1>t DEF AuthKeys, ToRegister, BackToLogin, CancelPIN, TogglePIN, Submit,
       AuthKey, Key, KeyStarts, Press, Rest
  <1>7. Leave(m.screen) => Rest
    BY <1>t DEF Leave, Key, Press, Rest
  <1>8. Logout(m.screen) => Rest
    BY <1>t DEF Logout, Press, Rest
  <1>9. (\E e \in Entries : OpenDetail(e)) => Rest
    BY <1>t DEF OpenDetail, Rest
  <1>10. Commands => Rest
    BY <1>t DEF Commands, WorkCopy, WipeClipboard, WorkLogin, WorkUnlock, WorkPIN,
       WorkToken, WorkSetPIN, Rest
  <1>11. Messages => Rest
    BY <1>t DEF Messages, LateResult, PlainFails, FormClosed, FormSubmitted,
       GenConfirm, AuthResult, PINRefused, PINConfig, AuthFails, ListLoaded,
       SecretLoaded, CodeComputed, EditLoaded, EntryEdited, ActionResult,
       SecretCopied, LinkCreated, Ends, Leads, Tail, Rest
  <1>12. Tick => Rest
    BY <1>t DEF Tick, Rest
  <1>13. AutoLock => Rest
    BY <1>t DEF AutoLock, Rest
  <1>14. UNCHANGED vars => Rest
    BY <1>t DEF vars, Rest
  <1> QED
    BY <1>1, <1>2, <1>3, <1>4, <1>5, <1>6, <1>7, <1>8, <1>9, <1>10, <1>11, <1>12,
       <1>13, <1>14
      DEF Next, Keys, Rest

\* Every variable keeps its type, for any numbers of entries, sessions and commands.
THEOREM Types == Spec => []TypeOK
  <1>1. Init => TypeOK
    <2> SUFFICES ASSUME Init PROVE TypeOK
      OBVIOUS
    <2>1. NoForm \in FormType /\ Free \in CommandType
      BY CommandRecords
    <2>2. m \in ModelType
      BY <2>1, TerminalConstants
        DEF Init, ModelType, Screens, AuthScreens, FieldSets, TerminalConstants
    <2>3. vaults \in [Vaults -> VaultType]
      BY DEF Init, VaultType
    <2> QED
      BY <2>1, <2>2, <2>3 DEF Init, TypeOK
  <1>2. TypeOK /\ [Next]_vars => TypeOK'
    BY ModelStep, CommandStep, SessionStep, RestStep DEF TypeOK
  <1> QED
    BY <1>1, <1>2, PTL DEF Spec

\* What a key reaches says which screen is open, and that no form is.
LEMMA DrivenScreen ==
  ASSUME m \in ModelType
  PROVE  /\ Driven(m) \in Screens => m.screen = Driven(m) /\ m.form = NoForm /\ ~m.confirm
         /\ Driven(m) \in {"qr", "move", "share", "help", "search"} => m.screen = "main"
         /\ Driven(m) = "form" => m.form # NoForm
         /\ Driven(m) = "confirm" => m.confirm
  <1> m.menu \in {"none", "move", "share", "help", "search"} /\ m.screen \in Screens
    BY TerminalConstants DEF ModelType, TerminalConstants
  <1> QED
    BY DEF Driven, Screens, AuthScreens

\* Nothing of the vault comes back behind the lock.
LEMMA LockStep ==
  TypeOK /\ NothingLeftBehindTheLock /\ [Next]_vars => NothingLeftBehindTheLock'
  <1> SUFFICES ASSUME TypeOK, NothingLeftBehindTheLock, [Next]_vars
  PROVE  NothingLeftBehindTheLock'
    OBVIOUS
  <1>m. m \in ModelType
    BY DEF TypeOK
  <1>i. NothingLeftBehindTheLock
    OBVIOUS
  <1>d. /\ Driven(m) \in Screens => m.screen = Driven(m) /\ m.form = NoForm /\ ~m.confirm
        /\ Driven(m) \in {"qr", "move", "share", "help", "search"} => m.screen = "main"
        /\ Driven(m) = "form" => m.form # NoForm
        /\ Driven(m) = "confirm" => m.confirm
    BY DrivenScreen, <1>m
  <1> DEFINE Kept == NothingLeftBehindTheLock'
  <1> HIDE DEF Kept
  <1>1. ASSUME FormKeys PROVE Kept
    <2>1. CASE SubmitForm
      BY <2>1, <1>m, <1>i, <1>d DEF SubmitForm, Answer, KeyStarts, Press,
         NothingLeftBehindTheLock, ModelType, Screens, AuthScreens, Kept
    <2>2. CASE CancelForm
      BY <2>2, <1>m, <1>i, <1>d DEF CancelForm, Answer, KeyStarts, Press,
         NothingLeftBehindTheLock, ModelType, Screens, AuthScreens, Kept
    <2>3. CASE UseGenerated
      BY <2>3, <1>m, <1>i, <1>d DEF UseGenerated, KeyStarts, Press,
         NothingLeftBehindTheLock, ModelType, Screens, AuthScreens, Kept
    <2>4. CASE GeneratorOptions
      BY <2>4, <1>m, <1>i, <1>d DEF GeneratorOptions, Key, Press, Open,
         NothingLeftBehindTheLock, ModelType, Screens, AuthScreens, Kept
    <2>5. CASE DiscardGenerated
      BY <2>5, <1>m, <1>i, <1>d DEF DiscardGenerated, Key, Press,
         NothingLeftBehindTheLock, ModelType, Screens, AuthScreens, Kept
    <2> QED
      BY <1>1, <2>1, <2>2, <2>3, <2>4, <2>5 DEF FormKeys
  <1>2. ASSUME MainKeys PROVE Kept
    <2>1. ASSUME NEW k \in Menus, OpenMenu(k) PROVE Kept
      BY <2>1, <1>m, <1>i, <1>d DEF OpenMenu, Key, Press, Menu,
         NothingLeftBehindTheLock, ModelType, Screens, AuthScreens, Kept
    <2>2. CASE GoSettings
      BY <2>2, <1>m, <1>i, <1>d DEF GoSettings, Key, Press, To,
         NothingLeftBehindTheLock, ModelType, Screens, AuthScreens, Kept
    <2>3. CASE GoTools
      BY <2>3, <1>m, <1>i, <1>d DEF GoTools, Key, Press, To,
         NothingLeftBehindTheLock, ModelType, Screens, AuthScreens, Kept
    <2>4. CASE Refresh
      BY <2>4, <1>m, <1>i, <1>d DEF Refresh, KeyStarts, Press,
         NothingLeftBehindTheLock, ModelType, Screens, AuthScreens, Kept
    <2>5. ASSUME NEW kind \in FormKinds, OpenListForm(kind) PROVE Kept
      BY <2>5, <1>m, <1>i, <1>d DEF OpenListForm, Key, Press, Open,
         NothingLeftBehindTheLock, ModelType, Screens, AuthScreens, Kept
    <2>6. ASSUME NEW e \in Entries, EditSelected(e) PROVE Kept
      BY <2>6, <1>m, <1>i, <1>d DEF EditSelected, KeyStarts, Press,
         NothingLeftBehindTheLock, ModelType, Screens, AuthScreens, Kept
    <2>7. ASSUME NEW e \in Entries, CopyField(e) PROVE Kept
      BY <2>7, <1>m, <1>i, <1>d DEF CopyField, KeyStarts, Press,
         NothingLeftBehindTheLock, ModelType, Screens, AuthScreens, Kept
    <2> QED
      BY <1>2, <2>1, <2>2, <2>3, <2>4, <2>5, <2>6, <2>7 DEF MainKeys
  <1>3. ASSUME OverlayKeys PROVE Kept
    <2>1. CASE CloseMenu
      BY <2>1, <1>m, <1>i, <1>d DEF CloseMenu, Key, Press, Menu,
         NothingLeftBehindTheLock, ModelType, Screens, AuthScreens, Kept
    <2>2. CASE CloseQR
      BY <2>2, <1>m, <1>i, <1>d DEF CloseQR, Key, Press, NothingLeftBehindTheLock,
         ModelType, Screens, AuthScreens, Kept
    <2>3. CASE PickTarget
      BY <2>3, <1>m, <1>i, <1>d DEF PickTarget, KeyStarts, Press, Menu,
         NothingLeftBehindTheLock, ModelType, Screens, AuthScreens, Kept
    <2> QED
      BY <1>3, <2>1, <2>2, <2>3 DEF OverlayKeys
  <1>4. ASSUME DetailKeys PROVE Kept
    <2>1. CASE Reveal
      BY <2>1, <1>m, <1>i, <1>d DEF Reveal, Key, KeyStarts, Press,
         NothingLeftBehindTheLock, ModelType, Screens, AuthScreens, Kept
    <2>2. CASE CopyShown
      BY <2>2, <1>m, <1>i, <1>d DEF CopyShown, NothingLeftBehindTheLock,
         ModelType, Screens, AuthScreens, Kept
    <2>3. CASE AddCode
      BY <2>3, <1>m, <1>i, <1>d DEF AddCode, Key, Press, Open,
         NothingLeftBehindTheLock, ModelType, Screens, AuthScreens, Kept
    <2>4. CASE EditDetail
      BY <2>4, <1>m, <1>i, <1>d DEF EditDetail, KeyStarts, Press,
         NothingLeftBehindTheLock, ModelType, Screens, AuthScreens, Kept
    <2> QED
      BY <1>4, <2>1, <2>2, <2>3, <2>4 DEF DetailKeys
  <1>5. ASSUME SideKeys PROVE Kept
    <2>1. CASE AskRestore
      BY <2>1, <1>m, <1>i, <1>d DEF AskRestore, Key, Press, Open,
         NothingLeftBehindTheLock, ModelType, Screens, AuthScreens, Kept
    <2>2. CASE OpenOther(m.screen)
      BY <2>2, <1>m, <1>i, <1>d DEF OpenOther, Key, Press, Open,
         NothingLeftBehindTheLock, ModelType, Screens, AuthScreens, Kept
    <2>3. CASE LockNow
      BY <2>3, <1>m, <1>i, <1>d DEF LockNow, Press, Locked,
         NothingLeftBehindTheLock, ModelType, Screens, AuthScreens, Kept
    <2>4. CASE ManagePIN
      BY <2>4, <1>m, <1>i, <1>d DEF ManagePIN, Key, KeyStarts, Press, To,
         NothingLeftBehindTheLock, ModelType, Screens, AuthScreens, Kept
    <2> QED
      BY <1>5, <2>1, <2>2, <2>3, <2>4 DEF SideKeys
  <1>6. ASSUME AuthKeys PROVE Kept
    <2>1. CASE ToRegister
      BY <2>1, <1>m, <1>i, <1>d DEF ToRegister, AuthKey, Key, Press, To,
         NothingLeftBehindTheLock, ModelType, Screens, AuthScreens, Kept
    <2>2. CASE BackToLogin
      BY <2>2, <1>m, <1>i, <1>d DEF BackToLogin, AuthKey, Key, Press, To,
         NothingLeftBehindTheLock, ModelType, Screens, AuthScreens, Kept
    <2>3. CASE CancelPIN
      BY <2>3, <1>m, <1>i, <1>d DEF CancelPIN, AuthKey, Key, Press, To,
         NothingLeftBehindTheLock, ModelType, Screens, AuthScreens, Kept
    <2>4. CASE TogglePIN
      BY <2>4, <1>m, <1>i, <1>d DEF TogglePIN, AuthKey, Key, Press,
         NothingLeftBehindTheLock, ModelType, Screens, AuthScreens, Kept
    <2>5. CASE Submit(m.screen)
      BY <2>5, <1>m, <1>i, <1>d DEF Submit, KeyStarts, Press,
         NothingLeftBehindTheLock, ModelType, Screens, AuthScreens, Kept
    <2> QED
      BY <1>6, <2>1, <2>2, <2>3, <2>4, <2>5 DEF AuthKeys
  <1>7. Leave(m.screen) => Kept
    BY <1>m, <1>i, <1>d DEF Leave, Key, Press, To, NothingLeftBehindTheLock,
       ModelType, Screens, AuthScreens, Kept
  <1>8. Logout(m.screen) => Kept
    BY <1>m, <1>i, <1>d DEF Logout, Press, NothingLeftBehindTheLock, ModelType,
       Screens, AuthScreens, Kept
  <1>9. (\E e \in Entries : OpenDetail(e)) => Kept
    BY <1>m, <1>i, <1>d DEF OpenDetail, To, NothingLeftBehindTheLock, ModelType,
       Screens, AuthScreens, Kept
  <1>10. Commands => Kept
    BY <1>m, <1>i, <1>d DEF Commands, WorkCopy, WipeClipboard, WorkLogin,
       WorkUnlock, WorkPIN, WorkToken, WorkSetPIN, NothingLeftBehindTheLock,
       ModelType, Screens, AuthScreens, Kept
  <1>11. ASSUME Messages PROVE Kept
    <2>1. ASSUME NEW r \in Runners, LateResult(r) PROVE Kept
      BY <2>1, <1>m, <1>i, <1>d DEF LateResult, Ends, Tail,
         NothingLeftBehindTheLock, ModelType, Screens, AuthScreens, Kept
    <2>2. ASSUME NEW r \in Runners, PlainFails(r) PROVE Kept
      BY <2>2, <1>m, <1>i, <1>d DEF PlainFails, Ends, Tail,
         NothingLeftBehindTheLock, ModelType, Screens, AuthScreens, Kept
    <2>3. ASSUME NEW r \in Runners, FormClosed(r) PROVE Kept
      BY <2>3, <1>m, <1>i, <1>d DEF FormClosed, Ends, Tail, Close,
         NothingLeftBehindTheLock, ModelType, Screens, AuthScreens, Kept
    <2>4. ASSUME NEW r \in Runners, FormSubmitted(r) PROVE Kept
      BY <2>4, <1>m, <1>i, <1>d DEF FormSubmitted, Leads, Tail, Close,
         NothingLeftBehindTheLock, ModelType, Screens, AuthScreens, Kept
    <2>5. ASSUME NEW r \in Runners, GenConfirm(r) PROVE Kept
      BY <2>5, <1>m, <1>i, <1>d DEF GenConfirm, Ends, Tail, Close,
         NothingLeftBehindTheLock, ModelType, Screens, AuthScreens, Kept
    <2>6. ASSUME NEW r \in Runners, AuthResult(r) PROVE Kept
      BY <2>6, <1>m, <1>i, <1>d DEF AuthResult, NothingLeftBehindTheLock, ModelType,
         Screens, AuthScreens, Kept
    <2>7. ASSUME NEW r \in Runners, PINRefused(r) PROVE Kept
      BY <2>7, <1>m, <1>i, <1>d DEF PINRefused, Ends, Tail,
         NothingLeftBehindTheLock, ModelType, Screens, AuthScreens, Kept
    <2>8. ASSUME NEW r \in Runners, PINConfig(r) PROVE Kept
      BY <2>8, <1>m, <1>i, <1>d DEF PINConfig, Ends, Tail, To,
         NothingLeftBehindTheLock, ModelType, Screens, AuthScreens, Kept
    <2>9. ASSUME NEW r \in Runners, AuthFails(r) PROVE Kept
      BY <2>9, <1>m, <1>i, <1>d DEF AuthFails, NothingLeftBehindTheLock, ModelType,
         Screens, AuthScreens, Kept
    <2>10. ASSUME NEW r \in Runners, ListLoaded(r) PROVE Kept
      BY <2>10, <1>m, <1>i, <1>d DEF ListLoaded, Message, Dropped, LateVaultResult,
         Ends, Tail, NothingLeftBehindTheLock, ModelType, Screens, AuthScreens, Kept
    <2>11. ASSUME NEW r \in Runners, SecretLoaded(r) PROVE Kept
      BY <2>11, <1>m, <1>i, <1>d DEF SecretLoaded, Message, Dropped,
         LateVaultResult, Ends, Tail, NothingLeftBehindTheLock, ModelType, Screens,
         AuthScreens, Kept
    <2>12. ASSUME NEW r \in Runners, CodeComputed(r) PROVE Kept
      BY <2>12, <1>m, <1>i, <1>d DEF CodeComputed, Message, Dropped,
         LateVaultResult, Ends, Tail, NothingLeftBehindTheLock, ModelType, Screens,
         AuthScreens, Kept
    <2>13. ASSUME NEW r \in Runners, EditLoaded(r) PROVE Kept
      BY <2>13, <1>m, <1>i, <1>d DEF EditLoaded, Message, Dropped, LateVaultResult,
         Ends, Tail, Open, NothingLeftBehindTheLock, ModelType, Screens,
         AuthScreens, Kept
    <2>14. ASSUME NEW r \in Runners, EntryEdited(r) PROVE Kept
      BY <2>14, <1>m, <1>i, <1>d DEF EntryEdited, Leads, Tail,
         NothingLeftBehindTheLock, ModelType, Screens, AuthScreens, Kept
    <2>15. ASSUME NEW r \in Runners, ActionResult(r) PROVE Kept
      BY <2>15, <1>m, <1>i, <1>d DEF ActionResult, Leads, Tail,
         NothingLeftBehindTheLock, ModelType, Screens, AuthScreens, Kept
    <2>16. ASSUME NEW r \in Runners, SecretCopied(r) PROVE Kept
      BY <2>16, <1>m, <1>i, <1>d DEF SecretCopied, Leads, Tail,
         NothingLeftBehindTheLock, ModelType, Screens, AuthScreens, Kept
    <2>17. ASSUME NEW r \in Runners, LinkCreated(r) PROVE Kept
      BY <2>17, <1>m, <1>i, <1>d DEF LinkCreated, Message, Dropped, LateVaultResult,
         NothingLeftBehindTheLock, ModelType, Screens, AuthScreens, Kept
    <2> QED
      BY <1>11, <2>1, <2>2, <2>3, <2>4, <2>5, <2>6, <2>7, <2>8, <2>9, <2>10, <2>11, <2>12,
         <2>13, <2>14, <2>15, <2>16, <2>17
        DEF Messages
  <1>12. Tick => Kept
    BY <1>m, <1>i, <1>d DEF Tick, NothingLeftBehindTheLock, ModelType, Screens,
       AuthScreens, Kept
  <1>13. AutoLock => Kept
    BY <1>m, <1>i, <1>d DEF AutoLock, Locked, NothingLeftBehindTheLock, ModelType,
       Screens, AuthScreens, Kept
  <1>14. UNCHANGED vars => Kept
    BY <1>i DEF vars, Kept, NothingLeftBehindTheLock
  <1> QED
    BY <1>1, <1>2, <1>3, <1>4, <1>5, <1>6, <1>7, <1>8, <1>9, <1>10, <1>11, <1>12,
       <1>13, <1>14
      DEF Next, Keys, Kept

\* Behind the unlock prompt the Model holds nothing of the vault, whatever answers
\* after the lock (lockVault, lateVaultResult).
THEOREM LockedIsEmpty == Spec => []NothingLeftBehindTheLock
  <1>1. Init => NothingLeftBehindTheLock
    BY DEF Init, NothingLeftBehindTheLock
  <1>2. TypeOK /\ NothingLeftBehindTheLock /\ [Next]_vars => NothingLeftBehindTheLock'
    BY LockStep
  <1> QED
    BY <1>1, <1>2, Types, PTL DEF Spec

\* A secret shown is the detail's.
LEMMA SecretStep ==
  TypeOK /\ SecretsAreOfTheDetail /\ [Next]_vars => SecretsAreOfTheDetail'
  <1> SUFFICES ASSUME TypeOK, SecretsAreOfTheDetail, [Next]_vars
  PROVE  SecretsAreOfTheDetail'
    OBVIOUS
  <1>m. m \in ModelType
    BY DEF TypeOK
  <1>i. SecretsAreOfTheDetail
    OBVIOUS
  <1>d. /\ Driven(m) \in Screens => m.screen = Driven(m) /\ m.form = NoForm /\ ~m.confirm
        /\ Driven(m) \in {"qr", "move", "share", "help", "search"} => m.screen = "main"
        /\ Driven(m) = "form" => m.form # NoForm
        /\ Driven(m) = "confirm" => m.confirm
    BY DrivenScreen, <1>m
  <1> DEFINE Kept == SecretsAreOfTheDetail'
  <1> HIDE DEF Kept
  <1>1. ASSUME FormKeys PROVE Kept
    <2>1. CASE SubmitForm
      BY <2>1, <1>m, <1>i, <1>d DEF SubmitForm, Answer, KeyStarts, Press,
         SecretsAreOfTheDetail, ModelType, Screens, AuthScreens, Kept
    <2>2. CASE CancelForm
      BY <2>2, <1>m, <1>i, <1>d DEF CancelForm, Answer, KeyStarts, Press,
         SecretsAreOfTheDetail, ModelType, Screens, AuthScreens, Kept
    <2>3. CASE UseGenerated
      BY <2>3, <1>m, <1>i, <1>d DEF UseGenerated, KeyStarts, Press,
         SecretsAreOfTheDetail, ModelType, Screens, AuthScreens, Kept
    <2>4. CASE GeneratorOptions
      BY <2>4, <1>m, <1>i, <1>d DEF GeneratorOptions, Key, Press, Open,
         SecretsAreOfTheDetail, ModelType, Screens, AuthScreens, Kept
    <2>5. CASE DiscardGenerated
      BY <2>5, <1>m, <1>i, <1>d DEF DiscardGenerated, Key, Press,
         SecretsAreOfTheDetail, ModelType, Screens, AuthScreens, Kept
    <2> QED
      BY <1>1, <2>1, <2>2, <2>3, <2>4, <2>5 DEF FormKeys
  <1>2. ASSUME MainKeys PROVE Kept
    <2>1. ASSUME NEW k \in Menus, OpenMenu(k) PROVE Kept
      BY <2>1, <1>m, <1>i, <1>d DEF OpenMenu, Key, Press, Menu,
         SecretsAreOfTheDetail, ModelType, Screens, AuthScreens, Kept
    <2>2. CASE GoSettings
      BY <2>2, <1>m, <1>i, <1>d DEF GoSettings, Key, Press, To,
         SecretsAreOfTheDetail, ModelType, Screens, AuthScreens, Kept
    <2>3. CASE GoTools
      BY <2>3, <1>m, <1>i, <1>d DEF GoTools, Key, Press, To,
         SecretsAreOfTheDetail, ModelType, Screens, AuthScreens, Kept
    <2>4. CASE Refresh
      BY <2>4, <1>m, <1>i, <1>d DEF Refresh, KeyStarts, Press,
         SecretsAreOfTheDetail, ModelType, Screens, AuthScreens, Kept
    <2>5. ASSUME NEW kind \in FormKinds, OpenListForm(kind) PROVE Kept
      BY <2>5, <1>m, <1>i, <1>d DEF OpenListForm, Key, Press, Open,
         SecretsAreOfTheDetail, ModelType, Screens, AuthScreens, Kept
    <2>6. ASSUME NEW e \in Entries, EditSelected(e) PROVE Kept
      BY <2>6, <1>m, <1>i, <1>d DEF EditSelected, KeyStarts, Press,
         SecretsAreOfTheDetail, ModelType, Screens, AuthScreens, Kept
    <2>7. ASSUME NEW e \in Entries, CopyField(e) PROVE Kept
      BY <2>7, <1>m, <1>i, <1>d DEF CopyField, KeyStarts, Press,
         SecretsAreOfTheDetail, ModelType, Screens, AuthScreens, Kept
    <2> QED
      BY <1>2, <2>1, <2>2, <2>3, <2>4, <2>5, <2>6, <2>7 DEF MainKeys
  <1>3. ASSUME OverlayKeys PROVE Kept
    <2>1. CASE CloseMenu
      BY <2>1, <1>m, <1>i, <1>d DEF CloseMenu, Key, Press, Menu,
         SecretsAreOfTheDetail, ModelType, Screens, AuthScreens, Kept
    <2>2. CASE CloseQR
      BY <2>2, <1>m, <1>i, <1>d DEF CloseQR, Key, Press, SecretsAreOfTheDetail,
         ModelType, Screens, AuthScreens, Kept
    <2>3. CASE PickTarget
      BY <2>3, <1>m, <1>i, <1>d DEF PickTarget, KeyStarts, Press, Menu,
         SecretsAreOfTheDetail, ModelType, Screens, AuthScreens, Kept
    <2> QED
      BY <1>3, <2>1, <2>2, <2>3 DEF OverlayKeys
  <1>4. ASSUME DetailKeys PROVE Kept
    <2>1. CASE Reveal
      BY <2>1, <1>m, <1>i, <1>d DEF Reveal, Key, KeyStarts, Press,
         SecretsAreOfTheDetail, ModelType, Screens, AuthScreens, Kept
    <2>2. CASE CopyShown
      BY <2>2, <1>m, <1>i, <1>d DEF CopyShown, SecretsAreOfTheDetail, ModelType,
         Screens, AuthScreens, Kept
    <2>3. CASE AddCode
      BY <2>3, <1>m, <1>i, <1>d DEF AddCode, Key, Press, Open,
         SecretsAreOfTheDetail, ModelType, Screens, AuthScreens, Kept
    <2>4. CASE EditDetail
      BY <2>4, <1>m, <1>i, <1>d DEF EditDetail, KeyStarts, Press,
         SecretsAreOfTheDetail, ModelType, Screens, AuthScreens, Kept
    <2> QED
      BY <1>4, <2>1, <2>2, <2>3, <2>4 DEF DetailKeys
  <1>5. ASSUME SideKeys PROVE Kept
    <2>1. CASE AskRestore
      BY <2>1, <1>m, <1>i, <1>d DEF AskRestore, Key, Press, Open,
         SecretsAreOfTheDetail, ModelType, Screens, AuthScreens, Kept
    <2>2. CASE OpenOther(m.screen)
      BY <2>2, <1>m, <1>i, <1>d DEF OpenOther, Key, Press, Open,
         SecretsAreOfTheDetail, ModelType, Screens, AuthScreens, Kept
    <2>3. CASE LockNow
      BY <2>3, <1>m, <1>i, <1>d DEF LockNow, Press, Locked, SecretsAreOfTheDetail,
         ModelType, Screens, AuthScreens, Kept
    <2>4. CASE ManagePIN
      BY <2>4, <1>m, <1>i, <1>d DEF ManagePIN, Key, KeyStarts, Press, To,
         SecretsAreOfTheDetail, ModelType, Screens, AuthScreens, Kept
    <2> QED
      BY <1>5, <2>1, <2>2, <2>3, <2>4 DEF SideKeys
  <1>6. ASSUME AuthKeys PROVE Kept
    <2>1. CASE ToRegister
      BY <2>1, <1>m, <1>i, <1>d DEF ToRegister, AuthKey, Key, Press, To,
         SecretsAreOfTheDetail, ModelType, Screens, AuthScreens, Kept
    <2>2. CASE BackToLogin
      BY <2>2, <1>m, <1>i, <1>d DEF BackToLogin, AuthKey, Key, Press, To,
         SecretsAreOfTheDetail, ModelType, Screens, AuthScreens, Kept
    <2>3. CASE CancelPIN
      BY <2>3, <1>m, <1>i, <1>d DEF CancelPIN, AuthKey, Key, Press, To,
         SecretsAreOfTheDetail, ModelType, Screens, AuthScreens, Kept
    <2>4. CASE TogglePIN
      BY <2>4, <1>m, <1>i, <1>d DEF TogglePIN, AuthKey, Key, Press,
         SecretsAreOfTheDetail, ModelType, Screens, AuthScreens, Kept
    <2>5. CASE Submit(m.screen)
      BY <2>5, <1>m, <1>i, <1>d DEF Submit, KeyStarts, Press,
         SecretsAreOfTheDetail, ModelType, Screens, AuthScreens, Kept
    <2> QED
      BY <1>6, <2>1, <2>2, <2>3, <2>4, <2>5 DEF AuthKeys
  <1>7. Leave(m.screen) => Kept
    BY <1>m, <1>i, <1>d DEF Leave, Key, Press, To, SecretsAreOfTheDetail, ModelType,
       Screens, AuthScreens, Kept
  <1>8. Logout(m.screen) => Kept
    BY <1>m, <1>i, <1>d DEF Logout, Press, SecretsAreOfTheDetail, ModelType,
       Screens, AuthScreens, Kept
  <1>9. (\E e \in Entries : OpenDetail(e)) => Kept
    BY <1>m, <1>i, <1>d DEF OpenDetail, To, SecretsAreOfTheDetail, ModelType,
       Screens, AuthScreens, Kept
  <1>10. Commands => Kept
    BY <1>m, <1>i, <1>d DEF Commands, WorkCopy, WipeClipboard, WorkLogin,
       WorkUnlock, WorkPIN, WorkToken, WorkSetPIN, SecretsAreOfTheDetail, ModelType,
       Screens, AuthScreens, Kept
  <1>11. ASSUME Messages PROVE Kept
    <2>1. ASSUME NEW r \in Runners, LateResult(r) PROVE Kept
      BY <2>1, <1>m, <1>i, <1>d DEF LateResult, Ends, Tail, SecretsAreOfTheDetail,
         ModelType, Screens, AuthScreens, Kept
    <2>2. ASSUME NEW r \in Runners, PlainFails(r) PROVE Kept
      BY <2>2, <1>m, <1>i, <1>d DEF PlainFails, Ends, Tail, SecretsAreOfTheDetail,
         ModelType, Screens, AuthScreens, Kept
    <2>3. ASSUME NEW r \in Runners, FormClosed(r) PROVE Kept
      BY <2>3, <1>m, <1>i, <1>d DEF FormClosed, Ends, Tail, Close,
         SecretsAreOfTheDetail, ModelType, Screens, AuthScreens, Kept
    <2>4. ASSUME NEW r \in Runners, FormSubmitted(r) PROVE Kept
      BY <2>4, <1>m, <1>i, <1>d DEF FormSubmitted, Leads, Tail, Close,
         SecretsAreOfTheDetail, ModelType, Screens, AuthScreens, Kept
    <2>5. ASSUME NEW r \in Runners, GenConfirm(r) PROVE Kept
      BY <2>5, <1>m, <1>i, <1>d DEF GenConfirm, Ends, Tail, Close,
         SecretsAreOfTheDetail, ModelType, Screens, AuthScreens, Kept
    <2>6. ASSUME NEW r \in Runners, AuthResult(r) PROVE Kept
      BY <2>6, <1>m, <1>i, <1>d DEF AuthResult, SecretsAreOfTheDetail, ModelType,
         Screens, AuthScreens, Kept
    <2>7. ASSUME NEW r \in Runners, PINRefused(r) PROVE Kept
      BY <2>7, <1>m, <1>i, <1>d DEF PINRefused, Ends, Tail, SecretsAreOfTheDetail,
         ModelType, Screens, AuthScreens, Kept
    <2>8. ASSUME NEW r \in Runners, PINConfig(r) PROVE Kept
      BY <2>8, <1>m, <1>i, <1>d DEF PINConfig, Ends, Tail, To,
         SecretsAreOfTheDetail, ModelType, Screens, AuthScreens, Kept
    <2>9. ASSUME NEW r \in Runners, AuthFails(r) PROVE Kept
      BY <2>9, <1>m, <1>i, <1>d DEF AuthFails, SecretsAreOfTheDetail, ModelType,
         Screens, AuthScreens, Kept
    <2>10. ASSUME NEW r \in Runners, ListLoaded(r) PROVE Kept
      BY <2>10, <1>m, <1>i, <1>d DEF ListLoaded, Ends, Tail, SecretsAreOfTheDetail,
         ModelType, Screens, AuthScreens, Kept
    <2>11. ASSUME NEW r \in Runners, SecretLoaded(r) PROVE Kept
      BY <2>11, <1>m, <1>i, <1>d DEF SecretLoaded, Ends, Tail, On, Wanted,
         SecretsAreOfTheDetail, ModelType, Screens, AuthScreens, Kept
    <2>12. ASSUME NEW r \in Runners, CodeComputed(r) PROVE Kept
      BY <2>12, <1>m, <1>i, <1>d DEF CodeComputed, Ends, Tail, On, Wanted,
         SecretsAreOfTheDetail, ModelType, Screens, AuthScreens, Kept
    <2>13. ASSUME NEW r \in Runners, EditLoaded(r) PROVE Kept
      BY <2>13, <1>m, <1>i, <1>d DEF EditLoaded, Ends, Tail, Open,
         SecretsAreOfTheDetail, ModelType, Screens, AuthScreens, Kept
    <2>14. ASSUME NEW r \in Runners, EntryEdited(r) PROVE Kept
      BY <2>14, <1>m, <1>i, <1>d DEF EntryEdited, Leads, Tail, On,
         SecretsAreOfTheDetail, ModelType, Screens, AuthScreens, Kept
    <2>15. ASSUME NEW r \in Runners, ActionResult(r) PROVE Kept
      BY <2>15, <1>m, <1>i, <1>d DEF ActionResult, Leads, Tail,
         SecretsAreOfTheDetail, ModelType, Screens, AuthScreens, Kept
    <2>16. ASSUME NEW r \in Runners, SecretCopied(r) PROVE Kept
      BY <2>16, <1>m, <1>i, <1>d DEF SecretCopied, Leads, Tail,
         SecretsAreOfTheDetail, ModelType, Screens, AuthScreens, Kept
    <2>17. ASSUME NEW r \in Runners, LinkCreated(r) PROVE Kept
      BY <2>17, <1>m, <1>i, <1>d DEF LinkCreated, SecretsAreOfTheDetail, ModelType,
         Screens, AuthScreens, Kept
    <2> QED
      BY <1>11, <2>1, <2>2, <2>3, <2>4, <2>5, <2>6, <2>7, <2>8, <2>9, <2>10, <2>11, <2>12,
         <2>13, <2>14, <2>15, <2>16, <2>17
        DEF Messages
  <1>12. Tick => Kept
    BY <1>m, <1>i, <1>d DEF Tick, SecretsAreOfTheDetail, ModelType, Screens,
       AuthScreens, Kept
  <1>13. AutoLock => Kept
    BY <1>m, <1>i, <1>d DEF AutoLock, Locked, SecretsAreOfTheDetail, ModelType,
       Screens, AuthScreens, Kept
  <1>14. UNCHANGED vars => Kept
    BY <1>i DEF vars, Kept, SecretsAreOfTheDetail
  <1> QED
    BY <1>1, <1>2, <1>3, <1>4, <1>5, <1>6, <1>7, <1>8, <1>9, <1>10, <1>11, <1>12,
       <1>13, <1>14
      DEF Next, Keys, Kept

\* The secrets in the Model are those of the entry on the detail screen, however
\* late another entry's answer (openDetail, SecretLoadMsg, TOTPUpdateMsg).
THEOREM SecretsFollowTheDetail == Spec => []SecretsAreOfTheDetail
  <1>1. Init => SecretsAreOfTheDetail
    BY DEF Init, SecretsAreOfTheDetail
  <1>2. TypeOK /\ SecretsAreOfTheDetail /\ [Next]_vars => SecretsAreOfTheDetail'
    BY SecretStep
  <1> QED
    BY <1>1, <1>2, Types, PTL DEF Spec

\* A wipe on its way for what is on the clipboard: a command that waits for its
\* time, or one that has copied and will start the wait.
Wiper(c) == c.secret = clip /\ (c.do = "timer" \/ (c.do = "copyField" /\ c.outcome = "ok"))

\* Another command that starts, goes on or ends takes no wipe away.
LEMMA OthersWipe ==
  ASSUME CopyIsWiped, runs \in [Runners -> CommandType],
         NEW r \in Runners, NEW c, runs' = [runs EXCEPT ![r] = c],
         ~Wiper(runs[r]), clip' \in {clip, NoEntry, Missed}
  PROVE  CopyIsWiped'
  BY TerminalConstants DEF TerminalConstants, CopyIsWiped, Wiper, Ok

\* Every secret on the clipboard keeps its wipe until one has come for it.
LEMMA WipeStep ==
  TypeOK /\ CopyIsWiped /\ [Next]_vars => CopyIsWiped'
  <1> SUFFICES ASSUME TypeOK, CopyIsWiped, [Next]_vars PROVE CopyIsWiped'
    OBVIOUS
  <1> DEFINE Kept == CopyIsWiped'
  <1>t. runs \in [Runners -> CommandType]
    BY DEF TypeOK
  <1>u. UNCHANGED <<runs, clip>> => Kept
    BY DEF CopyIsWiped, Ok
  <1>o. ASSUME NEW r \in Runners, NEW c, runs' = [runs EXCEPT ![r] = c],
               ~Wiper(runs[r]), clip' \in {clip, NoEntry, Missed}
        PROVE  Kept
    BY <1>t, <1>o, OthersWipe
  <1>s. ASSUME NEW c, Start(c), clip' = clip PROVE Kept
    <2> PICK r \in Runners : Idle(r) /\ runs' = [runs EXCEPT ![r] = c]
      BY <1>s DEF Start
    <2>1. ~Wiper(runs[r])
      BY DEF Idle, Wiper
    <2> QED
      BY <1>o, <1>s, <2>1
  <1> HIDE DEF Kept
  <1>1. FormKeys => Kept
    BY <1>u, <1>s DEF FormKeys, SubmitForm, CancelForm, Answer, UseGenerated,
       GeneratorOptions, DiscardGenerated, Key, KeyStarts, Press
  <1>2. MainKeys => Kept
    BY <1>u, <1>s DEF MainKeys, OpenMenu, GoSettings, GoTools, Refresh,
       OpenListForm, EditSelected, CopyField, Key, KeyStarts, Press
  <1>3. OverlayKeys => Kept
    BY <1>u, <1>s DEF OverlayKeys, CloseMenu, CloseQR, PickTarget, Key, KeyStarts,
       Press
  <1>4. ASSUME DetailKeys PROVE Kept
    <2>1. CASE Reveal
      BY <2>1, <1>u, <1>s DEF Reveal, Key, KeyStarts, Press
    <2>2. CASE CopyShown
      <3>1. PICK r \in Runners : Idle(r) /\
                 runs' = [runs EXCEPT ![r] = Copy("timer", 0, m.detail)]
        BY <2>2 DEF CopyShown, Start
      <3>2. runs'[r].do = "timer" /\ runs'[r].secret = m.detail
        BY <1>t, <3>1 DEF Copy, Free
      <3>3. CASE clip' = m.detail
        BY <3>2, <3>3 DEF CopyIsWiped, Kept
      <3>4. CASE clip' = clip
        <4>1. ~Wiper(runs[r])
          BY <3>1 DEF Idle, Wiper
        <4> QED
          BY <1>o, <3>1, <3>4, <4>1
      <3> QED
        BY <2>2, <3>3, <3>4 DEF CopyShown
    <2>3. CASE AddCode
      BY <2>3, <1>u DEF AddCode, Key, Press
    <2>4. CASE EditDetail
      BY <2>4, <1>s DEF EditDetail, KeyStarts, Press
    <2> QED
      BY <1>4, <2>1, <2>2, <2>3, <2>4 DEF DetailKeys
  <1>5. SideKeys => Kept
    BY <1>u, <1>s DEF SideKeys, AskRestore, OpenOther, LockNow, ManagePIN, Key,
       KeyStarts, Press
  <1>6. AuthKeys => Kept
    BY <1>u, <1>s DEF AuthKeys, ToRegister, BackToLogin, CancelPIN, TogglePIN,
       Submit, AuthKey, Key, KeyStarts, Press
  <1>7. Leave(m.screen) => Kept
    BY <1>u, <1>s DEF Leave, Key, Press
  <1>8. Logout(m.screen) => Kept
    BY <1>u, <1>s DEF Logout, Press
  <1>9. (\E e \in Entries : OpenDetail(e)) => Kept
    BY <1>u, <1>s DEF OpenDetail
  <1>10. ASSUME Commands PROVE Kept
    <2>1. ASSUME NEW r \in Runners, WorkCopy(r) PROVE Kept
      <3>1. runs'[r].do = "copyField" /\ runs'[r].outcome = "ok" /\ runs'[r].secret = clip'
        BY <1>t, <2>1 DEF WorkCopy, Done, CommandType
      <3> QED
        BY <3>1 DEF CopyIsWiped, Ok, Kept
    <2>2. ASSUME NEW r \in Runners, WipeClipboard(r) PROVE Kept
      <3>1. CASE clip = runs[r].secret
        BY <2>2, <3>1, TerminalConstants
          DEF TerminalConstants, WipeClipboard, CopyIsWiped, Kept
      <3>2. CASE clip # runs[r].secret
        <4>1. ~Wiper(runs[r])
          BY <3>2 DEF Wiper
        <4> QED
          BY <1>o, <2>2, <3>2, <4>1 DEF WipeClipboard, Drop
      <3> QED
        BY <3>1, <3>2
    <2>3. ASSUME NEW r \in Runners, WorkLogin(r) PROVE Kept
      <3>1. ~Wiper(runs[r]) /\ clip' = clip
        BY <2>3 DEF WorkLogin, Wiper
      <3>2. PICK v \in Vaults : runs' = [runs EXCEPT ![r].outcome = "ok", ![r].v = v]
        BY <2>3 DEF WorkLogin
      <3>3. runs' = [runs EXCEPT ![r] = [runs[r] EXCEPT !.outcome = "ok", !.v = v]]
        BY <1>t, <3>2
      <3> QED
        BY <1>o, <3>1, <3>3
    <2>4. ASSUME NEW r \in Runners, WorkUnlock(r) PROVE Kept
      <3>1. ~Wiper(runs[r])
        BY <2>4 DEF WorkUnlock, Wiper
      <3> QED
        BY <1>o, <2>4, <3>1 DEF WorkUnlock, Done
    <2>5. ASSUME NEW r \in Runners, WorkPIN(r) PROVE Kept
      <3>1. ~Wiper(runs[r])
        BY <2>5 DEF WorkPIN, Wiper
      <3> QED
        BY <1>o, <2>5, <3>1 DEF WorkPIN, Done
    <2>6. ASSUME NEW r \in Runners, WorkToken(r) PROVE Kept
      <3>1. ~Wiper(runs[r])
        BY <2>6 DEF WorkToken, Wiper
      <3> QED
        BY <1>o, <2>6, <3>1 DEF WorkToken, Done
    <2>7. ASSUME NEW r \in Runners, WorkSetPIN(r) PROVE Kept
      <3>1. ~Wiper(runs[r])
        BY <2>7 DEF WorkSetPIN, Wiper
      <3> QED
        BY <1>o, <2>7, <3>1 DEF WorkSetPIN, Done
    <2> QED
      BY <1>10, <2>1, <2>2, <2>3, <2>4, <2>5, <2>6, <2>7 DEF Commands
  <1>11. ASSUME Messages PROVE Kept
    <2>1. ASSUME NEW r \in Runners, LateResult(r) PROVE Kept
      <3>1. ~Wiper(runs[r])
        BY <2>1 DEF LateResult, Dropped, LateVaultResult, Wiper
      <3> QED
        BY <1>o, <2>1, <3>1 DEF LateResult, Ends, Drop, Tail
    <2>2. ASSUME NEW r \in Runners, PlainFails(r) PROVE Kept
      <3>1. ~Wiper(runs[r])
        BY <2>2 DEF PlainFails, Pending, Plain, Wiper
      <3> QED
        BY <1>o, <2>2, <3>1 DEF PlainFails, Ends, Drop, Tail
    <2>3. ASSUME NEW r \in Runners, FormClosed(r) PROVE Kept
      <3>1. ~Wiper(runs[r])
        BY <2>3 DEF FormClosed, Message, Wiper
      <3> QED
        BY <1>o, <2>3, <3>1 DEF FormClosed, Ends, Drop, Tail
    <2>4. ASSUME NEW r \in Runners, FormSubmitted(r) PROVE Kept
      <3>1. ~Wiper(runs[r])
        BY <2>4 DEF FormSubmitted, Message, Wiper
      <3> QED
        BY <1>o, <2>4, <3>1 DEF FormSubmitted, Leads, Tail
    <2>5. ASSUME NEW r \in Runners, GenConfirm(r) PROVE Kept
      <3>1. ~Wiper(runs[r])
        BY <2>5 DEF GenConfirm, Message, Wiper
      <3> QED
        BY <1>o, <2>5, <3>1 DEF GenConfirm, Ends, Drop, Tail
    <2>6. ASSUME NEW r \in Runners, AuthResult(r) PROVE Kept
      <3>1. ~Wiper(runs[r])
        BY <2>6 DEF AuthResult, Message, Wiper
      <3> QED
        BY <1>o, <2>6, <3>1 DEF AuthResult
    <2>7. ASSUME NEW r \in Runners, PINRefused(r) PROVE Kept
      <3>1. ~Wiper(runs[r])
        BY <2>7 DEF PINRefused, Message, Wiper
      <3> QED
        BY <1>o, <2>7, <3>1 DEF PINRefused, Ends, Drop, Tail
    <2>8. ASSUME NEW r \in Runners, PINConfig(r) PROVE Kept
      <3>1. ~Wiper(runs[r])
        BY <2>8 DEF PINConfig, Message, Wiper
      <3> QED
        BY <1>o, <2>8, <3>1 DEF PINConfig, Ends, Drop, Tail
    <2>9. ASSUME NEW r \in Runners, AuthFails(r) PROVE Kept
      <3>1. ~Wiper(runs[r])
        BY <2>9 DEF AuthFails, Wiper
      <3> QED
        BY <1>o, <2>9, <3>1 DEF AuthFails, Drop
    <2>10. ASSUME NEW r \in Runners, ListLoaded(r) PROVE Kept
      <3>1. ~Wiper(runs[r])
        BY <2>10 DEF ListLoaded, Message, Wiper
      <3> QED
        BY <1>o, <2>10, <3>1 DEF ListLoaded, Ends, Drop, Tail
    <2>11. ASSUME NEW r \in Runners, SecretLoaded(r) PROVE Kept
      <3>1. ~Wiper(runs[r])
        BY <2>11 DEF SecretLoaded, Message, Wiper
      <3> QED
        BY <1>o, <2>11, <3>1 DEF SecretLoaded, Ends, Drop, Tail
    <2>12. ASSUME NEW r \in Runners, CodeComputed(r) PROVE Kept
      <3>1. ~Wiper(runs[r])
        BY <2>12 DEF CodeComputed, Message, Wiper
      <3> QED
        BY <1>o, <2>12, <3>1 DEF CodeComputed, Ends, Drop, Tail
    <2>13. ASSUME NEW r \in Runners, EditLoaded(r) PROVE Kept
      <3>1. ~Wiper(runs[r])
        BY <2>13 DEF EditLoaded, Message, Wiper
      <3> QED
        BY <1>o, <2>13, <3>1 DEF EditLoaded, Ends, Drop, Tail
    <2>14. ASSUME NEW r \in Runners, EntryEdited(r) PROVE Kept
      <3>1. ~Wiper(runs[r])
        BY <2>14 DEF EntryEdited, Message, Wiper
      <3> QED
        BY <1>o, <2>14, <3>1 DEF EntryEdited, Leads, Tail
    <2>15. ASSUME NEW r \in Runners, ActionResult(r) PROVE Kept
      <3>1. ~Wiper(runs[r])
        BY <2>15 DEF ActionResult, Message, Wiper
      <3> QED
        BY <1>o, <2>15, <3>1 DEF ActionResult, Leads, Tail
    <2>16. ASSUME NEW r \in Runners, SecretCopied(r) PROVE Kept
      <3>1. /\ clip' = clip
            /\ runs' = [runs EXCEPT ![r] = Copy("timer", 0, runs[r].secret)]
        BY <2>16 DEF SecretCopied, Leads, Tail
      <3>2. runs'[r].do = "timer" /\ runs'[r].secret = runs[r].secret
        BY <1>t, <3>1 DEF Copy, Free
      <3>3. CASE clip = runs[r].secret
        BY <3>1, <3>2, <3>3 DEF CopyIsWiped, Kept
      <3>4. CASE clip # runs[r].secret
        <4>1. ~Wiper(runs[r])
          BY <3>4 DEF Wiper
        <4> QED
          BY <1>o, <3>1, <4>1
      <3> QED
        BY <3>3, <3>4
    <2>17. ASSUME NEW r \in Runners, LinkCreated(r) PROVE Kept
      <3>1. ~Wiper(runs[r])
        BY <2>17 DEF LinkCreated, Message, Wiper
      <3> QED
        BY <1>o, <2>17, <3>1 DEF LinkCreated, Drop
    <2> QED
      BY <1>11, <2>1, <2>2, <2>3, <2>4, <2>5, <2>6, <2>7, <2>8, <2>9, <2>10, <2>11,
         <2>12, <2>13, <2>14, <2>15, <2>16, <2>17
        DEF Messages
  <1>12. Tick => Kept
    BY <1>u, <1>s DEF Tick
  <1>13. AutoLock => Kept
    BY <1>u, <1>s DEF AutoLock
  <1>14. UNCHANGED vars => Kept
    BY <1>u DEF vars
  <1> QED
    BY <1>1, <1>2, <1>3, <1>4, <1>5, <1>6, <1>7, <1>8, <1>9, <1>10, <1>11, <1>12,
       <1>13, <1>14
      DEF Next, Keys, Kept

\* Every secret on the clipboard has its wipe on the way until one has come for it
\* (copyWithClear, CopiedSecretMsg).
THEOREM CopiesAreWiped == Spec => []CopyIsWiped
  <1>1. Init => CopyIsWiped
    BY TerminalConstants DEF TerminalConstants, Init, CopyIsWiped
  <1>2. TypeOK /\ CopyIsWiped /\ [Next]_vars => CopyIsWiped'
    BY WipeStep
  <1> QED
    BY <1>1, <1>2, Types, PTL DEF Spec

\* A command that has opened the keys and has not reported yet.
Opener(c) == c.do = "pinToken" \/ (c.do \in {"login", "unlock"} /\ c.outcome = "ok")

\* With one session: keys that are in memory on an auth screen are an opener's.
WatchInv ==
  vaults[1].keys =>
    m.screen \notin AuthScreens \/ offline \/ \E r \in Runners : Opener(runs[r])

\* Another command that starts, goes on or ends takes no opener away.
LEMMA OthersOpen ==
  ASSUME WatchInv, runs \in [Runners -> CommandType],
         NEW r \in Runners, NEW c, runs' = [runs EXCEPT ![r] = c], ~Opener(runs[r]),
         vaults'[1].keys => vaults[1].keys, offline => offline',
         m'.screen \in AuthScreens => m.screen \in AuthScreens
  PROVE  WatchInv'
  BY DEF WatchInv, Opener

\* Every step keeps WatchInv.
LEMMA WatchStep ==
  ASSUME Vaults = {1}
  PROVE  TypeOK /\ WatchInv /\ [Next]_vars => WatchInv'
  <1> SUFFICES ASSUME TypeOK, WatchInv, [Next]_vars PROVE WatchInv'
    OBVIOUS
  <1> DEFINE Kept == WatchInv'
             Calm == /\ vaults'[1].keys => vaults[1].keys
                     /\ offline => offline'
                     /\ m'.screen \in AuthScreens => m.screen \in AuthScreens
  <1>t. runs \in [Runners -> CommandType] /\ vaults \in [Vaults -> VaultType]
    BY DEF TypeOK
  <1>m. m \in ModelType
    BY DEF TypeOK
  <1>d. Driven(m) \in Screens => m.screen = Driven(m)
    BY DrivenScreen, <1>m
  <1>u. runs' = runs /\ Calm => Kept
    BY DEF WatchInv
  <1>o. ASSUME NEW r \in Runners, NEW c, runs' = [runs EXCEPT ![r] = c],
               ~Opener(runs[r]), Calm
        PROVE  Kept
    BY <1>t, <1>o, OthersOpen
  <1>s. ASSUME NEW c, Start(c), Calm PROVE Kept
    <2> PICK r \in Runners : Idle(r) /\ runs' = [runs EXCEPT ![r] = c]
      BY <1>s DEF Start
    <2>1. ~Opener(runs[r])
      BY DEF Idle, Opener
    <2> QED
      BY <1>o, <1>s, <2>1
  <1>k. ~vaults'[1].keys => Kept
    BY DEF WatchInv
  <1>w. m'.screen \notin AuthScreens => Kept
    BY DEF WatchInv
  <1> HIDE DEF Kept
  <1>1. FormKeys => Kept
    <2>1. FormKeys => UNCHANGED <<vaults, offline>>
      BY DEF FormKeys, SubmitForm, CancelForm, Answer, UseGenerated,
         GeneratorOptions, DiscardGenerated, Key, KeyStarts
    <2>2. FormKeys => (m'.screen \in AuthScreens => m.screen \in AuthScreens)
      BY <1>m, <1>d DEF FormKeys, SubmitForm, CancelForm, Answer, UseGenerated,
         GeneratorOptions, DiscardGenerated, Key, KeyStarts, Press, Open, ModelType
    <2>3. FormKeys => runs' = runs \/ \E x : Start(x)
      BY DEF FormKeys, SubmitForm, CancelForm, Answer, UseGenerated,
         GeneratorOptions, DiscardGenerated, Key, KeyStarts
    <2> QED
      BY <1>u, <1>s, <2>1, <2>2, <2>3
  <1>2. MainKeys => Kept
    BY <1>m, <1>d, <1>u, <1>s DEF MainKeys, OpenMenu, GoSettings, GoTools, Refresh,
       OpenListForm, EditSelected, CopyField, Key, KeyStarts, Press, Open, Menu, To,
       Calm, ModelType, Screens, AuthScreens
  <1>3. OverlayKeys => Kept
    BY <1>m, <1>d, <1>u, <1>s DEF OverlayKeys, CloseMenu, CloseQR, PickTarget, Key,
       KeyStarts, Press, Menu, Calm, ModelType, Screens, AuthScreens
  <1>4. DetailKeys => Kept
    <2>1. DetailKeys => UNCHANGED <<vaults, offline>>
      BY DEF DetailKeys, Reveal, CopyShown, AddCode, EditDetail, Key, KeyStarts
    <2>2. DetailKeys => (m'.screen \in AuthScreens => m.screen \in AuthScreens)
      BY <1>m, <1>d DEF DetailKeys, Reveal, CopyShown, AddCode, EditDetail, Key,
         KeyStarts, Press, Open, ModelType, Screens, AuthScreens
    <2>3. DetailKeys => runs' = runs \/ \E x : Start(x)
      BY DEF DetailKeys, Reveal, CopyShown, AddCode, EditDetail, Key, KeyStarts
    <2> QED
      BY <1>u, <1>s, <2>1, <2>2, <2>3
  <1>5. ASSUME SideKeys PROVE Kept
    <2>1. CASE AskRestore \/ OpenOther(m.screen)
      BY <2>1, <1>m, <1>u DEF AskRestore, OpenOther, Key, Press, Open, ModelType
    <2>2. CASE LockNow
      <3>1. vaults'[1].keys = FALSE
        BY <1>t, <1>m, <2>2, Vaults = {1} DEF LockNow, DropKeys, VaultType, ModelType
      <3> QED
        BY <1>k, <3>1
    <2>3. CASE ManagePIN
      BY <2>3, <1>m, <1>u, <1>s, <1>d
        DEF ManagePIN, Key, KeyStarts, Press, To, ModelType, Screens, AuthScreens
    <2> QED
      BY <1>5, <2>1, <2>2, <2>3 DEF SideKeys
  <1>6. AuthKeys => Kept
    <2>1. AuthKeys => UNCHANGED <<vaults, offline>>
      BY DEF AuthKeys, ToRegister, BackToLogin, CancelPIN, TogglePIN, Submit,
         AuthKey, Key, KeyStarts
    <2>2. AuthKeys => (m'.screen \in AuthScreens => m.screen \in AuthScreens)
      BY <1>m, <1>d DEF AuthKeys, ToRegister, BackToLogin, CancelPIN, TogglePIN,
         Submit, AuthKey, Key, KeyStarts, Press, To, ModelType, Screens, AuthScreens
    <2>3. AuthKeys => runs' = runs \/ \E x : Start(x)
      BY DEF AuthKeys, ToRegister, BackToLogin, CancelPIN, TogglePIN, Submit,
         AuthKey, Key, KeyStarts
    <2> QED
      BY <1>u, <1>s, <2>1, <2>2, <2>3
  <1>7. Leave(m.screen) => Kept
    BY <1>m, <1>d, <1>u, <1>s DEF Leave, Key, Press, To, Calm, ModelType, Screens,
       AuthScreens
  <1>8. Logout(m.screen) => Kept
    <2>1. Logout(m.screen) => vaults'[1].keys = FALSE
      BY <1>t, <1>m, Vaults = {1} DEF Logout, SignedOut, VaultType, ModelType
    <2> QED
      BY <1>k, <2>1
  <1>9. (\E e \in Entries : OpenDetail(e)) => Kept
    BY <1>m, <1>d, <1>u, <1>s DEF OpenDetail, To, Calm, ModelType, Screens,
       AuthScreens
  <1>10. ASSUME Commands PROVE Kept
    <2>1. ASSUME NEW r \in Runners, WorkCopy(r) PROVE Kept
      <3>1. ~Opener(runs[r])
        BY <2>1 DEF WorkCopy, Opener
      <3> QED
        BY <1>o, <2>1, <3>1 DEF WorkCopy, Done, Calm
    <2>2. ASSUME NEW r \in Runners, WipeClipboard(r) PROVE Kept
      <3>1. ~Opener(runs[r])
        BY <2>2 DEF WipeClipboard, Opener
      <3> QED
        BY <1>o, <2>2, <3>1 DEF WipeClipboard, Drop, Calm
    <2>3. ASSUME NEW r \in Runners, WorkToken(r) PROVE Kept
      <3>1. Opener(runs'[r])
        BY <1>t, <2>3 DEF WorkToken, Done, Opener, CommandType
      <3> QED
        BY <3>1 DEF WatchInv, Kept
    <2>4. ASSUME NEW r \in Runners, WorkLogin(r) PROVE Kept
      <3>1. PICK v \in Vaults : runs' = [runs EXCEPT ![r].outcome = "ok", ![r].v = v]
        BY <2>4 DEF WorkLogin
      <3>2. runs'[r].do = "login" /\ runs'[r].outcome = "ok"
        BY <1>t, <2>4, <3>1 DEF WorkLogin, CommandType
      <3> QED
        BY <3>2 DEF WatchInv, Opener, Kept
    <2>5. ASSUME NEW r \in Runners, WorkUnlock(r) PROVE Kept
      <3>1. runs'[r].do = "unlock" /\ runs'[r].outcome = "ok"
        BY <1>t, <2>5 DEF WorkUnlock, Done, CommandType
      <3> QED
        BY <3>1 DEF WatchInv, Opener, Kept
    <2>6. ASSUME NEW r \in Runners, WorkPIN(r) PROVE Kept
      <3>1. CASE runs' = [runs EXCEPT ![r].do = "pinToken"]
        <4>1. runs'[r].do = "pinToken"
          BY <1>t, <3>1 DEF CommandType
        <4> QED
          BY <4>1 DEF WatchInv, Opener, Kept
      <3>2. ASSUME NEW left \in BOOLEAN, vaults' = [vaults EXCEPT ![runs[r].v].pin = left],
                   Done(r, "out")
            PROVE  Kept
        <4>1. vaults'[1].keys = vaults[1].keys
          BY <1>t, <3>2, Vaults = {1} DEF VaultType
        <4>2. ~Opener(runs[r])
          BY <2>6 DEF WorkPIN, Opener
        <4>3. UNCHANGED <<m, offline>>
          BY <2>6 DEF WorkPIN
        <4>4. Calm
          BY <4>1, <4>3
        <4> QED
          BY <1>o, <3>2, <4>2, <4>4 DEF Done
      <3> QED
        BY <2>6, <3>1, <3>2 DEF WorkPIN
    <2>7. ASSUME NEW r \in Runners, WorkSetPIN(r) PROVE Kept
      <3> DEFINE set == runs[r].do = "enablePin"
      <3>1. vaults' = [vaults EXCEPT ![runs[r].v].pin = set]
        BY <2>7 DEF WorkSetPIN
      <3> HIDE DEF set
      <3>2. vaults'[1].keys = vaults[1].keys
        BY <1>t, <3>1, Vaults = {1} DEF VaultType
      <3>3. ~Opener(runs[r]) /\ UNCHANGED <<m, offline>>
        BY <2>7 DEF WorkSetPIN, Opener
      <3>4. Calm
        BY <3>2, <3>3
      <3> QED
        BY <1>o, <2>7, <3>3, <3>4 DEF WorkSetPIN, Done
    <2> QED
      BY <1>10, <2>1, <2>2, <2>3, <2>4, <2>5, <2>6, <2>7 DEF Commands
  <1>11. ASSUME Messages PROVE Kept
    <2>1. ASSUME NEW r \in Runners, LateResult(r) PROVE Kept
      <3>1. ~Opener(runs[r])
        BY <2>1 DEF LateResult, Dropped, LateVaultResult, Opener
      <3>2. Calm
        BY <2>1, <1>m DEF LateResult, Ends, Drop, Tail, ModelType
      <3> QED
        BY <1>o, <2>1, <3>1, <3>2 DEF LateResult, Ends, Drop, Tail
    <2>2. ASSUME NEW r \in Runners, PlainFails(r) PROVE Kept
      <3>1. ~Opener(runs[r])
        BY <2>2 DEF PlainFails, Pending, Plain, Opener
      <3>2. Calm
        BY <2>2, <1>m DEF PlainFails, Ends, Drop, Tail, ModelType
      <3> QED
        BY <1>o, <2>2, <3>1, <3>2 DEF PlainFails, Ends, Drop, Tail
    <2>3. ASSUME NEW r \in Runners, FormClosed(r) PROVE Kept
      <3>1. ~Opener(runs[r])
        BY <2>3 DEF FormClosed, Message, Opener
      <3>2. Calm
        BY <2>3, <1>m DEF FormClosed, Ends, Drop, Tail, Close, ModelType
      <3> QED
        BY <1>o, <2>3, <3>1, <3>2 DEF FormClosed, Ends, Drop, Tail
    <2>4. ASSUME NEW r \in Runners, FormSubmitted(r) PROVE Kept
      <3>1. ~Opener(runs[r])
        BY <2>4 DEF FormSubmitted, Message, Opener
      <3>2. Calm
        BY <2>4, <1>m DEF FormSubmitted, Leads, Tail, Close, ModelType
      <3> QED
        BY <1>o, <2>4, <3>1, <3>2 DEF FormSubmitted, Leads, Tail
    <2>5. ASSUME NEW r \in Runners, GenConfirm(r) PROVE Kept
      <3>1. ~Opener(runs[r])
        BY <2>5 DEF GenConfirm, Message, Opener
      <3>2. Calm
        BY <2>5, <1>m DEF GenConfirm, Ends, Drop, Tail, Close, ModelType
      <3> QED
        BY <1>o, <2>5, <3>1, <3>2 DEF GenConfirm, Ends, Drop, Tail
    <2>6. ASSUME NEW r \in Runners, AuthResult(r) PROVE Kept
      BY <2>6, <1>m, <1>w DEF AuthResult, ModelType, AuthScreens
    <2>7. ASSUME NEW r \in Runners, PINRefused(r) PROVE Kept
      <3>1. ~Opener(runs[r])
        BY <2>7 DEF PINRefused, Message, Opener
      <3>2. Calm
        BY <2>7, <1>m DEF PINRefused, Ends, Drop, Tail, ModelType
      <3> QED
        BY <1>o, <2>7, <3>1, <3>2 DEF PINRefused, Ends, Drop, Tail
    <2>8. ASSUME NEW r \in Runners, PINConfig(r) PROVE Kept
      BY <2>8, <1>m, <1>w DEF PINConfig, Ends, Tail, To, ModelType, AuthScreens
    <2>9. ASSUME NEW r \in Runners, AuthFails(r) PROVE Kept
      <3>1. CASE runs[r].do = "pinToken"
        BY <2>9, <3>1 DEF AuthFails, WatchInv, Kept
      <3>2. CASE runs[r].do # "pinToken"
        <4>1. ~Opener(runs[r])
          BY <2>9, <3>2 DEF AuthFails, Pending, Opener
        <4>2. Calm
          BY <2>9, <1>m DEF AuthFails, ModelType
        <4> QED
          BY <1>o, <2>9, <4>1, <4>2 DEF AuthFails, Drop
      <3> QED
        BY <3>1, <3>2
    <2>10. ASSUME NEW r \in Runners, ListLoaded(r) PROVE Kept
      <3>1. ~Opener(runs[r])
        BY <2>10 DEF ListLoaded, Message, Opener
      <3>2. Calm
        BY <2>10, <1>m DEF ListLoaded, Ends, Drop, Tail, ModelType
      <3> QED
        BY <1>o, <2>10, <3>1, <3>2 DEF ListLoaded, Ends, Drop, Tail
    <2>11. ASSUME NEW r \in Runners, SecretLoaded(r) PROVE Kept
      <3>1. ~Opener(runs[r])
        BY <2>11 DEF SecretLoaded, Message, Opener
      <3>2. Calm
        BY <2>11, <1>m DEF SecretLoaded, Ends, Drop, Tail, ModelType
      <3> QED
        BY <1>o, <2>11, <3>1, <3>2 DEF SecretLoaded, Ends, Drop, Tail
    <2>12. ASSUME NEW r \in Runners, CodeComputed(r) PROVE Kept
      <3>1. ~Opener(runs[r])
        BY <2>12 DEF CodeComputed, Message, Opener
      <3>2. Calm
        BY <2>12, <1>m DEF CodeComputed, Ends, Drop, Tail, ModelType
      <3> QED
        BY <1>o, <2>12, <3>1, <3>2 DEF CodeComputed, Ends, Drop, Tail
    <2>13. ASSUME NEW r \in Runners, EditLoaded(r) PROVE Kept
      <3>1. ~Opener(runs[r])
        BY <2>13 DEF EditLoaded, Message, Opener
      <3>2. Calm
        BY <2>13, <1>m DEF EditLoaded, Ends, Drop, Tail, Open, ModelType
      <3> QED
        BY <1>o, <2>13, <3>1, <3>2 DEF EditLoaded, Ends, Drop, Tail
    <2>14. ASSUME NEW r \in Runners, EntryEdited(r) PROVE Kept
      <3>1. ~Opener(runs[r])
        BY <2>14 DEF EntryEdited, Message, Opener
      <3>2. Calm
        BY <2>14, <1>m DEF EntryEdited, Leads, Tail, ModelType
      <3> QED
        BY <1>o, <2>14, <3>1, <3>2 DEF EntryEdited, Leads, Tail
    <2>15. ASSUME NEW r \in Runners, ActionResult(r) PROVE Kept
      <3>1. ~Opener(runs[r])
        BY <2>15 DEF ActionResult, Message, Opener
      <3>2. Calm
        BY <2>15, <1>m DEF ActionResult, Leads, Tail, ModelType
      <3> QED
        BY <1>o, <2>15, <3>1, <3>2 DEF ActionResult, Leads, Tail
    <2>16. ASSUME NEW r \in Runners, SecretCopied(r) PROVE Kept
      <3>1. ~Opener(runs[r])
        BY <2>16 DEF SecretCopied, Message, Opener
      <3>2. Calm
        BY <2>16, <1>m DEF SecretCopied, Leads, Tail, ModelType
      <3> QED
        BY <1>o, <2>16, <3>1, <3>2 DEF SecretCopied, Leads, Tail
    <2>17. ASSUME NEW r \in Runners, LinkCreated(r) PROVE Kept
      <3>1. ~Opener(runs[r])
        BY <2>17 DEF LinkCreated, Message, Opener
      <3>2. Calm
        BY <2>17, <1>m DEF LinkCreated, Drop, ModelType
      <3> QED
        BY <1>o, <2>17, <3>1, <3>2 DEF LinkCreated, Drop
    <2> QED
      BY <1>11, <2>1, <2>2, <2>3, <2>4, <2>5, <2>6, <2>7, <2>8, <2>9, <2>10, <2>11,
         <2>12, <2>13, <2>14, <2>15, <2>16, <2>17
        DEF Messages
  <1>12. Tick => Kept
    BY <1>m, <1>d, <1>u, <1>s DEF Tick, Calm, ModelType, Screens, AuthScreens
  <1>13. AutoLock => Kept
    <2>1. AutoLock => vaults'[1].keys = FALSE
      BY <1>t, <1>m, Vaults = {1} DEF AutoLock, DropKeys, VaultType, ModelType
    <2> QED
      BY <1>k, <2>1
  <1>14. UNCHANGED vars => Kept
    BY <1>u DEF vars
  <1> QED
    BY <1>1, <1>2, <1>3, <1>4, <1>5, <1>6, <1>7, <1>8, <1>9, <1>10, <1>11, <1>12,
       <1>13, <1>14
      DEF Next, Keys, Kept

\* While the process has one session, keys in memory are under the auto-lock, or a PIN
\* unlock got no token for them (TickMsg, AuthResultMsg, pinUnlockCmd).
THEOREM KeysStayWatched ==
  ASSUME Vaults = {1}
  PROVE  Spec => []KeysAreWatched
  <1>1. Init => WatchInv
    BY Vaults = {1} DEF Init, WatchInv
  <1>2. TypeOK /\ WatchInv /\ [Next]_vars => WatchInv'
    BY Vaults = {1}, WatchStep
  <1>3. TypeOK /\ WatchInv => KeysAreWatched
    <2> SUFFICES ASSUME TypeOK, WatchInv PROVE KeysAreWatched
      OBVIOUS
    <2>1. m.vault = 1
      BY Vaults = {1} DEF TypeOK, ModelType
    <2>2. ASSUME NEW r \in Runners, Opener(runs[r])
          PROVE  runs[r].v = 1 /\ runs[r].do \in {"login", "unlock", "pinToken"}
      BY <2>2, Vaults = {1} DEF TypeOK, CommandType, Opener
    <2> QED
      BY <2>1, <2>2, Vaults = {1} DEF WatchInv, KeysAreWatched, Watched
  <1> QED
    BY <1>1, <1>2, <1>3, Types, PTL DEF Spec

=============================================================================
