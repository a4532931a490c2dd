-------------------------- MODULE CommandLine_proofs --------------------------
(***************************************************************************)
(* Theorems about the CLI.  First its processes (CommandLine), for any     *)
(* entries, any number of tries, keys, tokens, days and faults; those      *)
(* about what the file and the server hold are for processes that run one  *)
(* after another.  Then its commands (Commands), for any vault, any files  *)
(* of other programs, and any number of commands, changes and failures.    *)
(***************************************************************************)
EXTENDS CommandLine, Commands, TLAPS, FiniteSetTheorems

\* The configurations a process can make of its own.
LEMMA ConfigTypes ==
  ASSUME TypeOK, NEW p \in Procs
  PROVE  /\ NoPin \in Pins /\ NoConfig \in Configs /\ Off \in Processes
         /\ Restarted(proc[p].cfg.pin) \in Pins /\ Forgiven(proc[p].cfg.pin) \in Pins
         /\ Cleared(proc[p].cfg) \in Configs /\ Counted(proc[p].cfg) \in Configs
         /\ Upgraded(p) \in Configs
         /\ \A pin \in Pins : [proc[p].cfg EXCEPT !.pin = pin] \in Configs
<1>0. proc[p] \in Processes /\ proc[p].cfg \in Configs /\ proc[p].cfg.pin \in Pins
  BY DEF TypeOK, Processes, Configs
<1>d. day \in 0 .. MaxDay /\ 0 \in 0 .. MaxDay /\ 0 \in 0 .. MaxTokens /\ 0 \in Kems
  BY CommandLineConstants DEF TypeOK, Kems, Placeholder
<1>1. NoPin \in Pins
  BY <1>d DEF NoPin, Pins
<1>2. NoConfig \in Configs
  BY <1>1, <1>d DEF NoConfig, Configs, Placeholder
<1>3. Off \in Processes
  BY <1>2, <1>d DEF Off, Processes, Steps, Placeholder
<1>4. Restarted(proc[p].cfg.pin) \in Pins /\ Forgiven(proc[p].cfg.pin) \in Pins
  BY <1>0, <1>d DEF Restarted, Forgiven, Pins
<1>5. \A pin \in Pins : [proc[p].cfg EXCEPT !.pin = pin] \in Configs
  BY <1>0 DEF Configs
<1>6. Cleared(proc[p].cfg) \in Configs
  BY <1>0, <1>1, <1>d DEF Cleared, Configs
<1>7. Counted(proc[p].cfg) \in Configs
  <2>1. [proc[p].cfg.pin EXCEPT !.fails = @ + 1] \in Pins
    BY <1>0 DEF Pins
  <2> QED BY <2>1, <1>0 DEF Counted, Configs
<1>8. Upgraded(p) \in Configs
  BY <1>0 DEF Upgraded, Configs, Processes
<1> QED BY <1>1, <1>2, <1>3, <1>4, <1>5, <1>6, <1>7, <1>8

LEMMA FaultTypes ==
  ASSUME TypeOK, Fault \/ NoFault
  PROVE  faults' \in 0 .. MaxFaults
BY CommandLineConstants DEF TypeOK, Fault, NoFault

LEMMA IssueTypes ==
  ASSUME NEW s \in Servers, s.issued < MaxTokens
  PROVE  Issue(s) \in Servers /\ Issue(s).issued \in 1 .. MaxTokens
         /\ Issue(s).kem = s.kem /\ Issue(s).issued \in Issue(s).live
         /\ s.live \subseteq Issue(s).live
<1>1. s.issued + 1 \in 1 .. MaxTokens /\ s.issued + 1 \in 0 .. MaxTokens
  BY CommandLineConstants DEF Servers
<1> QED BY <1>1 DEF Servers, Issue

-----------------------------------------------------------------------------
(***************************************************************************)
(* Types.                                                                  *)
(***************************************************************************)

LEMMA SessionTypes ==
  ASSUME TypeOK, NEW p \in Procs, Sessions(p)
  PROVE  TypeOK'
<1>0. /\ proc[p] \in Processes /\ proc[p].cfg \in Configs /\ server \in Servers /\ disk \in Configs
      /\ proc \in [Procs -> Processes]
  BY DEF TypeOK, Processes
<1>c. /\ NoConfig \in Configs /\ Off \in Processes /\ Cleared(proc[p].cfg) \in Configs
  BY ConfigTypes
<1>n. 0 \in Nat
  OBVIOUS
\* The parts are enough.
<1>q. ASSUME server' \in Servers, wrap' = wrap, disk' \in Configs, proc' \in [Procs -> Processes],
             day' = day, faults' \in 0 .. MaxFaults, guesses' \in Nat, typed' = typed,
             cut' \in BOOLEAN
      PROVE  TypeOK'
  BY <1>q DEF TypeOK
<1>w. guesses \in Nat /\ cut \in BOOLEAN /\ faults \in 0 .. MaxFaults
  BY DEF TypeOK
<1>1. CASE Start(p)
  <2>1. [Off EXCEPT !.pc = "ready", !.cfg = disk] \in Processes
    BY <1>0, <1>c DEF Processes, Steps
  <2> QED BY <2>1, <1>1, <1>0, <1>q, <1>w DEF Start
<1>2. CASE Exit(p)
  BY <1>2, <1>0, <1>c, <1>q, <1>w, FaultTypes DEF Exit
<1>l. ASSUME NEW s \in Servers, s.issued \in 1 .. MaxTokens, s.kem \in Kems, LoggedIn(p, s)
      PROVE  TypeOK'
  <2>1. FreshConfig(s.issued, s.kem) \in Configs
    <3>1. s.issued \in 0 .. MaxTokens
      BY <1>l, CommandLineConstants
    <3>2. \A t \in 0 .. MaxTokens, k \in Kems : [NoConfig EXCEPT !.token = t, !.kem = k] \in Configs
      BY <1>c DEF Configs
    <3> QED BY <3>1, <3>2, <1>l DEF FreshConfig
  <2>2. [Off EXCEPT !.pc = "answered", !.cfg = FreshConfig(s.issued, s.kem)] \in Processes
    BY <2>1, <1>c DEF Processes, Steps
  <2>3. proc' \in [Procs -> Processes]
    BY <2>2, <1>l, <1>0 DEF LoggedIn
  <2> QED BY <2>3, <1>l, <1>0, <1>q, <1>w, FaultTypes DEF LoggedIn
<1>3. CASE Login(p)
  <2>1. server.kem \in Kems
    BY <1>3, <1>0 DEF Login, Servers
  <2> QED BY <2>1, <1>3, <1>0, <1>l, IssueTypes DEF Login
<1>4. CASE Register(p)
  <2> DEFINE s == [server EXCEPT !.kem = server.made + 1, !.made = @ + 1]
  <2>1. server.made + 1 \in 0 .. MaxKeys /\ server.made + 1 \in Kems
    BY <1>4, <1>0, CommandLineConstants DEF Register, Servers, Kems, Placeholder
  <2>2. s \in Servers /\ s.issued < MaxTokens /\ s.kem \in Kems
    BY <2>1, <1>4, <1>0 DEF Servers, Register
  <2>3. LoggedIn(p, Issue(s))
    BY <1>4 DEF Register
  <2> HIDE DEF s
  <2> QED BY <2>2, <2>3, <1>l, IssueTypes
<1>5. CASE SaveLogin(p)
  <2>1. [proc[p] EXCEPT !.pc = "ready"] \in Processes
    BY <1>0 DEF Processes, Steps
  <2> QED BY <2>1, <1>5, <1>0, <1>q, <1>w, <1>n DEF SaveLogin, Saved
<1>6. CASE Refresh(p)
  <2> DEFINE t == proc[p].cfg.token
             s0 == [server EXCEPT !.live = @ \ {t},
                                  !.grace = IF t \in server.live THEN @ \cup {t} ELSE @]
             s == Issue(s0)
  <2>1. s0 \in Servers /\ s0.issued < MaxTokens
    BY <1>6, <1>0 DEF Servers, Refresh
  <2>2. s \in Servers /\ s.issued \in 0 .. MaxTokens
    <3> HIDE DEF s0
    <3>1. Issue(s0) \in Servers
      BY <2>1, IssueTypes
    <3> QED BY <3>1 DEF Servers
  <2>3. server' \in {s, server} /\ cut' \in {cut, TRUE} /\ (Fault \/ NoFault)
        /\ \/ proc' = proc
           \/ proc' = [proc EXCEPT ![p].pc = "rotated", ![p].authed = TRUE, ![p].cfg.token = s.issued]
        /\ UNCHANGED <<wrap, disk, day, guesses, typed>>
    BY <1>6 DEF Refresh
  <2> HIDE DEF s
  <2>4. [proc[p].cfg EXCEPT !.token = s.issued] \in Configs
    BY <2>2, <1>0 DEF Configs
  <2>5. proc' \in [Procs -> Processes]
    BY <2>3, <2>4, <1>0 DEF Processes, Steps
  <2> QED BY <2>2, <2>3, <2>5, <1>0, <1>q, <1>w, FaultTypes
<1>7. CASE SaveSession(p)
  <2>1. [proc[p] EXCEPT !.pc = "ready"] \in Processes
    BY <1>0 DEF Processes, Steps
  <2> QED BY <2>1, <1>7, <1>0, <1>q, <1>w DEF SaveSession, Saved
<1>8. CASE RevokeSession(p)
  <2>1. [proc[p] EXCEPT !.pc = "revoked"] \in Processes
    BY <1>0 DEF Processes, Steps
  <2>2. server' \in Servers
    BY <1>8, <1>0 DEF RevokeSession, Servers
  <2> QED BY <2>1, <2>2, <1>8, <1>0, <1>q, <1>w, FaultTypes DEF RevokeSession
<1>9. CASE ClearSession(p)
  <2>1. [Off EXCEPT !.pc = "ready", !.cfg = Cleared(proc[p].cfg)] \in Processes
    BY <1>c DEF Processes, Steps
  <2> QED BY <2>1, <1>9, <1>0, <1>c, <1>q, <1>w, <1>n DEF ClearSession, Saved
<1>10. CASE ChangePreferences(p)
  <2>1. [proc[p].cfg EXCEPT !.prefs = ~ @] \in Configs
    BY <1>0, Zenon DEF Configs
  <2>2. proc' \in [Procs -> Processes]
    BY <2>1, <1>10, <1>0 DEF ChangePreferences, Processes
  <2> QED BY <2>1, <2>2, <1>10, <1>0, <1>q, <1>w DEF ChangePreferences, Saved
<1> QED
  BY <1>1, <1>2, <1>3, <1>4, <1>5, <1>6, <1>7, <1>8, <1>9, <1>10 DEF Sessions

LEMMA UnlockingTypes ==
  ASSUME TypeOK, NEW p \in Procs, Unlocking(p)
  PROVE  TypeOK'
<1>0. /\ proc[p] \in Processes /\ proc[p].cfg \in Configs /\ proc[p].cfg.pin \in Pins
      /\ proc[p].cfg.kem \in Kems /\ disk \in Configs /\ proc \in [Procs -> Processes]
      /\ guesses \in Nat /\ 0 \in Nat /\ typed \in 0 .. MaxDay /\ day \in 0 .. MaxDay
  BY CommandLineConstants DEF TypeOK, Processes, Configs
<1>c. /\ Restarted(proc[p].cfg.pin) \in Pins /\ Forgiven(proc[p].cfg.pin) \in Pins
      /\ Counted(proc[p].cfg) \in Configs /\ NoPin \in Pins
      /\ \A pin \in Pins : [proc[p].cfg EXCEPT !.pin = pin] \in Configs
  BY ConfigTypes
\* The parts are enough.
<1>q. ASSUME server' = server, wrap' = wrap, disk' \in Configs, proc' \in [Procs -> Processes],
             day' = day, faults' = faults, guesses' \in Nat, typed' \in 0 .. MaxDay, cut' = cut
      PROVE  TypeOK'
  BY <1>q DEF TypeOK
<1>p. \A pin \in Pins : [proc[p] EXCEPT !.cfg.pin = pin] \in Processes
  BY <1>0, <1>c DEF Processes
<1>1. CASE Unlock(p)
  <2> DEFINE cfg == [proc[p].cfg EXCEPT !.pin = Restarted(@)]
  <2>1. cfg \in Configs /\ cfg.kem \in Kems
    BY <1>0, <1>c DEF Configs
  <2>2. /\ proc' = [proc EXCEPT ![p] = Opened([proc[p] EXCEPT !.cfg = cfg])]
        /\ disk' \in {cfg, disk} /\ guesses' \in {0, guesses} /\ typed' = day
        /\ UNCHANGED <<server, wrap, day, faults, cut>>
    BY <1>1 DEF Unlock, Saved
  <2> HIDE DEF cfg
  <2>3. Opened([proc[p] EXCEPT !.cfg = cfg]) \in Processes
    BY <2>1, <1>0 DEF Opened, Processes
  <2> QED BY <2>1, <2>2, <2>3, <1>0, <1>q
<1>2. CASE Lock(p)
  BY <1>2, <1>0, <1>q DEF Lock, Processes
<1>3. CASE EnablePin(p)
  <2>1. PICK d \in AskedDays :
          /\ proc' = [proc EXCEPT ![p].cfg.pin = [on |-> TRUE, fails |-> 0, days |-> ClampDays(d), last |-> day]]
          /\ disk' = [proc[p].cfg EXCEPT !.pin = [on |-> TRUE, fails |-> 0, days |-> ClampDays(d), last |-> day]]
    BY <1>3 DEF EnablePin, Saved
  <2> DEFINE pin == [on |-> TRUE, fails |-> 0, days |-> ClampDays(d), last |-> day]
  <2>2. ClampDays(d) \in 0 .. 60
    BY CommandLineConstants DEF ClampDays
  <2>3. pin \in Pins
    BY <2>2, <1>0 DEF Pins
  <2>4. proc' = [proc EXCEPT ![p].cfg.pin = pin] /\ disk' = [proc[p].cfg EXCEPT !.pin = pin]
    BY <2>1
  <2> HIDE DEF pin
  <2>5. disk' \in Configs /\ proc' \in [Procs -> Processes]
    BY <2>3, <2>4, <1>0, <1>c, <1>p
  <2> QED BY <2>5, <1>3, <1>0, <1>q DEF EnablePin
<1>w. ASSUME WithoutPin(p)
      PROVE  disk' \in Configs /\ proc' \in [Procs -> Processes]
  <2>1. [proc[p] EXCEPT !.pc = "ready", !.cfg.pin = NoPin] \in Processes
    BY <1>0, <1>c DEF Processes, Steps
  <2> QED BY <2>1, <1>w, <1>0, <1>c DEF WithoutPin, Saved
<1>4. CASE DisablePin(p)
  BY <1>4, <1>w, <1>0, <1>q DEF DisablePin
<1>5. CASE CountGuess(p)
  <2>1. [proc[p] EXCEPT !.pc = "guessing", !.cfg = Counted(proc[p].cfg)] \in Processes
    BY <1>0, <1>c DEF Processes, Steps
  <2> QED BY <2>1, <1>5, <1>0, <1>c, <1>q DEF CountGuess, Saved
<1>6. CASE GuessRight(p)
  <2> DEFINE cfg == [proc[p].cfg EXCEPT !.pin = Forgiven(@)]
  <2>1. cfg \in Configs /\ cfg.kem \in Kems
    BY <1>0, <1>c DEF Configs
  <2>2. /\ proc' = [proc EXCEPT ![p] = Opened([proc[p] EXCEPT !.pc = "ready", !.cfg = cfg])]
        /\ disk' = cfg /\ guesses' = 0
        /\ UNCHANGED <<server, wrap, day, faults, typed, cut>>
    BY <1>6 DEF GuessRight, Saved
  <2> HIDE DEF cfg
  <2>3. Opened([proc[p] EXCEPT !.pc = "ready", !.cfg = cfg]) \in Processes
    BY <2>1, <1>0 DEF Opened, Processes, Steps
  <2> QED BY <2>1, <2>2, <2>3, <1>0, <1>q
<1>7. CASE GuessWrong(p)
  <2>1. \A s \in Steps : [proc[p] EXCEPT !.pc = s] \in Processes
    BY <1>0 DEF Processes
  <2>2. proc' \in [Procs -> Processes]
    BY <2>1, <1>7, <1>0 DEF GuessWrong, Steps
  <2> QED BY <2>2, <1>7, <1>0, <1>q DEF GuessWrong
<1>8. CASE AfterWrong(p)
  <2>1. [proc[p] EXCEPT !.pc = "ready"] \in Processes
    BY <1>0 DEF Processes, Steps
  <2>2. disk' \in Configs /\ proc' \in [Procs -> Processes] /\ guesses' \in Nat
    BY <2>1, <1>8, <1>w, <1>0 DEF AfterWrong, Saved
  <2> QED BY <2>2, <1>8, <1>0, <1>q DEF AfterWrong
<1> QED
  BY <1>1, <1>2, <1>3, <1>4, <1>5, <1>6, <1>7, <1>8 DEF Unlocking

LEMMA UpgradingTypes ==
  ASSUME TypeOK, NEW p \in Procs, Upgrading(p)
  PROVE  TypeOK'
<1>0. /\ proc[p] \in Processes /\ proc[p].cfg \in Configs /\ proc[p].cfg.kem \in Kems
      /\ proc[p].new \in Kems /\ disk \in Configs /\ proc \in [Procs -> Processes]
      /\ server \in Servers /\ faults \in 0 .. MaxFaults /\ wrap \in [Entries -> Kems \cup {Unmade}]
  BY DEF TypeOK, Processes, Configs
<1>c. Upgraded(p) \in Configs
  BY ConfigTypes
<1>k. Placeholder \in Kems
  BY CommandLineConstants DEF Kems, Placeholder
\* The parts are enough.
<1>q. ASSUME server' \in Servers, wrap' \in [Entries -> Kems \cup {Unmade}], disk' \in Configs,
             proc' \in [Procs -> Processes], faults' \in 0 .. MaxFaults,
             UNCHANGED <<day, guesses, typed, cut>>
      PROVE  TypeOK'
  BY <1>q DEF TypeOK
<1>o. Opened(proc[p]) \in Processes
  BY <1>0 DEF Opened, Processes
<1>1. CASE UpdateUserKeys(p)
  <2> DEFINE k == server.made + 1
  <2>1. k \in 0 .. MaxKeys /\ k \in Kems
    BY <1>1, <1>0, CommandLineConstants DEF UpdateUserKeys, Servers, Kems, Placeholder
  <2>2. /\ server' \in {[server EXCEPT !.made = k], [server EXCEPT !.kem = k, !.made = k]}
        /\ \/ proc' = [proc EXCEPT ![p] = [Opened(proc[p]) EXCEPT !.pc = "sent", !.new = k]]
           \/ proc' = [proc EXCEPT ![p] = Opened(proc[p])]
        /\ (Fault \/ NoFault) /\ UNCHANGED <<wrap, disk, day, guesses, typed, cut>>
    BY <1>1 DEF UpdateUserKeys
  <2> HIDE DEF k
  <2>3. server' \in Servers
    BY <2>1, <2>2, <1>0 DEF Servers
  <2>4. [Opened(proc[p]) EXCEPT !.pc = "sent", !.new = k] \in Processes
    BY <2>1, <1>o DEF Processes, Steps
  <2>5. proc' \in [Procs -> Processes]
    BY <2>2, <2>4, <1>o, <1>0
  <2> QED BY <2>2, <2>3, <2>5, <1>0, <1>q, FaultTypes
<1>2. CASE SaveKeys(p)
  <2> DEFINE q == [proc[p] EXCEPT !.cfg = Upgraded(p), !.open = proc[p].new]
  <2>1. q \in Processes
    BY <1>0, <1>c DEF Processes
  <2>2. /\ \/ proc' = [proc EXCEPT ![p] = [q EXCEPT !.pc = "wrapping", !.todo = {e \in Entries : wrap[e] # Unmade}]]
           \/ proc' = [proc EXCEPT ![p] = [q EXCEPT !.pc = "ready", !.new = Placeholder]]
        /\ disk' = Upgraded(p) /\ (Fault \/ NoFault)
        /\ UNCHANGED <<server, wrap, day, guesses, typed, cut>>
    BY <1>2 DEF SaveKeys, Saved
  <2> HIDE DEF q
  <2>3. /\ [q EXCEPT !.pc = "wrapping", !.todo = {e \in Entries : wrap[e] # Unmade}] \in Processes
        /\ [q EXCEPT !.pc = "ready", !.new = Placeholder] \in Processes
    BY <2>1, <1>k DEF Processes, Steps
  <2>4. proc' \in [Procs -> Processes]
    BY <2>2, <2>3, <1>0
  <2> QED BY <2>2, <2>4, <1>0, <1>c, <1>q, FaultTypes
<1>3. CASE FinishUpgrade(p)
  <2>1. [proc[p] EXCEPT !.pc = "ready", !.new = Placeholder] \in Processes
    BY <1>0, <1>k DEF Processes, Steps
  <2>2. proc' \in [Procs -> Processes]
    BY <2>1, <1>3, <1>0 DEF FinishUpgrade
  <2> QED BY <2>2, <1>3, <1>0, <1>q DEF FinishUpgrade
<1>4. ASSUME NEW e \in Entries, CreateEntry(p, e) PROVE TypeOK'
  BY <1>4, <1>0, <1>q DEF CreateEntry
<1>5. ASSUME NEW e \in Entries, Rewrap(p, e) PROVE TypeOK'
  <2>1. [proc[p] EXCEPT !.todo = @ \ {e}] \in Processes
    BY <1>0 DEF Processes
  <2>2. proc' \in [Procs -> Processes]
    BY <2>1, <1>5, <1>0 DEF Rewrap
  <2>3. wrap' \in [Entries -> Kems \cup {Unmade}] /\ (Fault \/ NoFault)
    BY <1>5, <1>0 DEF Rewrap
  <2> QED BY <2>2, <2>3, <1>5, <1>0, <1>q, FaultTypes DEF Rewrap
<1> QED
  BY <1>1, <1>2, <1>3, <1>4, <1>5 DEF Upgrading

LEMMA InitTypes == Init => TypeOK
<1> SUFFICES ASSUME Init PROVE TypeOK
  OBVIOUS
<1>1. NoPin \in Pins /\ 0 \in 0 .. MaxTokens /\ 0 \in Kems /\ 0 \in 0 .. MaxKeys /\ 0 \in 0 .. MaxDay
  BY CommandLineConstants DEF NoPin, Pins, Kems, Placeholder
<1>2. NoConfig \in Configs
  BY <1>1 DEF NoConfig, Configs, Placeholder
<1>3. Off \in Processes
  BY <1>1, <1>2 DEF Off, Processes, Steps, Placeholder
<1>4. server \in Servers /\ wrap \in [Entries -> Kems \cup {Unmade}]
  BY <1>1 DEF Init, Servers, Placeholder
<1>5. disk \in Configs /\ proc \in [Procs -> Processes]
  BY <1>2, <1>3 DEF Init
<1>6. day \in 1 .. MaxDay /\ faults \in 0 .. MaxFaults /\ guesses \in Nat /\ typed \in 0 .. MaxDay
  BY CommandLineConstants DEF Init
<1>7. cut \in BOOLEAN
  BY DEF Init
<1> QED BY <1>4, <1>5, <1>6, <1>7 DEF TypeOK

LEMMA TypesKept == TypeOK /\ [Next]_vars => TypeOK'
<1> SUFFICES ASSUME TypeOK, [Next]_vars PROVE TypeOK'
  OBVIOUS
<1>1. CASE Advance
  BY <1>1, CommandLineConstants DEF Advance, TypeOK
<1>2. CASE GraceEnds
  BY <1>2 DEF GraceEnds, TypeOK, Servers
<1>3. CASE UNCHANGED vars
  BY <1>3 DEF vars, TypeOK
<1> QED BY <1>1, <1>2, <1>3, SessionTypes, UnlockingTypes, UpgradingTypes DEF Next

\* Every value a process, the file and the server can hold is one the properties speak of.
THEOREM Types == Spec => []TypeOK
<1>1. TypeOK /\ [Next]_vars => TypeOK'
  BY TypesKept
<1> QED BY <1>1, InitTypes, PTL DEF Spec


-----------------------------------------------------------------------------
(***************************************************************************)
(* What a running process and the file agree on, while processes run one   *)
(* after another.                                                          *)
(***************************************************************************)
Alone == \A p, q \in Procs : p = q

Running(p) == proc[p].pc \notin {"off", "answered"}

KeysAgree ==
  /\ disk.kem \in {Placeholder, server.kem}
  /\ \A e \in Entries : wrap[e] \in {Unmade, Placeholder, server.kem}
  /\ disk.kem = Placeholder => \A e \in Entries : wrap[e] \in {Unmade, Placeholder}
  /\ \A p \in Procs :
       /\ Running(p) => proc[p].cfg.kem = disk.kem
       /\ proc[p].pc = "answered" => proc[p].cfg.kem = server.kem
       /\ proc[p].pc = "sent" => proc[p].new = server.kem /\ disk.kem = Placeholder
       /\ proc[p].pc = "wrapping" => proc[p].new = server.kem /\ proc[p].new = disk.kem

PinsAgree ==
  /\ disk.pin.on => guesses <= disk.pin.fails /\ disk.pin.last <= typed
  /\ \A p \in Procs :
       /\ Running(p) => proc[p].cfg.pin = disk.pin
       /\ proc[p].pc = "answered" => proc[p].cfg.pin = NoPin
       /\ proc[p].pc = "guessing" => /\ disk.pin.on /\ guesses < disk.pin.fails
                                     /\ day <= disk.pin.last + disk.pin.days

TokensAgree ==
  /\ SessionIsKept
  /\ \A p \in Procs :
       /\ Running(p) /\ proc[p].pc # "rotated" => proc[p].cfg.token = disk.token
       /\ proc[p].pc \in {"rotated", "answered"} => proc[p].cfg.token \in server.live

IInv == TypeOK /\ KeysAgree /\ PinsAgree /\ TokensAgree

\* What a login or a registration leaves.
LEMMA AfterAnswer ==
  ASSUME TypeOK, NEW p \in Procs, Login(p) \/ Register(p)
  PROVE  /\ proc[p].pc = "ready" /\ server.live \subseteq server'.live
         /\ server'.kem = server.kem \/ (server.kem = NoAccount /\ server'.kem \in Kems)
         /\ UNCHANGED <<wrap, disk, day, guesses, typed, cut>>
         /\ \/ proc' = proc
            \/ /\ proc'[p].pc = "answered" /\ proc'[p].cfg.token \in server'.live
               /\ proc'[p].cfg.kem = server'.kem /\ proc'[p].cfg.pin = NoPin
<1>0. server \in Servers /\ proc \in [Procs -> Processes]
  BY DEF TypeOK
<1>1. ASSUME NEW s \in Servers, s.issued \in s.live, server.live \subseteq s.live,
             s.kem = server.kem \/ (server.kem = NoAccount /\ s.kem \in Kems),
             proc[p].pc = "ready", LoggedIn(p, s)
      PROVE  /\ proc[p].pc = "ready" /\ server.live \subseteq server'.live
             /\ server'.kem = server.kem \/ (server.kem = NoAccount /\ server'.kem \in Kems)
             /\ UNCHANGED <<wrap, disk, day, guesses, typed, cut>>
             /\ \/ proc' = proc
                \/ /\ proc'[p].pc = "answered" /\ proc'[p].cfg.token \in server'.live
                   /\ proc'[p].cfg.kem = server'.kem /\ proc'[p].cfg.pin = NoPin
  <2>1. server' = s /\ UNCHANGED <<wrap, disk, day, guesses, typed, cut>>
    BY <1>1 DEF LoggedIn
  <2>2. CASE proc' = proc
    BY <2>1, <2>2, <1>1
  <2>3. CASE proc' = [proc EXCEPT ![p] = [Off EXCEPT !.pc = "answered", !.cfg = FreshConfig(s.issued, s.kem)]]
    <3>1. proc'[p] = [Off EXCEPT !.pc = "answered", !.cfg = FreshConfig(s.issued, s.kem)]
      BY <2>3, <1>0
    <3>2. proc'[p].pc = "answered" /\ proc'[p].cfg = FreshConfig(s.issued, s.kem)
      BY <3>1 DEF Off
    <3>3. /\ FreshConfig(s.issued, s.kem).token = s.issued
          /\ FreshConfig(s.issued, s.kem).kem = s.kem
          /\ FreshConfig(s.issued, s.kem).pin = NoPin
      BY DEF FreshConfig, NoConfig
    <3> QED BY <3>2, <3>3, <2>1, <1>1
  <2> QED BY <2>2, <2>3, <1>1 DEF LoggedIn
<1>2. CASE Login(p)
  <2>1. /\ Issue(server) \in Servers /\ Issue(server).issued \in Issue(server).live
        /\ server.live \subseteq Issue(server).live /\ Issue(server).kem = server.kem
    BY <1>2, <1>0, IssueTypes DEF Login
  <2> QED BY <2>1, <1>1, <1>2 DEF Login, Ready
<1>3. CASE Register(p)
  <2> DEFINE s == [server EXCEPT !.kem = server.made + 1, !.made = @ + 1]
  <2>1. server.made + 1 \in 0 .. MaxKeys /\ server.made + 1 \in Kems
    BY <1>3, <1>0, CommandLineConstants DEF Register, Servers, Kems, Placeholder
  <2>2. /\ s \in Servers /\ s.issued < MaxTokens /\ s.kem \in Kems
        /\ s.live = server.live /\ server.kem = NoAccount /\ proc[p].pc = "ready"
    BY <2>1, <1>3, <1>0 DEF Servers, Register, Ready
  <2>3. LoggedIn(p, Issue(s))
    BY <1>3 DEF Register
  <2> HIDE DEF s
  <2>4. /\ Issue(s) \in Servers /\ Issue(s).issued \in Issue(s).live
        /\ s.live \subseteq Issue(s).live /\ Issue(s).kem = s.kem
    BY <2>2, IssueTypes
  <2> QED BY <2>2, <2>3, <2>4, <1>1
<1> QED BY <1>2, <1>3

\* What a rotation leaves.
LEMMA AfterRefresh ==
  ASSUME TypeOK, NEW p \in Procs, Refresh(p)
  PROVE  /\ proc[p].pc = "ready" /\ server'.kem = server.kem
         /\ UNCHANGED <<wrap, disk, day, guesses, typed>>
         /\ \/ /\ proc'[p].pc = "rotated" /\ proc'[p].cfg.token \in server'.live
               /\ proc'[p].cfg.kem = proc[p].cfg.kem /\ proc'[p].cfg.pin = proc[p].cfg.pin
            \/ proc' = proc /\ cut'
            \/ UNCHANGED <<server, proc, cut>>
<1> DEFINE t == proc[p].cfg.token
           s0 == [server EXCEPT !.live = @ \ {t},
                                !.grace = IF t \in server.live THEN @ \cup {t} ELSE @]
           s == Issue(s0)
<1>0. server \in Servers /\ proc \in [Procs -> Processes] /\ proc[p].cfg \in Configs
      /\ proc[p] \in Processes
  BY DEF TypeOK, Processes
<1>1. s0 \in Servers /\ s0.issued < MaxTokens /\ s0.kem = server.kem /\ proc[p].pc = "ready"
  BY <1>0 DEF Servers, Refresh, Ready
<1>2. s.kem = server.kem /\ s.issued \in s.live
  <2> HIDE DEF s0
  <2> QED BY <1>1, IssueTypes
<1>3. /\ UNCHANGED <<wrap, disk, day, guesses, typed>>
      /\ \/ /\ server' = s
            /\ proc' = [proc EXCEPT ![p].pc = "rotated", ![p].authed = TRUE, ![p].cfg.token = s.issued]
         \/ server' = s /\ proc' = proc /\ cut'
         \/ UNCHANGED <<server, proc, cut>>
  BY DEF Refresh
<1> HIDE DEF s
<1>4. ASSUME proc' = [proc EXCEPT ![p].pc = "rotated", ![p].authed = TRUE, ![p].cfg.token = s.issued]
      PROVE  /\ proc'[p].pc = "rotated" /\ proc'[p].cfg.token = s.issued
             /\ proc'[p].cfg.kem = proc[p].cfg.kem /\ proc'[p].cfg.pin = proc[p].cfg.pin
  BY <1>4, <1>0 DEF Processes, Configs
<1> QED BY <1>1, <1>2, <1>3, <1>4

\* What the call of a logout leaves.
LEMMA AfterRevoke ==
  ASSUME TypeOK, NEW p \in Procs, RevokeSession(p)
  PROVE  /\ proc[p].pc = "ready" /\ proc'[p].pc = "revoked" /\ proc'[p].cfg = proc[p].cfg
         /\ server'.kem = server.kem /\ UNCHANGED <<wrap, disk, day, guesses, typed, cut>>
BY DEF TypeOK, Servers, RevokeSession, Ready, Processes

\* What a change of the preferences leaves.
LEMMA AfterPreferences ==
  ASSUME TypeOK, NEW p \in Procs, ChangePreferences(p)
  PROVE  /\ proc[p].pc = "ready" /\ proc'[p].pc = "ready" /\ proc'[p].cfg = disk'
         /\ disk'.token = proc[p].cfg.token /\ disk'.kem = proc[p].cfg.kem
         /\ disk'.pin = proc[p].cfg.pin
         /\ UNCHANGED <<server, wrap, day, guesses, typed, cut>>
<1>0. proc \in [Procs -> Processes] /\ proc[p] \in Processes /\ proc[p].cfg \in Configs
  BY DEF TypeOK, Processes
<1>1. proc'[p] = [proc[p] EXCEPT !.cfg.prefs = ~ @]
  BY <1>0 DEF ChangePreferences
<1>2. proc'[p].pc = "ready" /\ proc'[p].cfg = [proc[p].cfg EXCEPT !.prefs = ~ @]
  BY <1>0, <1>1 DEF ChangePreferences, Ready, Processes
<1>3. disk' = [proc[p].cfg EXCEPT !.prefs = ~ @]
  BY DEF ChangePreferences, Saved
<1>4. disk'.token = proc[p].cfg.token /\ disk'.kem = proc[p].cfg.kem /\ disk'.pin = proc[p].cfg.pin
  BY <1>0, <1>3 DEF Configs
<1> QED BY <1>2, <1>3, <1>4 DEF ChangePreferences, Ready

LEMMA SessionsKeepKeys ==
  ASSUME Alone, IInv, NEW p \in Procs, Sessions(p)
  PROVE  KeysAgree'
<1>0. /\ \A q \in Procs : q = p
      /\ proc[p] \in Processes /\ proc[p].cfg \in Configs /\ server \in Servers /\ disk \in Configs
      /\ proc \in [Procs -> Processes] /\ disk.kem # NoAccount
      /\ wrap \in [Entries -> Kems \cup {Unmade}]
  BY DEF Alone, IInv, TypeOK, Processes, Configs, Kems, Placeholder, NoAccount
<1> USE DEF IInv, KeysAgree, Running
<1>1. CASE Start(p)
  BY <1>1, <1>0 DEF Start, Off
<1>2. CASE Exit(p)
  BY <1>2, <1>0 DEF Exit, Off
<1>3. CASE Login(p)
  BY <1>3, <1>0, AfterAnswer
<1>4. CASE Register(p)
  BY <1>4, <1>0, AfterAnswer
<1>5. CASE SaveLogin(p)
  BY <1>5, <1>0 DEF SaveLogin, Saved, Processes
<1>6. CASE Refresh(p)
  BY <1>6, <1>0, AfterRefresh
<1>7. CASE SaveSession(p)
  BY <1>7, <1>0 DEF SaveSession, Saved, Processes
<1>8. CASE RevokeSession(p)
  BY <1>8, <1>0, AfterRevoke
<1>9. CASE ClearSession(p)
  BY <1>9, <1>0 DEF ClearSession, Saved, Cleared, Off, Configs
<1>10. CASE ChangePreferences(p)
  BY <1>10, <1>0, AfterPreferences
<1> QED
  BY <1>1, <1>2, <1>3, <1>4, <1>5, <1>6, <1>7, <1>8, <1>9, <1>10 DEF Sessions

LEMMA SessionsKeepPins ==
  ASSUME Alone, IInv, NEW p \in Procs, Sessions(p)
  PROVE  PinsAgree'
<1>0. /\ \A q \in Procs : q = p
      /\ proc[p] \in Processes /\ proc[p].cfg \in Configs /\ disk \in Configs
      /\ proc[p].cfg.pin \in Pins /\ disk.pin \in Pins /\ guesses \in Nat
      /\ day \in Nat /\ typed \in Nat /\ proc \in [Procs -> Processes] /\ server \in Servers
      /\ wrap \in [Entries -> Kems \cup {Unmade}] /\ disk.kem # NoAccount
  BY CommandLineConstants DEF Alone, IInv, TypeOK, Processes, Configs, Kems, Placeholder, NoAccount
<1> USE DEF IInv, PinsAgree, Running, NoPin
<1>1. CASE Start(p)
  BY <1>1, <1>0 DEF Start, Off
<1>2. CASE Exit(p)
  BY <1>2, <1>0 DEF Exit, Off
<1>3. CASE Login(p)
  BY <1>3, <1>0, AfterAnswer
<1>4. CASE Register(p)
  BY <1>4, <1>0, AfterAnswer
<1>5. CASE SaveLogin(p)
  BY <1>5, <1>0 DEF SaveLogin, Saved, Processes
<1>6. CASE Refresh(p)
  BY <1>6, <1>0, AfterRefresh
<1>7. CASE SaveSession(p)
  BY <1>7, <1>0 DEF SaveSession, Saved, Processes
<1>8. CASE RevokeSession(p)
  BY <1>8, <1>0, AfterRevoke
<1>9. CASE ClearSession(p)
  BY <1>9, <1>0 DEF ClearSession, Saved, Cleared, Off, Configs
<1>10. CASE ChangePreferences(p)
  BY <1>10, <1>0, AfterPreferences
<1> QED
  BY <1>1, <1>2, <1>3, <1>4, <1>5, <1>6, <1>7, <1>8, <1>9, <1>10 DEF Sessions

LEMMA SessionsKeepTokens ==
  ASSUME Alone, IInv, NEW p \in Procs, Sessions(p)
  PROVE  TokensAgree'
<1>0. /\ \A q \in Procs : q = p
      /\ proc[p] \in Processes /\ proc[p].cfg \in Configs /\ disk \in Configs
      /\ proc[p].cfg.pin \in Pins /\ disk.pin \in Pins /\ guesses \in Nat
      /\ day \in Nat /\ typed \in Nat /\ proc \in [Procs -> Processes] /\ server \in Servers
      /\ wrap \in [Entries -> Kems \cup {Unmade}] /\ disk.kem # NoAccount
  BY CommandLineConstants DEF Alone, IInv, TypeOK, Processes, Configs, Kems, Placeholder, NoAccount
<1> USE DEF IInv, TokensAgree, Running, SessionIsKept
<1>1. CASE Start(p)
  BY <1>1, <1>0 DEF Start, Off
<1>2. CASE Exit(p)
  BY <1>2, <1>0 DEF Exit, Off
<1>3. CASE Login(p)
  BY <1>3, <1>0, AfterAnswer
<1>4. CASE Register(p)
  BY <1>4, <1>0, AfterAnswer
<1>5. CASE SaveLogin(p)
  BY <1>5, <1>0 DEF SaveLogin, Saved, Processes
<1>6. CASE Refresh(p)
  BY <1>6, <1>0, AfterRefresh
<1>7. CASE SaveSession(p)
  BY <1>7, <1>0 DEF SaveSession, Saved, Processes
<1>8. CASE RevokeSession(p)
  BY <1>8, <1>0, AfterRevoke
<1>9. CASE ClearSession(p)
  BY <1>9, <1>0 DEF ClearSession, Saved, Cleared, Off, Configs
<1>10. CASE ChangePreferences(p)
  BY <1>10, <1>0, AfterPreferences
<1> QED
  BY <1>1, <1>2, <1>3, <1>4, <1>5, <1>6, <1>7, <1>8, <1>9, <1>10 DEF Sessions

\* What an unlock with the master password leaves.
LEMMA AfterUnlock ==
  ASSUME TypeOK, NEW p \in Procs, Unlock(p)
  PROVE  /\ proc[p].pc = "ready" /\ proc'[p].pc = "ready"
         /\ proc'[p].cfg.kem = proc[p].cfg.kem /\ proc'[p].cfg.token = proc[p].cfg.token
         /\ typed' = day /\ UNCHANGED <<server, wrap, day, cut>>
         /\ \/ ~proc[p].cfg.pin.on /\ proc'[p].cfg = proc[p].cfg /\ UNCHANGED <<disk, guesses>>
            \/ /\ proc[p].cfg.pin.on /\ disk' = proc'[p].cfg /\ guesses' = 0
               /\ disk'.pin.last = day /\ disk'.pin.fails = 0
<1> DEFINE cfg == [proc[p].cfg EXCEPT !.pin = Restarted(@)]
<1>0. proc \in [Procs -> Processes] /\ proc[p] \in Processes /\ proc[p].cfg \in Configs
      /\ proc[p].cfg.pin \in Pins
  BY DEF TypeOK, Processes, Configs
<1>1. /\ cfg.kem = proc[p].cfg.kem /\ cfg.token = proc[p].cfg.token
      /\ cfg.pin = Restarted(proc[p].cfg.pin)
      /\ (~proc[p].cfg.pin.on => cfg = proc[p].cfg)
  BY <1>0 DEF Configs, Restarted
<1>4. /\ proc' = [proc EXCEPT ![p] = Opened([proc[p] EXCEPT !.cfg = cfg])]
      /\ IF cfg.pin.on THEN disk' = cfg /\ guesses' = 0 ELSE UNCHANGED <<disk, guesses>>
      /\ proc[p].pc = "ready" /\ typed' = day /\ UNCHANGED <<server, wrap, day, cut>>
  BY DEF Unlock, Saved, Ready
<1> HIDE DEF cfg
<1>2. CASE proc[p].cfg.pin.on
  <2>1. cfg.pin = [proc[p].cfg.pin EXCEPT !.last = day, !.fails = 0]
    BY <1>1, <1>2 DEF Restarted
  <2>2. cfg.pin.on /\ cfg.pin.last = day /\ cfg.pin.fails = 0
    BY <1>0, <1>2, <2>1 DEF Pins
  <2>3. proc'[p].pc = "ready" /\ proc'[p].cfg = cfg
    BY <1>0, <1>4 DEF Opened, Processes
  <2>4. disk' = cfg /\ guesses' = 0
    BY <1>4, <2>2
  <2> QED BY <1>1, <1>2, <1>4, <2>2, <2>3, <2>4
<1>3. CASE ~proc[p].cfg.pin.on
  <2>1. cfg = proc[p].cfg
    BY <1>1, <1>3
  <2>2. proc'[p].pc = "ready" /\ proc'[p].cfg = cfg
    BY <1>0, <1>4 DEF Opened, Processes
  <2> QED BY <1>3, <1>4, <2>1, <2>2
<1> QED BY <1>2, <1>3

\* What setting up or removing the PIN leaves.
LEMMA AfterPinChange ==
  ASSUME TypeOK, NEW p \in Procs, EnablePin(p) \/ DisablePin(p)
  PROVE  /\ proc[p].pc = "ready" /\ proc'[p].pc = "ready" /\ proc'[p].cfg = disk'
         /\ disk'.kem = proc[p].cfg.kem /\ disk'.token = proc[p].cfg.token
         /\ guesses' = 0 /\ UNCHANGED <<server, wrap, day, cut>>
         /\ \/ ~disk'.pin.on /\ typed' = typed
            \/ disk'.pin.fails = 0 /\ disk'.pin.last = day /\ typed' = day
<1>0. proc \in [Procs -> Processes] /\ proc[p] \in Processes /\ proc[p].cfg \in Configs
  BY DEF TypeOK, Processes
<1>1. CASE EnablePin(p)
  <2>1. PICK d \in AskedDays :
          /\ proc' = [proc EXCEPT ![p].cfg.pin = [on |-> TRUE, fails |-> 0, days |-> ClampDays(d), last |-> day]]
          /\ disk' = [proc[p].cfg EXCEPT !.pin = [on |-> TRUE, fails |-> 0, days |-> ClampDays(d), last |-> day]]
    BY <1>1 DEF EnablePin, Saved
  <2>2. disk'.pin.fails = 0 /\ disk'.pin.last = day
    BY <2>1, <1>0 DEF Configs
  <2>3. proc'[p].cfg = disk' /\ proc'[p].pc = proc[p].pc
    BY <2>1, <1>0 DEF Processes
  <2>4. disk'.kem = proc[p].cfg.kem /\ disk'.token = proc[p].cfg.token
    BY <2>1, <1>0 DEF Configs
  <2> QED BY <2>2, <2>3, <2>4, <1>1 DEF EnablePin, Ready
<1>2. CASE DisablePin(p)
  BY <1>2, <1>0 DEF DisablePin, WithoutPin, Saved, NoPin, Configs, Processes, Ready
<1> QED BY <1>1, <1>2

\* What counting a guess leaves.
LEMMA AfterCount ==
  ASSUME TypeOK, NEW p \in Procs, CountGuess(p)
  PROVE  /\ proc[p].pc = "ready" /\ proc'[p].pc = "guessing" /\ proc'[p].cfg = disk'
         /\ disk'.kem = proc[p].cfg.kem /\ disk'.token = proc[p].cfg.token
         /\ proc[p].cfg.pin.on /\ day <= proc[p].cfg.pin.last + proc[p].cfg.pin.days
         /\ disk'.pin.fails = proc[p].cfg.pin.fails + 1
         /\ disk'.pin.on = proc[p].cfg.pin.on /\ disk'.pin.last = proc[p].cfg.pin.last
         /\ disk'.pin.days = proc[p].cfg.pin.days
         /\ UNCHANGED <<server, wrap, day, guesses, typed, cut>>
<1>0. proc \in [Procs -> Processes] /\ proc[p] \in Processes /\ proc[p].cfg \in Configs
      /\ proc[p].cfg.pin \in Pins /\ day \in Int
  BY DEF TypeOK, Processes, Configs
<1>1. proc' = [proc EXCEPT ![p].pc = "guessing", ![p].cfg = Counted(proc[p].cfg)]
      /\ disk' = Counted(proc[p].cfg)
  BY DEF CountGuess, Saved
<1>2. proc'[p].pc = "guessing" /\ proc'[p].cfg = disk'
  BY <1>0, <1>1 DEF Processes
<1>3. /\ disk'.kem = proc[p].cfg.kem /\ disk'.token = proc[p].cfg.token
      /\ disk'.pin = [proc[p].cfg.pin EXCEPT !.fails = @ + 1]
  BY <1>0, <1>1 DEF Counted, Configs
<1>4. /\ disk'.pin.fails = proc[p].cfg.pin.fails + 1
      /\ disk'.pin.on = proc[p].cfg.pin.on /\ disk'.pin.last = proc[p].cfg.pin.last
      /\ disk'.pin.days = proc[p].cfg.pin.days
  BY <1>0, <1>3 DEF Pins
<1>5. day <= proc[p].cfg.pin.last + proc[p].cfg.pin.days
  BY <1>0 DEF CountGuess, Expired, Pins
<1> QED BY <1>2, <1>3, <1>4, <1>5 DEF CountGuess, Ready

\* What the right PIN leaves.
LEMMA AfterRight ==
  ASSUME TypeOK, NEW p \in Procs, GuessRight(p)
  PROVE  /\ proc[p].pc = "guessing" /\ proc'[p].pc = "ready" /\ proc'[p].cfg = disk'
         /\ disk'.kem = proc[p].cfg.kem /\ disk'.token = proc[p].cfg.token
         /\ disk'.pin.fails = 0 /\ disk'.pin.last = proc[p].cfg.pin.last
         /\ guesses' = 0 /\ UNCHANGED <<server, wrap, day, typed, cut>>
<1> DEFINE cfg == [proc[p].cfg EXCEPT !.pin = Forgiven(@)]
<1>0. proc \in [Procs -> Processes] /\ proc[p] \in Processes /\ proc[p].cfg \in Configs
      /\ proc[p].cfg.pin \in Pins
  BY DEF TypeOK, Processes, Configs
<1>1. /\ cfg.kem = proc[p].cfg.kem /\ cfg.token = proc[p].cfg.token
      /\ cfg.pin = Forgiven(proc[p].cfg.pin)
  BY <1>0 DEF Configs
<1>2. cfg.pin.fails = 0 /\ cfg.pin.last = proc[p].cfg.pin.last
  BY <1>0, <1>1 DEF Forgiven, Pins
<1>3. /\ proc' = [proc EXCEPT ![p] = Opened([proc[p] EXCEPT !.pc = "ready", !.cfg = cfg])]
      /\ disk' = cfg /\ proc[p].pc = "guessing" /\ guesses' = 0
      /\ UNCHANGED <<server, wrap, day, typed, cut>>
  BY DEF GuessRight, Saved
<1> HIDE DEF cfg
<1>4. proc'[p].pc = "ready" /\ proc'[p].cfg = cfg
  BY <1>0, <1>3 DEF Opened, Processes
<1> QED BY <1>1, <1>2, <1>3, <1>4

\* What a wrong PIN leaves once it is dealt with.
LEMMA AfterWiping ==
  ASSUME TypeOK, NEW p \in Procs, AfterWrong(p)
  PROVE  /\ proc[p].pc \in {"wiping", "wrong"} /\ proc'[p].pc = "ready" /\ proc'[p].cfg = disk'
         /\ disk'.kem = proc[p].cfg.kem /\ disk'.token = proc[p].cfg.token
         /\ UNCHANGED <<server, wrap, day, typed, cut>>
         /\ ~disk'.pin.on \/ (disk'.pin = proc[p].cfg.pin /\ guesses' = guesses)
<1>0. proc \in [Procs -> Processes] /\ proc[p] \in Processes /\ proc[p].cfg \in Configs
  BY DEF TypeOK, Processes
<1>1. CASE proc[p].pc = "wiping" /\ WithoutPin(p)
  BY <1>1, <1>0 DEF AfterWrong, WithoutPin, Saved, NoPin, Configs, Processes
<1>2. CASE proc[p].pc = "wrong"
  BY <1>2, <1>0 DEF AfterWrong, Saved, Processes
<1> QED BY <1>1, <1>2 DEF AfterWrong

\* What sending the new keys leaves.
LEMMA AfterKeys ==
  ASSUME TypeOK, NEW p \in Procs, UpdateUserKeys(p)
  PROVE  /\ proc[p].pc = "ready" /\ proc[p].cfg.kem = Placeholder
         /\ proc'[p].cfg = proc[p].cfg /\ server'.live = server.live
         /\ UNCHANGED <<wrap, disk, day, guesses, typed, cut>>
         /\ \/ proc'[p].pc = "sent" /\ proc'[p].new = server'.kem
            \/ proc'[p].pc = "ready"
<1>0. proc \in [Procs -> Processes] /\ proc[p] \in Processes /\ server \in Servers
  BY DEF TypeOK
<1>1. /\ server' \in {[server EXCEPT !.made = server.made + 1],
                     [server EXCEPT !.kem = server.made + 1, !.made = server.made + 1]}
      /\ \/ /\ proc' = [proc EXCEPT ![p] = [Opened(proc[p]) EXCEPT !.pc = "sent", !.new = server.made + 1]]
            /\ server' = [server EXCEPT !.kem = server.made + 1, !.made = server.made + 1]
         \/ proc' = [proc EXCEPT ![p] = Opened(proc[p])]
      /\ proc[p].pc = "ready" /\ proc[p].cfg.kem = Placeholder
      /\ UNCHANGED <<wrap, disk, day, guesses, typed, cut>>
  BY DEF UpdateUserKeys, Ready, NeedsKeyUpgrade
<1>2. server'.live = server.live
  BY <1>0, <1>1 DEF Servers
<1>3. CASE /\ proc' = [proc EXCEPT ![p] = [Opened(proc[p]) EXCEPT !.pc = "sent", !.new = server.made + 1]]
           /\ server' = [server EXCEPT !.kem = server.made + 1, !.made = server.made + 1]
  BY <1>0, <1>1, <1>2, <1>3 DEF Opened, Processes, Servers
<1>4. CASE proc' = [proc EXCEPT ![p] = Opened(proc[p])]
  BY <1>0, <1>1, <1>2, <1>4 DEF Opened, Processes
<1> QED BY <1>1, <1>3, <1>4

\* What saving the new keys leaves.
LEMMA AfterSaving ==
  ASSUME TypeOK, NEW p \in Procs, SaveKeys(p)
  PROVE  /\ proc[p].pc = "sent" /\ proc'[p].pc \in {"ready", "wrapping"} /\ proc'[p].cfg = disk'
         /\ disk'.kem = proc[p].new /\ disk'.token = proc[p].cfg.token /\ disk'.pin = proc[p].cfg.pin
         /\ proc'[p].pc = "wrapping" => proc'[p].new = proc[p].new
         /\ UNCHANGED <<server, wrap, day, guesses, typed, cut>>
<1> DEFINE q == [proc[p] EXCEPT !.cfg = Upgraded(p), !.open = proc[p].new]
<1>0. proc \in [Procs -> Processes] /\ proc[p] \in Processes /\ proc[p].cfg \in Configs
  BY DEF TypeOK, Processes
<1>1. q.cfg = Upgraded(p) /\ q.new = proc[p].new /\ q \in Processes
  <2>1. Upgraded(p) \in Configs
    BY ConfigTypes
  <2> QED BY <2>1, <1>0 DEF Processes
<1>2. /\ Upgraded(p).kem = proc[p].new /\ Upgraded(p).token = proc[p].cfg.token
      /\ Upgraded(p).pin = proc[p].cfg.pin
  BY <1>0 DEF Upgraded, Configs
<1>3. /\ \/ proc' = [proc EXCEPT ![p] = [q EXCEPT !.pc = "wrapping", !.todo = {e \in Entries : wrap[e] # Unmade}]]
         \/ proc' = [proc EXCEPT ![p] = [q EXCEPT !.pc = "ready", !.new = Placeholder]]
      /\ disk' = Upgraded(p) /\ proc[p].pc = "sent"
      /\ UNCHANGED <<server, wrap, day, guesses, typed, cut>>
  BY DEF SaveKeys, Saved
<1> HIDE DEF q
<1>4. proc'[p].pc \in {"ready", "wrapping"} /\ proc'[p].cfg = Upgraded(p)
      /\ (proc'[p].pc = "wrapping" => proc'[p].new = q.new)
  <2> DEFINE todo == {e \in Entries : wrap[e] # Unmade}
  <2>1. CASE proc' = [proc EXCEPT ![p] = [q EXCEPT !.pc = "wrapping", !.todo = todo]]
    <3> HIDE DEF todo
    <3>1. proc'[p] = [q EXCEPT !.pc = "wrapping", !.todo = todo]
      BY <2>1, <1>0
    <3> QED BY <3>1, <1>1 DEF Processes
  <2>2. CASE proc' = [proc EXCEPT ![p] = [q EXCEPT !.pc = "ready", !.new = Placeholder]]
    <3>1. proc'[p] = [q EXCEPT !.pc = "ready", !.new = Placeholder]
      BY <2>2, <1>0
    <3> QED BY <3>1, <1>1 DEF Processes
  <2> QED BY <2>1, <2>2, <1>3
<1> QED BY <1>1, <1>2, <1>3, <1>4

LEMMA UnlockingKeepsKeys ==
  ASSUME Alone, IInv, NEW p \in Procs, Unlocking(p)
  PROVE  KeysAgree'
<1>0. /\ \A q \in Procs : q = p
      /\ proc[p] \in Processes /\ proc[p].cfg \in Configs /\ disk \in Configs
      /\ proc[p].cfg.pin \in Pins /\ disk.pin \in Pins /\ guesses \in Nat
      /\ day \in Nat /\ typed \in Nat /\ proc \in [Procs -> Processes] /\ server \in Servers
      /\ wrap \in [Entries -> Kems \cup {Unmade}] /\ disk.kem # NoAccount
  BY CommandLineConstants DEF Alone, IInv, TypeOK, Processes, Configs, Kems, Placeholder, NoAccount
<1> USE DEF IInv, KeysAgree, Running
<1>1. CASE Unlock(p)
  BY <1>1, <1>0, AfterUnlock
<1>2. CASE Lock(p)
  BY <1>2, <1>0 DEF Lock, Processes
<1>3. CASE EnablePin(p)
  BY <1>3, <1>0, AfterPinChange
<1>4. CASE DisablePin(p)
  BY <1>4, <1>0, AfterPinChange
<1>5. CASE CountGuess(p)
  BY <1>5, <1>0, AfterCount
<1>6. CASE GuessRight(p)
  BY <1>6, <1>0, AfterRight
<1>7. CASE GuessWrong(p)
  BY <1>7, <1>0 DEF GuessWrong, Processes
<1>8. CASE AfterWrong(p)
  BY <1>8, <1>0, AfterWiping
<1> QED
  BY <1>1, <1>2, <1>3, <1>4, <1>5, <1>6, <1>7, <1>8 DEF Unlocking

LEMMA UpgradingKeepsKeys ==
  ASSUME Alone, IInv, NEW p \in Procs, Upgrading(p)
  PROVE  KeysAgree'
<1>0. /\ \A q \in Procs : q = p
      /\ proc[p] \in Processes /\ proc[p].cfg \in Configs /\ disk \in Configs
      /\ proc[p].cfg.pin \in Pins /\ disk.pin \in Pins /\ guesses \in Nat
      /\ day \in Nat /\ typed \in Nat /\ proc \in [Procs -> Processes] /\ server \in Servers
      /\ wrap \in [Entries -> Kems \cup {Unmade}] /\ disk.kem # NoAccount
  BY CommandLineConstants DEF Alone, IInv, TypeOK, Processes, Configs, Kems, Placeholder, NoAccount
<1> USE DEF IInv, KeysAgree, Running
<1>1. CASE UpdateUserKeys(p)
  BY <1>1, <1>0, AfterKeys
<1>2. CASE SaveKeys(p)
  BY <1>2, <1>0, AfterSaving
<1>3. CASE FinishUpgrade(p)
  BY <1>3, <1>0 DEF FinishUpgrade, Processes
<1>e1. ASSUME NEW e \in Entries, CreateEntry(p, e) PROVE KeysAgree'
  BY <1>e1, <1>0 DEF CreateEntry, Ready
<1>e2. ASSUME NEW e \in Entries, Rewrap(p, e) PROVE KeysAgree'
  BY <1>e2, <1>0 DEF Rewrap, Decrypts, Processes
<1> QED
  BY <1>1, <1>2, <1>3, <1>e1, <1>e2 DEF Upgrading

LEMMA UnlockingKeepsPins ==
  ASSUME Alone, IInv, NEW p \in Procs, Unlocking(p)
  PROVE  PinsAgree'
<1>0. /\ \A q \in Procs : q = p
      /\ proc[p] \in Processes /\ proc[p].cfg \in Configs /\ disk \in Configs
      /\ proc[p].cfg.pin \in Pins /\ disk.pin \in Pins /\ guesses \in Nat
      /\ day \in Nat /\ typed \in Nat /\ proc \in [Procs -> Processes] /\ server \in Servers
      /\ wrap \in [Entries -> Kems \cup {Unmade}] /\ disk.kem # NoAccount
  BY CommandLineConstants DEF Alone, IInv, TypeOK, Processes, Configs, Kems, Placeholder, NoAccount
<1> USE DEF IInv, PinsAgree, Running
<1>1. CASE Unlock(p)
  BY <1>1, <1>0, AfterUnlock
<1>2. CASE Lock(p)
  BY <1>2, <1>0 DEF Lock, Processes
<1>3. CASE EnablePin(p)
  BY <1>3, <1>0, AfterPinChange
<1>4. CASE DisablePin(p)
  BY <1>4, <1>0, AfterPinChange
<1>5. CASE CountGuess(p)
  <2>1. proc[p].cfg.pin = disk.pin /\ disk.pin.fails \in Nat /\ guesses <= disk.pin.fails
    BY <1>5, <1>0, AfterCount DEF Pins
  <2>2. /\ proc[p].cfg.pin.on /\ day <= proc[p].cfg.pin.last + proc[p].cfg.pin.days
        /\ disk'.pin.fails = proc[p].cfg.pin.fails + 1
        /\ disk'.pin.on = proc[p].cfg.pin.on /\ disk'.pin.last = proc[p].cfg.pin.last
        /\ disk'.pin.days = proc[p].cfg.pin.days
        /\ guesses' = guesses /\ typed' = typed /\ day' = day
        /\ proc'[p].pc = "guessing" /\ proc'[p].cfg = disk' /\ proc[p].pc = "ready"
    BY <1>5, <1>0, AfterCount
  <2>3. disk.pin.on /\ disk.pin.last <= typed
    BY <2>1, <2>2, <1>0
  <2>4. guesses' < disk'.pin.fails
    BY <2>1, <2>2, <1>0
  <2>5. disk'.pin.on /\ disk'.pin.last <= typed' /\ day' <= disk'.pin.last + disk'.pin.days
    BY <2>1, <2>2, <2>3
  <2>6. guesses' <= disk'.pin.fails
    BY <2>1, <2>2, <1>0
  <2>7. \A q \in Procs : proc'[q].cfg.pin = disk'.pin /\ proc'[q].pc = "guessing"
    BY <2>2, <1>0
  <2>8. \A q \in Procs : /\ proc'[q].cfg.pin = disk'.pin
                         /\ proc'[q].pc # "answered"
    BY <2>7
  <2>9. /\ disk'.pin.on => guesses' <= disk'.pin.fails /\ disk'.pin.last <= typed'
        /\ disk'.pin.on /\ guesses' < disk'.pin.fails /\ day' <= disk'.pin.last + disk'.pin.days
    BY <2>4, <2>5, <2>6
  <2> HIDE DEF Running
  <2> QED BY <2>8, <2>9
<1>6. CASE GuessRight(p)
  BY <1>6, <1>0, AfterRight
<1>7. CASE GuessWrong(p)
  <2>1. proc'[p].pc \in {"wiping", "wrong"} /\ proc'[p].cfg = proc[p].cfg /\ disk' = disk
        /\ typed' = typed /\ guesses' = guesses + 1 /\ proc[p].pc = "guessing"
    BY <1>7, <1>0 DEF GuessWrong, Processes
  <2>2. disk.pin.fails \in Nat /\ guesses < disk.pin.fails
    BY <2>1, <1>0 DEF Pins
  <2>3. guesses' <= disk'.pin.fails
    BY <2>1, <2>2, <1>0
  <2> QED BY <2>1, <2>3, <1>0
<1>8. CASE AfterWrong(p)
  BY <1>8, <1>0, AfterWiping
<1> QED
  BY <1>1, <1>2, <1>3, <1>4, <1>5, <1>6, <1>7, <1>8 DEF Unlocking

LEMMA UpgradingKeepsPins ==
  ASSUME Alone, IInv, NEW p \in Procs, Upgrading(p)
  PROVE  PinsAgree'
<1>0. /\ \A q \in Procs : q = p
      /\ proc[p] \in Processes /\ proc[p].cfg \in Configs /\ disk \in Configs
      /\ proc[p].cfg.pin \in Pins /\ disk.pin \in Pins /\ guesses \in Nat
      /\ day \in Nat /\ typed \in Nat /\ proc \in [Procs -> Processes] /\ server \in Servers
      /\ wrap \in [Entries -> Kems \cup {Unmade}] /\ disk.kem # NoAccount
  BY CommandLineConstants DEF Alone, IInv, TypeOK, Processes, Configs, Kems, Placeholder, NoAccount
<1> USE DEF IInv, PinsAgree, Running
<1>1. CASE UpdateUserKeys(p)
  BY <1>1, <1>0, AfterKeys
<1>2. CASE SaveKeys(p)
  BY <1>2, <1>0, AfterSaving
<1>3. CASE FinishUpgrade(p)
  BY <1>3, <1>0 DEF FinishUpgrade, Processes
<1>e1. ASSUME NEW e \in Entries, CreateEntry(p, e) PROVE PinsAgree'
  BY <1>e1, <1>0 DEF CreateEntry, Ready
<1>e2. ASSUME NEW e \in Entries, Rewrap(p, e) PROVE PinsAgree'
  BY <1>e2, <1>0 DEF Rewrap, Decrypts, Processes
<1> QED
  BY <1>1, <1>2, <1>3, <1>e1, <1>e2 DEF Upgrading

LEMMA UnlockingKeepsTokens ==
  ASSUME Alone, IInv, NEW p \in Procs, Unlocking(p)
  PROVE  TokensAgree'
<1>0. /\ \A q \in Procs : q = p
      /\ proc[p] \in Processes /\ proc[p].cfg \in Configs /\ disk \in Configs
      /\ proc[p].cfg.pin \in Pins /\ disk.pin \in Pins /\ guesses \in Nat
      /\ day \in Nat /\ typed \in Nat /\ proc \in [Procs -> Processes] /\ server \in Servers
      /\ wrap \in [Entries -> Kems \cup {Unmade}] /\ disk.kem # NoAccount
  BY CommandLineConstants DEF Alone, IInv, TypeOK, Processes, Configs, Kems, Placeholder, NoAccount
<1> USE DEF IInv, TokensAgree, Running, SessionIsKept
<1>1. CASE Unlock(p)
  BY <1>1, <1>0, AfterUnlock
<1>2. CASE Lock(p)
  BY <1>2, <1>0 DEF Lock, Processes
<1>3. CASE EnablePin(p)
  BY <1>3, <1>0, AfterPinChange
<1>4. CASE DisablePin(p)
  BY <1>4, <1>0, AfterPinChange
<1>5. CASE CountGuess(p)
  BY <1>5, <1>0, AfterCount
<1>6. CASE GuessRight(p)
  BY <1>6, <1>0, AfterRight
<1>7. CASE GuessWrong(p)
  BY <1>7, <1>0 DEF GuessWrong, Processes
<1>8. CASE AfterWrong(p)
  BY <1>8, <1>0, AfterWiping
<1> QED
  BY <1>1, <1>2, <1>3, <1>4, <1>5, <1>6, <1>7, <1>8 DEF Unlocking

LEMMA UpgradingKeepsTokens ==
  ASSUME Alone, IInv, NEW p \in Procs, Upgrading(p)
  PROVE  TokensAgree'
<1>0. /\ \A q \in Procs : q = p
      /\ proc[p] \in Processes /\ proc[p].cfg \in Configs /\ disk \in Configs
      /\ proc[p].cfg.pin \in Pins /\ disk.pin \in Pins /\ guesses \in Nat
      /\ day \in Nat /\ typed \in Nat /\ proc \in [Procs -> Processes] /\ server \in Servers
      /\ wrap \in [Entries -> Kems \cup {Unmade}] /\ disk.kem # NoAccount
  BY CommandLineConstants DEF Alone, IInv, TypeOK, Processes, Configs, Kems, Placeholder, NoAccount
<1> USE DEF IInv, TokensAgree, Running, SessionIsKept
<1>1. CASE UpdateUserKeys(p)
  BY <1>1, <1>0, AfterKeys
<1>2. CASE SaveKeys(p)
  BY <1>2, <1>0, AfterSaving
<1>3. CASE FinishUpgrade(p)
  BY <1>3, <1>0 DEF FinishUpgrade, Processes
<1>e1. ASSUME NEW e \in Entries, CreateEntry(p, e) PROVE TokensAgree'
  BY <1>e1, <1>0 DEF CreateEntry, Ready
<1>e2. ASSUME NEW e \in Entries, Rewrap(p, e) PROVE TokensAgree'
  BY <1>e2, <1>0 DEF Rewrap, Decrypts, Processes
<1> QED
  BY <1>1, <1>2, <1>3, <1>e1, <1>e2 DEF Upgrading

-----------------------------------------------------------------------------
(***************************************************************************)
(* The theorems.                                                           *)
(***************************************************************************)

LEMMA AgreementStarts == Init => KeysAgree /\ PinsAgree /\ TokensAgree
<1> SUFFICES ASSUME Init PROVE KeysAgree /\ PinsAgree /\ TokensAgree
  OBVIOUS
<1>1. /\ disk.kem = Placeholder /\ disk.token = 0 /\ disk.pin.on = FALSE
      /\ \A p \in Procs : proc[p].pc = "off"
  BY DEF Init, NoConfig, NoPin, Off
<1>2. \A e \in Entries : wrap[e] \in {Unmade, Placeholder}
  BY DEF Init
<1> QED BY <1>1, <1>2 DEF KeysAgree, PinsAgree, TokensAgree, SessionIsKept, Running

LEMMA AgreementKept ==
  ASSUME Alone, IInv, [Next]_vars
  PROVE  KeysAgree' /\ PinsAgree' /\ TokensAgree'
<1>1. CASE Advance
  <2>1. /\ \A p \in Procs : proc[p].pc \in {"off", "ready"}
        /\ UNCHANGED <<server, wrap, disk, proc, faults, guesses, typed, cut>>
    BY <1>1 DEF Advance
  <2> QED BY <2>1 DEF IInv, KeysAgree, PinsAgree, TokensAgree, SessionIsKept, Running
<1>2. CASE GraceEnds
  <2>1. /\ server'.kem = server.kem /\ server'.live = server.live
        /\ UNCHANGED <<wrap, disk, proc, day, faults, guesses, typed, cut>>
    BY <1>2 DEF GraceEnds, IInv, TypeOK, Servers
  <2> QED BY <2>1 DEF IInv, KeysAgree, PinsAgree, TokensAgree, SessionIsKept, Running
<1>3. CASE UNCHANGED vars
  BY <1>3 DEF vars, IInv, KeysAgree, PinsAgree, TokensAgree, SessionIsKept, Running
<1>4. ASSUME NEW p \in Procs, Sessions(p) \/ Unlocking(p) \/ Upgrading(p)
      PROVE  KeysAgree' /\ PinsAgree' /\ TokensAgree'
  BY <1>4, SessionsKeepKeys, SessionsKeepPins, SessionsKeepTokens, UnlockingKeepsKeys,
     UnlockingKeepsPins, UnlockingKeepsTokens, UpgradingKeepsKeys, UpgradingKeepsPins,
     UpgradingKeepsTokens
<1> QED BY <1>1, <1>2, <1>3, <1>4 DEF Next

\* What the file, the server and a process hold agree as IInv says, as long as one process
\* runs at a time, wherever it is killed.
THEOREM Agreement == ASSUME Alone PROVE Spec => []IInv
<1>1. Init => IInv
  BY InitTypes, AgreementStarts DEF IInv
<1>2. IInv /\ [Next]_vars => IInv'
  BY TypesKept, AgreementKept DEF IInv
<1> QED BY <1>1, <1>2, PTL DEF Spec

\* One process at a time: an upgrade of the keys, however often it is refused, killed or
\* run again, leaves every entry readable with the server's keys (vault/upgrade.go).
THEOREM UpgradeIsSafeAlone == ASSUME Alone PROVE Spec => []EntriesStayReadable
<1>1. IInv => EntriesStayReadable
  BY DEF IInv, KeysAgree, EntriesStayReadable, Decrypts
<1> QED BY <1>1, Agreement, PTL

\* One process at a time: the count in the file is never behind the wrong PINs typed,
\* whenever the process is killed (vault/pin.go).
THEOREM GuessesAreCounted == ASSUME Alone PROVE Spec => []EveryGuessIsCounted
<1>1. IInv => EveryGuessIsCounted
  BY DEF IInv, PinsAgree, EveryGuessIsCounted
<1> QED BY <1>1, Agreement, PTL

\* One process at a time: the session in the file is lost only with an answer or to a
\* kill between the rotation and the save (vault/vault.go, Authenticate).
THEOREM SessionSurvives == ASSUME Alone PROVE Spec => []SessionIsKept
<1>1. IInv => SessionIsKept
  BY DEF IInv, TokensAgree
<1> QED BY <1>1, Agreement, PTL

\* One process at a time: the PIN opens nothing once its interval since the master
\* password was last typed is over (vault/pin.go).
THEOREM MasterPasswordIsAskedAgain == ASSUME Alone PROVE Spec => PinNeedsTheMasterPassword
<1>1. IInv /\ [Next]_vars
        => [\A p \in Procs : proc[p].pc = "guessing" /\ proc'[p].open # Locked
                               => day <= typed + proc[p].cfg.pin.days]_vars
  <2> SUFFICES ASSUME IInv, NEW p \in Procs, proc[p].pc = "guessing"
               PROVE  day <= typed + proc[p].cfg.pin.days
    OBVIOUS
  <2>1. disk.pin = proc[p].cfg.pin /\ disk.pin.on /\ day <= disk.pin.last + disk.pin.days
        /\ disk.pin.last <= typed
    BY DEF IInv, PinsAgree, Running
  <2>2. disk.pin.last \in Int /\ disk.pin.days \in Int /\ typed \in Int /\ day \in Int
    BY DEF IInv, TypeOK, Configs, Pins
  <2> QED BY <2>1, <2>2
<1> QED BY <1>1, Agreement, PTL DEF Spec, PinNeedsTheMasterPassword

-----------------------------------------------------------------------------
(***************************************************************************)
(* Commands.  Induction over a set of numbers first: by it the functions   *)
(* that the model defines by recursion exist, and do what they are for.    *)
(***************************************************************************)

LEMMA LeastNumber ==
  ASSUME NEW T, T \subseteq Nat, T # {}
  PROVE  \E x \in T : \A y \in T : ~(y < x)
<1> DEFINE R == OpToRel(<, Nat)
<1>1. IsWellFoundedOn(R, Nat)
  BY NatLessThanWellFounded
<1>2. \A x, y \in Nat : y < x => <<y, x>> \in R
  BY DEF OpToRel
<1> HIDE DEF R
<1>3. \E x \in T : \A y \in T : ~ (<<y, x>> \in R)
  BY <1>1, WFMin
<1> QED BY <1>2, <1>3

LEMMA Induction ==
  ASSUME NEW T, 0 \in T, \A n \in Nat : n \in T => n + 1 \in T
  PROVE  \A n \in Nat : n \in T
<1> SUFFICES ASSUME NEW b \in Nat, b \notin T PROVE FALSE
  OBVIOUS
<1> DEFINE M == {n \in Nat : n \notin T}
<1>1. PICK x \in M : \A y \in M : ~(y < x)
  BY LeastNumber
<1>2. x # 0 /\ x - 1 \in Nat /\ x - 1 \notin M
  BY <1>1
<1> QED BY <1>2

-----------------------------------------------------------------------------
(***************************************************************************)
(* Lists: sequences of whatever there is in them.                          *)
(***************************************************************************)

ListOf(s) == \E S : s \in Seq(S)

LEMMA ListsAreLists ==
  ASSUME NEW s
  PROVE  IsList(s) <=> ListOf(s)
<1>1. ASSUME IsList(s)
      PROVE  ListOf(s)
  <2>1. s \in Seq({s[i] : i \in 1 .. Len(s)})
    BY <1>1 DEF IsList
  <2> QED BY <2>1 DEF ListOf
<1>2. ASSUME ListOf(s)
      PROVE  IsList(s)
  BY <1>2 DEF ListOf, IsList
<1> QED BY <1>1, <1>2

LEMMA ListsAreNumbered ==
  ASSUME NEW s, ListOf(s)
  PROVE  Len(s) \in Nat /\ DOMAIN s = 1 .. Len(s)
BY DEF ListOf

LEMMA ListsAsFunctions ==
  ASSUME NEW n \in Nat, NEW t, t = [i \in 1 .. n |-> t[i]]
  PROVE  ListOf(t) /\ Len(t) = n /\ DOMAIN t = 1 .. n
<1>1. t \in Seq({t[i] : i \in 1 .. n}) /\ DOMAIN t = 1 .. n
  OBVIOUS
<1>2. Len(t) \in Nat /\ 1 .. Len(t) = 1 .. n
  BY <1>1
<1>3. Len(t) = n
  <2>1. \A i \in Nat \ {0} : i <= Len(t) <=> i <= n
    BY <1>2
  <2> QED BY <1>2, <2>1
<1> QED BY <1>1, <1>3 DEF ListOf

LEMMA ListsPicked ==
  ASSUME NEW s, NEW P, IsFiniteSet(P)
  PROVE  ListOf(Picked(s, P))
<1>1. Cardinality(P) \in Nat
  BY FS_CardinalityType
<1> QED BY <1>1, ListsAsFunctions DEF Picked

LEMMA ListsAreFinite ==
  ASSUME NEW s, ListOf(s)
  PROVE  IsFiniteSet(DOMAIN s) /\ \A P : P \subseteq DOMAIN s => IsFiniteSet(P)
<1>1. PICK n \in Nat : DOMAIN s = 1 .. n
  BY DEF ListOf
<1>2. IsFiniteSet(1 .. n)
  BY FS_Interval
<1> QED BY <1>1, <1>2, FS_Subset

LEMMA ListsJoined ==
  ASSUME NEW s, NEW t, ListOf(s), ListOf(t)
  PROVE  ListOf(s \o t) /\ Range(s \o t) = Range(s) \cup Range(t)
<1>1. PICK S, T : s \in Seq(S) /\ t \in Seq(T)
  BY DEF ListOf
<1>2. s \in Seq(S \cup T) /\ t \in Seq(S \cup T)
  BY <1>1
<1>3. PICK u : u = s \o t
  OBVIOUS
<1>4. u \in Seq(S \cup T)
  BY <1>2, <1>3
<1>5. \A i \in DOMAIN s : i \in DOMAIN u /\ u[i] = s[i]
  BY <1>2, <1>3
<1>6. \A i \in DOMAIN t : Len(s) + i \in DOMAIN u /\ u[Len(s) + i] = t[i]
  BY <1>2, <1>3
<1>7. \A i \in DOMAIN u : \/ i \in DOMAIN s /\ u[i] = s[i]
                          \/ i - Len(s) \in DOMAIN t /\ u[i] = t[i - Len(s)]
  BY <1>2, <1>3
<1>8. Range(s) \subseteq Range(u) /\ Range(t) \subseteq Range(u)
  BY <1>5, <1>6 DEF Range
<1>9. Range(u) \subseteq Range(s) \cup Range(t)
  BY <1>7 DEF Range
<1>10. ListOf(u)
  BY <1>4 DEF ListOf
<1> QED BY <1>3, <1>8, <1>9, <1>10

\* Taking the elements of a set one by one lists them all.
LEMMA ListedWhole ==
  ASSUME NEW S, IsFiniteSet(S)
  PROVE  ListOf(Listed(S)) /\ Range(Listed(S)) = S
<1> DEFINE N == Cardinality(S)
           a == [left |-> S, list |-> << >>]
           IsTaken(f, m) == f = [n \in 0 .. m |-> IF n = 0 THEN a ELSE Taken(f[n - 1])]
           T == {m \in Nat : \E f : IsTaken(f, m)}
<1>1. N \in Nat
  BY FS_CardinalityType
<1> HIDE DEF a
<1>2. 0 \in T
  <2>1. IsTaken([n \in 0 .. 0 |-> a], 0)
    OBVIOUS
  <2> QED BY <2>1
<1>3. ASSUME NEW m \in Nat, m \in T
      PROVE  m + 1 \in T
  <2>1. PICK f : IsTaken(f, m)
    BY <1>3
  <2> DEFINE g == [n \in 0 .. m + 1 |-> IF n = m + 1 THEN Taken(f[m]) ELSE f[n]]
  <2>2. f[0] = a /\ \A n \in 1 .. m : f[n] = Taken(f[n - 1])
    BY <2>1
  <2>3. ASSUME NEW n \in 0 .. m + 1
        PROVE  g[n] = IF n = 0 THEN a ELSE Taken(g[n - 1])
    <3>1. CASE n = 0
      BY <3>1, <2>2
    <3>2. CASE n \in 1 .. m
      BY <3>2, <2>2
    <3>3. CASE n = m + 1
      <4>1. g[n] = Taken(f[m]) /\ g[n - 1] = f[m] /\ n # 0
        BY <3>3
      <4> QED BY <4>1
    <3> QED BY <3>1, <3>2, <3>3
  <2>4. IsTaken(g, m + 1)
    BY <2>3
  <2> HIDE DEF g, IsTaken
  <2>5. \E h : IsTaken(h, m + 1)
    BY <2>4
  <2> QED BY <2>5
<1> HIDE DEF T
<1>4. \E f : IsTaken(f, N)
  <2>1. N \in T
    BY <1>1, <1>2, <1>3, Induction
  <2> QED BY <2>1 DEF T
<1> DEFINE g == CHOOSE f : IsTaken(f, N)
           All(u) == \A x \in S : x \in u.left \/ \E i \in DOMAIN u.list : u.list[i] = x
           Whole(u) == u.list \in Seq(S) /\ u.left \subseteq S /\ IsFiniteSet(u.left) /\ All(u)
           P == {n \in Nat : n <= N => Cardinality(g[n].left) = N - n /\ Whole(g[n])}
<1>5. IsTaken(g, N)
  BY <1>4
<1>6. Listed(S) = g[N].list
  BY DEF Listed, N, a
<1> HIDE DEF g
<1>7. g[0] = a /\ \A n \in 1 .. N : g[n] = Taken(g[n - 1])
  BY <1>1, <1>5
<1>8. 0 \in P
  <2>1. a.left = S /\ a.list = << >> /\ << >> \in Seq(S)
    BY DEF a
  <2>2. Whole(a) /\ Cardinality(a.left) = N - 0
    BY <1>1, <2>1
  <2> HIDE DEF Whole, N
  <2> QED BY <1>7, <2>2
<1> HIDE DEF N
<1>9. ASSUME NEW n \in Nat, n \in P
      PROVE  n + 1 \in P
  <2> SUFFICES ASSUME n + 1 <= N
               PROVE  Cardinality(g[n + 1].left) = N - (n + 1) /\ Whole(g[n + 1])
    OBVIOUS
  <2> DEFINE u == g[n]
             v == g[n + 1]
             x == CHOOSE y \in u.left : TRUE
  <2>1. Cardinality(u.left) = N - n /\ Whole(u)
    BY <1>1, <1>9
  <2>2. v = Taken(u)
    <3>1. n + 1 \in 1 .. N /\ (n + 1) - 1 = n
      BY <1>1
    <3> QED BY <1>7, <3>1
  <2>3. u.left # {}
    BY <1>1, <2>1, FS_EmptySet
  <2>4. x \in u.left
    BY <2>3
  <2>5. v = [left |-> u.left \ {x}, list |-> Append(u.list, x)]
    BY <2>2 DEF Taken
  <2> HIDE DEF u, v, x, P
  <2>6. v.left = u.left \ {x} /\ v.list = Append(u.list, x)
    BY <2>5
  <2>7. Cardinality(v.left) = N - (n + 1) /\ IsFiniteSet(v.left)
    <3>1. IsFiniteSet(u.left) /\ Cardinality(u.left) = N - n
      BY <2>1
    <3>2. IsFiniteSet(u.left \ {x}) /\ Cardinality(u.left \ {x}) = Cardinality(u.left) - 1
      BY <2>4, <3>1, FS_RemoveElement
    <3> QED BY <1>1, <2>6, <3>1, <3>2
  <2>8. All(v) /\ v.list \in Seq(S) /\ v.left \subseteq S
    <3>1. u.list \in Seq(S) /\ x \in S
      BY <2>1, <2>4
    <3>2. /\ \A i \in DOMAIN u.list : i \in DOMAIN v.list /\ v.list[i] = u.list[i]
          /\ Len(u.list) + 1 \in DOMAIN v.list /\ v.list[Len(u.list) + 1] = x
          /\ v.list \in Seq(S)
      BY <2>6, <3>1
    <3> QED BY <2>1, <2>4, <2>6, <3>2
  <2> QED BY <2>7, <2>8 DEF v
<1> HIDE DEF P
<1>10. N \in P
  BY <1>1, <1>8, <1>9, Induction
<1>11. Cardinality(g[N].left) = 0 /\ Whole(g[N])
  BY <1>1, <1>10 DEF P
<1>12. g[N].left = {}
  BY <1>11, FS_EmptySet
<1>13. /\ g[N].list \in Seq(S) /\ \A i \in DOMAIN g[N].list : g[N].list[i] \in S
       /\ \A x \in S : \E i \in DOMAIN g[N].list : g[N].list[i] = x
  BY <1>11, <1>12
<1>14. Range(g[N].list) = S
  BY <1>13 DEF Range
<1> QED BY <1>6, <1>13, <1>14 DEF ListOf

LEMMA ListsMapped ==
  ASSUME NEW s, ListOf(s), NEW t, t = [i \in DOMAIN s |-> t[i]]
  PROVE  ListOf(t) /\ DOMAIN t = DOMAIN s /\ IsFiniteSet(DOMAIN t)
<1>1. t \in Seq({t[i] : i \in DOMAIN s})
  BY DEF ListOf
<1>2. PICK n \in Nat : DOMAIN s = 1 .. n /\ DOMAIN t = DOMAIN s
  BY DEF ListOf
<1>3. IsFiniteSet(1 .. n)
  BY FS_Interval
<1> QED BY <1>1, <1>2, <1>3 DEF ListOf

-----------------------------------------------------------------------------
(***************************************************************************)
(* Merging custom fields.  After n fields of the file, slot[j] is where    *)
(* the j-th went: a place of its own, of its label, that no later field    *)
(* takes; and a field is appended only when its label has no place left.   *)
(***************************************************************************)

\* The fields of an entry after the first n of the file.
IsPairing(existing, imported, n, acc, slot) ==
  /\ ListOf(acc.fields) /\ Len(acc.fields) >= Len(existing)
  /\ slot \in [1 .. n -> DOMAIN acc.fields]
  /\ acc.paired = {slot[j] : j \in 1 .. n}
  /\ \A j, k \in 1 .. n : slot[j] = slot[k] => j = k
  /\ \A i \in DOMAIN existing : acc.fields[i].label = existing[i].label
  /\ \A i \in DOMAIN acc.fields : i > Len(existing) => i \in acc.paired
  /\ \A j \in 1 .. n : acc.fields[slot[j]].label = imported[j].label
  /\ \A j \in 1 .. n : imported[j].value # "" => acc.fields[slot[j]] = imported[j]
  /\ \A i \in DOMAIN existing :
        acc.fields[i] = existing[i] \/ \E j \in 1 .. n : slot[j] = i /\ imported[j].value # ""
  /\ \A j \in 1 .. n : slot[j] > Len(existing) =>
        \A i \in DOMAIN existing : existing[i].label = imported[j].label => i \in acc.paired

\* The first of some positions of a list.
LEMMA FirstOfSlots ==
  ASSUME NEW slots, slots \subseteq Nat, slots # {}
  PROVE  (CHOOSE i \in slots : \A j \in slots : i <= j) \in slots
<1>1. PICK x \in slots : \A y \in slots : ~(y < x)
  BY LeastNumber
<1>2. \A y \in slots : x <= y
  BY <1>1
<1> QED BY <1>2

\* The next field goes into a free place of its label, or to the end.
LEMMA NextIsPaired ==
  ASSUME NEW acc, ListOf(acc.fields), acc.paired \subseteq DOMAIN acc.fields, NEW in
  PROVE  \E i : LET new == Paired(acc, in) IN
           /\ ListOf(new.fields) /\ new.paired = acc.paired \cup {i} /\ i \notin acc.paired
           /\ \/ /\ i = Len(acc.fields) + 1
                 /\ \A k \in DOMAIN acc.fields : acc.fields[k].label = in.label => k \in acc.paired
                 /\ Len(new.fields) = i /\ new.fields[i] = in
              \/ /\ i \in DOMAIN acc.fields /\ acc.fields[i].label = in.label
                 /\ Len(new.fields) = Len(acc.fields)
                 /\ new.fields[i] = (IF in.value = "" THEN acc.fields[i] ELSE in)
           /\ \A k \in DOMAIN acc.fields : k # i => new.fields[k] = acc.fields[k]
<1> DEFINE slots == {i \in DOMAIN acc.fields \ acc.paired : acc.fields[i].label = in.label}
           slot == CHOOSE i \in slots : \A j \in slots : i <= j
           new == Paired(acc, in)
<1>1. PICK S : acc.fields \in Seq(S)
  BY DEF ListOf
<1>2. acc.fields \in Seq(S \cup {in}) /\ in \in S \cup {in} /\ DOMAIN acc.fields = 1 .. Len(acc.fields)
  BY <1>1
<1>3. CASE slots = {}
  <2> DEFINE i == Len(acc.fields) + 1
  <2>1. new = [fields |-> Append(acc.fields, in), paired |-> acc.paired \cup {i}]
    BY <1>3 DEF Paired
  <2>2. /\ new.fields = Append(acc.fields, in) /\ new.paired = acc.paired \cup {i}
    BY <2>1
  <2>3. /\ Append(acc.fields, in) \in Seq(S \cup {in}) /\ Len(Append(acc.fields, in)) = i
        /\ Append(acc.fields, in)[i] = in
        /\ \A k \in DOMAIN acc.fields : Append(acc.fields, in)[k] = acc.fields[k]
    BY <1>2
  <2>4. i \notin acc.paired
    BY <1>2
  <2>5. \A k \in DOMAIN acc.fields : acc.fields[k].label = in.label => k \in acc.paired
    BY <1>3
  <2> HIDE DEF new, slots, slot, i
  <2> QED BY <2>2, <2>3, <2>4, <2>5 DEF ListOf, new, i
<1>4. CASE slots # {}
  <2> DEFINE fields == IF in.value = "" THEN acc.fields ELSE [acc.fields EXCEPT ![slot] = in]
  <2>1. slot \in slots
    <3>1. slots \subseteq Nat
      BY <1>2
    <3> HIDE DEF slots
    <3> QED BY <1>4, <3>1, FirstOfSlots
  <2>2. new = [fields |-> fields, paired |-> acc.paired \cup {slot}]
    BY <1>4 DEF Paired
  <2>3. slot \in DOMAIN acc.fields /\ slot \notin acc.paired /\ acc.fields[slot].label = in.label
    BY <2>1
  <2> HIDE DEF slot, slots
  <2>4. /\ fields \in Seq(S \cup {in}) /\ Len(fields) = Len(acc.fields)
        /\ fields[slot] = (IF in.value = "" THEN acc.fields[slot] ELSE in)
        /\ \A k \in DOMAIN acc.fields : k # slot => fields[k] = acc.fields[k]
    <3>1. CASE in.value = ""
      BY <1>2, <2>3, <3>1
    <3>2. CASE in.value # ""
      <4> DEFINE f == [acc.fields EXCEPT ![slot] = in]
      <4>1. DOMAIN f = DOMAIN acc.fields /\ f[slot] = in
            /\ \A k \in DOMAIN acc.fields : k # slot => f[k] = acc.fields[k]
        BY <2>3
      <4>2. f \in Seq(S \cup {in}) /\ Len(f) = Len(acc.fields)
        BY <1>2, <2>3
      <4>3. fields = f
        BY <3>2
      <4> HIDE DEF f, fields
      <4> QED BY <3>2, <4>1, <4>2, <4>3
    <3> HIDE DEF fields
    <3> QED BY <3>1, <3>2
  <2> HIDE DEF fields
  <2>5. new.fields = fields /\ new.paired = acc.paired \cup {slot}
    BY <2>2
  <2> HIDE DEF new
  <2> QED BY <2>3, <2>4, <2>5 DEF ListOf, new
<1> QED BY <1>3, <1>4

LEMMA PairingGrows ==
  ASSUME NEW existing, ListOf(existing), NEW imported, NEW n \in Nat, NEW acc, NEW slot,
         IsPairing(existing, imported, n, acc, slot)
  PROVE  \E s : IsPairing(existing, imported, n + 1, Paired(acc, imported[n + 1]), s)
<1> DEFINE in == imported[n + 1]
           new == Paired(acc, in)
<1>1. /\ ListOf(acc.fields) /\ Len(acc.fields) >= Len(existing)
      /\ slot \in [1 .. n -> DOMAIN acc.fields]
      /\ acc.paired = {slot[j] : j \in 1 .. n}
      /\ \A j, k \in 1 .. n : slot[j] = slot[k] => j = k
      /\ \A i \in DOMAIN existing : acc.fields[i].label = existing[i].label
      /\ \A i \in DOMAIN acc.fields : i > Len(existing) => i \in acc.paired
  BY DEF IsPairing
<1>2. /\ \A j \in 1 .. n : acc.fields[slot[j]].label = imported[j].label
      /\ \A j \in 1 .. n : imported[j].value # "" => acc.fields[slot[j]] = imported[j]
      /\ \A i \in DOMAIN existing :
            acc.fields[i] = existing[i] \/ \E j \in 1 .. n : slot[j] = i /\ imported[j].value # ""
      /\ \A j \in 1 .. n : slot[j] > Len(existing) =>
            \A i \in DOMAIN existing : existing[i].label = imported[j].label => i \in acc.paired
  BY DEF IsPairing
<1>3. acc.paired \subseteq DOMAIN acc.fields
  BY <1>1
<1>4. PICK i : /\ ListOf(new.fields) /\ new.paired = acc.paired \cup {i} /\ i \notin acc.paired
               /\ \/ /\ i = Len(acc.fields) + 1
                     /\ \A k \in DOMAIN acc.fields : acc.fields[k].label = in.label => k \in acc.paired
                     /\ Len(new.fields) = i /\ new.fields[i] = in
                  \/ /\ i \in DOMAIN acc.fields /\ acc.fields[i].label = in.label
                     /\ Len(new.fields) = Len(acc.fields)
                     /\ new.fields[i] = (IF in.value = "" THEN acc.fields[i] ELSE in)
               /\ \A k \in DOMAIN acc.fields : k # i => new.fields[k] = acc.fields[k]
  BY <1>1, <1>3, NextIsPaired
<1>5. /\ Len(existing) \in Nat /\ DOMAIN existing = 1 .. Len(existing)
      /\ Len(acc.fields) \in Nat /\ DOMAIN acc.fields = 1 .. Len(acc.fields)
      /\ Len(new.fields) \in Nat /\ DOMAIN new.fields = 1 .. Len(new.fields)
  BY <1>1, <1>4, ListsAreNumbered
<1> HIDE DEF new
<1> DEFINE s == [j \in 1 .. n + 1 |-> IF j = n + 1 THEN i ELSE slot[j]]
<1>6. s[n + 1] = i /\ \A j \in 1 .. n : s[j] = slot[j] /\ j # n + 1 /\ j \in 1 .. n + 1
  OBVIOUS
<1>7. \A j \in 1 .. n + 1 : j = n + 1 \/ j \in 1 .. n
  OBVIOUS
<1>8. /\ Len(new.fields) >= Len(acc.fields) /\ i \in DOMAIN new.fields
      /\ DOMAIN acc.fields \subseteq DOMAIN new.fields
      /\ \A k \in DOMAIN new.fields : k \in DOMAIN acc.fields \/ k = i
  <2>1. CASE i = Len(acc.fields) + 1 /\ Len(new.fields) = i
    BY <2>1, <1>5
  <2>2. CASE i \in DOMAIN acc.fields /\ Len(new.fields) = Len(acc.fields)
    BY <2>2, <1>5
  <2> QED BY <2>1, <2>2, <1>4
<1>9. s \in [1 .. n + 1 -> DOMAIN new.fields]
  BY <1>1, <1>8
<1> HIDE DEF s
<1>10. new.paired = {s[j] : j \in 1 .. n + 1}
  <2>1. {s[j] : j \in 1 .. n + 1} = {slot[j] : j \in 1 .. n} \cup {i}
    BY <1>6, <1>7
  <2> QED BY <2>1, <1>1, <1>4
<1>11. \A j, k \in 1 .. n + 1 : s[j] = s[k] => j = k
  <2>1. \A j \in 1 .. n : slot[j] # i
    BY <1>1, <1>4
  <2> QED BY <2>1, <1>1, <1>6, <1>7
<1>12. new.fields[i].label = in.label /\ (in.value # "" => new.fields[i] = in)
  BY <1>4
<1>13. /\ Len(new.fields) >= Len(existing)
       /\ \A k \in DOMAIN new.fields : k > Len(existing) => k \in new.paired
  <2>1. Len(new.fields) >= Len(existing)
    BY <1>1, <1>5, <1>8
  <2>2. ASSUME NEW k \in DOMAIN new.fields, k > Len(existing)
        PROVE  k \in new.paired
    BY <2>2, <1>1, <1>4, <1>8
  <2> QED BY <2>1, <2>2
<1>14. ASSUME NEW k \in DOMAIN existing
       PROVE  /\ new.fields[k].label = existing[k].label
              /\ new.fields[k] = existing[k] \/ \E j \in 1 .. n + 1 : s[j] = k /\ imported[j].value # ""
  <2>1. k \in DOMAIN acc.fields
    BY <1>1, <1>5
  <2>2. CASE k # i
    <3>1. new.fields[k] = acc.fields[k]
      BY <2>1, <2>2, <1>4
    <3>2. acc.fields[k].label = existing[k].label
      BY <1>1
    <3>3. CASE acc.fields[k] = existing[k]
      BY <3>1, <3>2, <3>3
    <3>4. CASE \E j \in 1 .. n : slot[j] = k /\ imported[j].value # ""
      <4>1. PICK j \in 1 .. n : slot[j] = k /\ imported[j].value # ""
        BY <3>4
      <4>2. j \in 1 .. n + 1 /\ s[j] = k
        BY <4>1, <1>6
      <4> QED BY <3>1, <3>2, <4>1, <4>2
    <3> QED BY <3>3, <3>4, <1>2
  <2>3. CASE k = i
    <3>1. i # Len(acc.fields) + 1
      BY <2>1, <2>3, <1>5
    <3>2. /\ acc.fields[i].label = in.label
          /\ new.fields[i] = (IF in.value = "" THEN acc.fields[i] ELSE in)
      BY <3>1, <1>4
    <3>3. new.fields[k].label = existing[k].label
      BY <2>3, <3>2, <1>1
    <3>4. CASE in.value = ""
      <4>1. new.fields[k] = acc.fields[k]
        BY <2>3, <3>2, <3>4
      <4>2. \A j \in 1 .. n : slot[j] # k
        BY <2>3, <1>1, <1>4
      <4>3. acc.fields[k] = existing[k]
        BY <4>2, <1>2
      <4> QED BY <3>3, <4>1, <4>3
    <3>5. CASE in.value # ""
      <4>1. n + 1 \in 1 .. n + 1 /\ s[n + 1] = k
        BY <2>3, <1>6
      <4> QED BY <3>3, <3>5, <4>1
    <3> QED BY <3>4, <3>5
  <2> QED BY <2>2, <2>3
<1>15. ASSUME NEW j \in 1 .. n + 1
       PROVE  /\ new.fields[s[j]].label = imported[j].label
              /\ imported[j].value # "" => new.fields[s[j]] = imported[j]
              /\ s[j] > Len(existing) =>
                    \A k \in DOMAIN existing : existing[k].label = imported[j].label => k \in new.paired
  <2>1. CASE j = n + 1
    <3>1. s[j] = i /\ imported[j] = in
      BY <2>1, <1>6
    <3>2. ASSUME i > Len(existing), NEW k \in DOMAIN existing, existing[k].label = in.label
          PROVE  k \in new.paired
      <4>1. i = Len(acc.fields) + 1
        <5>1. i \notin DOMAIN acc.fields
          BY <3>2, <1>1, <1>4
        <5> QED BY <5>1, <1>4
      <4>2. k \in DOMAIN acc.fields /\ acc.fields[k].label = in.label
        BY <3>2, <1>1, <1>5
      <4>3. i \notin DOMAIN acc.fields
        BY <4>1, <1>5
      <4> QED BY <4>2, <4>3, <1>4
    <3> QED BY <3>1, <3>2, <1>12
  <2>2. CASE j \in 1 .. n
    <3>1. s[j] = slot[j] /\ slot[j] \in acc.paired /\ slot[j] \in DOMAIN acc.fields /\ slot[j] # i
      BY <2>2, <1>1, <1>4, <1>6
    <3>2. new.fields[s[j]] = acc.fields[slot[j]]
      BY <3>1, <1>4
    <3> QED BY <2>2, <3>1, <3>2, <1>2, <1>4
  <2> QED BY <2>1, <2>2, <1>7
<1>16. IsPairing(existing, imported, n + 1, new, s)
  BY <1>4, <1>9, <1>10, <1>11, <1>13, <1>14, <1>15 DEF IsPairing
<1> QED BY <1>16 DEF new

\* The fields a merge ends with are paired with all those of the file.
LEMMA MergedIsPaired ==
  ASSUME NEW existing, ListOf(existing), NEW imported, ListOf(imported)
  PROVE  \E acc, slot : /\ MergeCustomFields(existing, imported) = acc.fields
                        /\ IsPairing(existing, imported, Len(imported), acc, slot)
<1> DEFINE N == Len(imported)
           a == [fields |-> existing, paired |-> {}]
           IsMerged(f, m) ==
             f = [n \in 0 .. m |-> IF n = 0 THEN a ELSE Paired(f[n - 1], imported[n])]
           T == {m \in Nat : \E f : IsMerged(f, m)}
<1>1. N \in Nat
  BY DEF ListOf
<1> HIDE DEF a
<1>2. 0 \in T
  <2>1. IsMerged([n \in 0 .. 0 |-> a], 0)
    OBVIOUS
  <2> QED BY <2>1
<1>3. ASSUME NEW m \in Nat, m \in T
      PROVE  m + 1 \in T
  <2>1. PICK f : IsMerged(f, m)
    BY <1>3
  <2> DEFINE g == [n \in 0 .. m + 1 |-> IF n = m + 1 THEN Paired(f[m], imported[m + 1]) ELSE f[n]]
  <2>2. f[0] = a /\ \A n \in 1 .. m : f[n] = Paired(f[n - 1], imported[n])
    BY <2>1
  <2>3. ASSUME NEW n \in 0 .. m + 1
        PROVE  g[n] = IF n = 0 THEN a ELSE Paired(g[n - 1], imported[n])
    <3>1. CASE n = 0
      BY <3>1, <2>2
    <3>2. CASE n \in 1 .. m
      BY <3>2, <2>2
    <3>3. CASE n = m + 1
      <4>1. g[n] = Paired(f[m], imported[m + 1]) /\ g[n - 1] = f[m] /\ n # 0
        BY <3>3
      <4> QED BY <3>3, <4>1
    <3> QED BY <3>1, <3>2, <3>3
  <2>4. IsMerged(g, m + 1)
    BY <2>3
  <2> HIDE DEF g, IsMerged
  <2>5. \E h : IsMerged(h, m + 1)
    BY <2>4
  <2> QED BY <2>5
<1> HIDE DEF T
<1>4. \E f : IsMerged(f, N)
  <2>1. N \in T
    BY <1>1, <1>2, <1>3, Induction
  <2> QED BY <2>1 DEF T
<1> DEFINE g == CHOOSE f : IsMerged(f, N)
           P == {n \in Nat : n <= N => \E s : IsPairing(existing, imported, n, g[n], s)}
<1>5. IsMerged(g, N)
  BY <1>4
<1>6. MergeCustomFields(existing, imported) = g[N].fields
  BY DEF MergeCustomFields, a
<1> HIDE DEF g
<1>7. g[0] = a /\ \A n \in 1 .. N : g[n] = Paired(g[n - 1], imported[n])
  BY <1>1, <1>5
<1>8. 0 \in P
  <2> DEFINE s == [j \in 1 .. 0 |-> 1]
  <2>1. a.fields = existing /\ a.paired = {} /\ Len(existing) \in Nat
        /\ DOMAIN existing = 1 .. Len(existing)
    BY DEF a, ListOf
  <2>2. IsPairing(existing, imported, 0, a, s)
    BY <2>1 DEF IsPairing
  <2> QED BY <2>2, <1>7
<1>9. ASSUME NEW n \in Nat, n \in P
      PROVE  n + 1 \in P
  <2> SUFFICES ASSUME n + 1 <= N
               PROVE  \E s : IsPairing(existing, imported, n + 1, g[n + 1], s)
    OBVIOUS
  <2>1. n + 1 \in 1 .. N /\ (n + 1) - 1 = n /\ n <= N
    BY <1>1
  <2>2. PICK s : IsPairing(existing, imported, n, g[n], s)
    BY <2>1, <1>9
  <2>3. g[n + 1] = Paired(g[n], imported[n + 1])
    BY <2>1, <1>7
  <2> QED BY <2>2, <2>3, PairingGrows
<1> HIDE DEF P
<1>10. N \in P
  BY <1>1, <1>8, <1>9, Induction
<1> QED BY <1>1, <1>6, <1>10 DEF P

LEMMA MatchedInto ==
  ASSUME NEW S, NEW T, IsFiniteSet(T), NEW f \in [S -> T],
         \A x, y \in S : f[x] = f[y] => x = y
  PROVE  /\ Cardinality(S) <= Cardinality(T)
         /\ (\A y \in T : \E x \in S : f[x] = y) => Cardinality(S) = Cardinality(T)
<1>1. f \in Injection(S, T)
  BY DEF Injection, IsInjective
<1>2. (\A y \in T : \E x \in S : f[x] = y) => f \in Surjection(S, T)
  BY DEF Surjection
<1> QED BY <1>1, <1>2, FS_Injection

\* How often a label is there after a merge: as often as in the list that has
\* it more often.
LEMMA MergeCountsLabels ==
  ASSUME NEW existing, ListOf(existing), NEW imported, ListOf(imported), NEW label
  PROVE  Count(MergeCustomFields(existing, imported), label)
           = IF Count(existing, label) >= Count(imported, label)
             THEN Count(existing, label) ELSE Count(imported, label)
<1> DEFINE N == Len(imported)
<1>1. PICK acc, slot : /\ MergeCustomFields(existing, imported) = acc.fields
                       /\ IsPairing(existing, imported, N, acc, slot)
  BY MergedIsPaired
<1> DEFINE A == {i \in DOMAIN existing : existing[i].label = label}
           B == {j \in DOMAIN imported : imported[j].label = label}
           C == {i \in DOMAIN acc.fields : acc.fields[i].label = label}
           f == [j \in B |-> slot[j]]
<1>2. /\ ListOf(acc.fields) /\ Len(acc.fields) >= Len(existing)
      /\ slot \in [1 .. N -> DOMAIN acc.fields]
      /\ acc.paired = {slot[j] : j \in 1 .. N}
      /\ \A j, k \in 1 .. N : slot[j] = slot[k] => j = k
      /\ \A i \in DOMAIN existing : acc.fields[i].label = existing[i].label
      /\ \A i \in DOMAIN acc.fields : i > Len(existing) => i \in acc.paired
      /\ \A j \in 1 .. N : acc.fields[slot[j]].label = imported[j].label
      /\ \A j \in 1 .. N : slot[j] > Len(existing) =>
            \A i \in DOMAIN existing : existing[i].label = imported[j].label => i \in acc.paired
  BY <1>1 DEF IsPairing
<1>3. /\ DOMAIN imported = 1 .. N
      /\ Len(existing) \in Nat /\ DOMAIN existing = 1 .. Len(existing)
      /\ Len(acc.fields) \in Nat /\ DOMAIN acc.fields = 1 .. Len(acc.fields)
  BY <1>2, ListsAreNumbered
<1>4. /\ Count(existing, label) = Cardinality(A) /\ Count(imported, label) = Cardinality(B)
      /\ Count(MergeCustomFields(existing, imported), label) = Cardinality(C)
  BY <1>1 DEF Count
<1>5. IsFiniteSet(C) /\ A \subseteq C /\ IsFiniteSet(A) /\ IsFiniteSet(B)
  <2>1. IsFiniteSet(C) /\ IsFiniteSet(B)
    BY <1>2, ListsAreFinite
  <2>2. A \subseteq C
    BY <1>2, <1>3
  <2> QED BY <2>1, <2>2, FS_Subset
<1>6. Cardinality(A) <= Cardinality(C) /\ (A = C => Cardinality(A) = Cardinality(C))
  BY <1>5, FS_Subset
<1>7. f \in [B -> C] /\ \A x, y \in B : f[x] = f[y] => x = y
  BY <1>2, <1>3
<1>8. \A i \in C : i \in acc.paired => \E j \in B : f[j] = i
  BY <1>2, <1>3
<1> HIDE DEF f
<1>9. /\ Cardinality(B) <= Cardinality(C)
      /\ (\A i \in C : \E j \in B : f[j] = i) => Cardinality(B) = Cardinality(C)
  BY <1>5, <1>7, MatchedInto
<1>10. Cardinality(A) \in Nat /\ Cardinality(B) \in Nat /\ Cardinality(C) \in Nat
  BY <1>5, FS_CardinalityType
<1>11. A = C \/ \A i \in C : \E j \in B : f[j] = i
  <2> SUFFICES ASSUME A # C PROVE \A i \in C : i \in acc.paired
    BY <1>8
  <2>1. PICK k \in C : k \notin A
    BY <1>5
  <2>2. k > Len(existing)
    BY <2>1, <1>2, <1>3
  <2>3. PICK j \in 1 .. N : slot[j] = k
    BY <2>1, <2>2, <1>2
  <2>4. imported[j].label = label
    BY <2>1, <2>3, <1>2
  <2>5. \A i \in A : i \in acc.paired
    BY <2>2, <2>3, <2>4, <1>2
  <2>6. ASSUME NEW i \in C, i \notin A
        PROVE  i \in acc.paired
    BY <2>6, <1>2, <1>3
  <2> QED BY <2>5, <2>6
<1> HIDE DEF A, B, C
<1> QED BY <1>4, <1>6, <1>9, <1>10, <1>11

\* No value is lost on either side: a value of the file is there after the
\* merge, a field of the entry too unless a value of the file took its place.
LEMMA MergeKeepsFields ==
  ASSUME NEW existing, ListOf(existing), NEW imported, ListOf(imported)
  PROVE  LET new == MergeCustomFields(existing, imported) IN
         /\ ListOf(new)
         /\ \A cf \in Range(imported) : cf.value # "" => cf \in Range(new)
         /\ \A cf \in Range(existing) :
               cf \in Range(new)
                 \/ \E in \in Range(imported) : in.label = cf.label /\ in.value # ""
<1> DEFINE N == Len(imported)
<1>1. PICK acc, slot : /\ MergeCustomFields(existing, imported) = acc.fields
                       /\ IsPairing(existing, imported, N, acc, slot)
  BY MergedIsPaired
<1>2. /\ ListOf(acc.fields) /\ Len(acc.fields) >= Len(existing)
      /\ slot \in [1 .. N -> DOMAIN acc.fields]
      /\ \A i \in DOMAIN existing : acc.fields[i].label = existing[i].label
      /\ \A j \in 1 .. N : acc.fields[slot[j]].label = imported[j].label
      /\ \A j \in 1 .. N : imported[j].value # "" => acc.fields[slot[j]] = imported[j]
      /\ \A i \in DOMAIN existing :
            acc.fields[i] = existing[i] \/ \E j \in 1 .. N : slot[j] = i /\ imported[j].value # ""
  BY <1>1 DEF IsPairing
<1>3. /\ DOMAIN imported = 1 .. N
      /\ Len(existing) \in Nat /\ DOMAIN existing = 1 .. Len(existing)
      /\ Len(acc.fields) \in Nat /\ DOMAIN acc.fields = 1 .. Len(acc.fields)
  BY <1>2, ListsAreNumbered
<1>4. ASSUME NEW cf \in Range(imported), cf.value # ""
      PROVE  cf \in Range(acc.fields)
  <2>1. PICK j \in 1 .. N : imported[j] = cf
    BY <1>3 DEF Range
  <2>2. slot[j] \in DOMAIN acc.fields /\ acc.fields[slot[j]] = cf
    BY <2>1, <1>4, <1>2
  <2> QED BY <2>2 DEF Range
<1>5. ASSUME NEW cf \in Range(existing)
      PROVE  cf \in Range(acc.fields)
               \/ \E in \in Range(imported) : in.label = cf.label /\ in.value # ""
  <2>1. PICK i \in DOMAIN existing : existing[i] = cf
    BY DEF Range
  <2>2. CASE acc.fields[i] = existing[i]
    <3>1. i \in DOMAIN acc.fields
      <4> DEFINE m == Len(existing)
                 k == Len(acc.fields)
      <4>1. i \in 1 .. m /\ m \in Nat /\ k \in Nat /\ k >= m
        BY <1>2, <1>3
      <4> HIDE DEF m, k
      <4>2. i \in 1 .. k
        BY <4>1
      <4> QED BY <4>2, <1>3 DEF k
    <3> QED BY <2>1, <2>2, <3>1 DEF Range
  <2>3. CASE \E j \in 1 .. N : slot[j] = i /\ imported[j].value # ""
    <3>1. PICK j \in 1 .. N : slot[j] = i /\ imported[j].value # ""
      BY <2>3
    <3>2. imported[j].label = cf.label /\ imported[j] \in Range(imported)
      BY <2>1, <3>1, <1>2, <1>3 DEF Range
    <3> QED BY <3>1, <3>2
  <2> QED BY <2>2, <2>3, <1>2
<1> QED BY <1>1, <1>2, <1>4, <1>5

-----------------------------------------------------------------------------
(***************************************************************************)
(* What an export holds of an entry.                                       *)
(***************************************************************************)

\* The place of an element of a finite set of numbers is its own.
LEMMA PlacesDiffer ==
  ASSUME NEW P, P \subseteq Nat, IsFiniteSet(P), NEW i \in P, NEW j \in P,
         Cardinality({k \in P : k <= i}) = Cardinality({k \in P : k <= j})
  PROVE  i = j
<1>1. ASSUME NEW a \in P, NEW b \in P, a < b
      PROVE  Cardinality({k \in P : k <= a}) # Cardinality({k \in P : k <= b})
  <2> DEFINE A == {k \in P : k <= a}
             B == {k \in P : k <= b}
  <2>0. a \in Nat /\ b \in Nat
    OBVIOUS
  <2>1. A \subseteq B /\ b \in B /\ b \notin A
    <3>1. \A k \in P : k \in Nat /\ (k <= a => k <= b)
      BY <1>1, <2>0
    <3>2. A \subseteq B
      BY <3>1
    <3>3. ~(b <= a) /\ b <= b
      BY <1>1, <2>0
    <3>4. b \in B /\ b \notin A
      BY <3>3
    <3> QED BY <3>2, <3>4
  <2>2. IsFiniteSet(B)
    <3>1. B \subseteq P
      OBVIOUS
    <3> HIDE DEF B
    <3> QED BY <3>1, FS_Subset
  <2> HIDE DEF A, B
  <2>3. Cardinality(A) # Cardinality(B)
    BY <2>1, <2>2, FS_Subset
  <2> QED BY <2>3 DEF A, B
<1>2. i < j \/ j < i \/ i = j
  OBVIOUS
<1> QED BY <1>1, <1>2

\* Picking leaves out nothing it was to pick.
LEMMA PickedWhole ==
  ASSUME NEW s, ListOf(s), NEW P, P \subseteq DOMAIN s, NEW i \in P
  PROVE  s[i] \in Range(Picked(s, P))
<1> DEFINE place(j) == Cardinality({k \in P : k <= j})
           n == place(i)
           found == CHOOSE j \in P : place(j) = n
<1>1. IsFiniteSet(P) /\ P \subseteq Nat
  BY ListsAreFinite, ListsAreNumbered
<1>2. found \in P /\ place(found) = n
  OBVIOUS
<1>3. found = i
  BY <1>1, <1>2, PlacesDiffer
<1>4. n \in 1 .. Cardinality(P)
  <2> DEFINE A == {k \in P : k <= i}
  <2>1. A \subseteq P /\ i \in A
    BY <1>1
  <2> HIDE DEF A
  <2>2. IsFiniteSet(A) /\ Cardinality(A) <= Cardinality(P)
    BY <1>1, <2>1, FS_Subset
  <2>3. Cardinality(A) # 0 /\ Cardinality(A) \in Nat /\ Cardinality(P) \in Nat
    BY <1>1, <2>1, <2>2, FS_EmptySet, FS_CardinalityType
  <2> QED BY <2>2, <2>3 DEF A
<1>5. Picked(s, P) = [m \in 1 .. Cardinality(P) |-> s[CHOOSE j \in P : place(j) = m]]
  BY DEF Picked
<1>6. Picked(s, P)[n] = s[found]
  BY <1>4, <1>5
<1>7. n \in DOMAIN Picked(s, P)
  BY <1>4, <1>5
<1> HIDE DEF n, found
<1> QED BY <1>3, <1>6, <1>7 DEF Range

\* Nor does it pick anything else.
LEMMA PickedOnes ==
  ASSUME NEW s, NEW P, P \subseteq Nat, IsFiniteSet(P), NEW n \in 1 .. Cardinality(P)
  PROVE  Picked(s, P)[n] \in {s[i] : i \in P}
<1> DEFINE place(i) == Cardinality({j \in P : j <= i})
           m == Cardinality(P)
           f == [i \in P |-> place(i)]
<1>1. m \in Nat /\ IsFiniteSet(1 .. m) /\ Cardinality(1 .. m) = m
  BY FS_CardinalityType, FS_Interval
<1>2. ASSUME NEW i \in P
      PROVE  place(i) \in 1 .. m
  <2> DEFINE A == {j \in P : j <= i}
  <2>1. A \subseteq P /\ i \in A
    OBVIOUS
  <2> HIDE DEF A
  <2>2. IsFiniteSet(A) /\ Cardinality(A) <= m
    BY <2>1, FS_Subset
  <2>3. Cardinality(A) # 0 /\ Cardinality(A) \in Nat
    BY <2>1, <2>2, FS_EmptySet, FS_CardinalityType
  <2> QED BY <1>1, <2>2, <2>3 DEF A
<1>3. \A i, j \in P : place(i) = place(j) => i = j
  BY PlacesDiffer
<1> HIDE DEF place
<1>4. f \in Injection(P, 1 .. m)
  BY <1>2, <1>3 DEF Injection, IsInjective
<1> HIDE DEF f
<1>5. f \in Surjection(P, 1 .. m)
  BY <1>1, <1>4, FS_Injection
<1>6. PICK i \in P : f[i] = n
  BY <1>5 DEF Surjection
<1>7. place(i) = n
  BY <1>6 DEF f
<1> DEFINE found == CHOOSE j \in P : place(j) = n
<1>8. found \in P
  BY <1>7
<1>9. Picked(s, P) = [k \in 1 .. m |-> s[CHOOSE j \in P : place(j) = k]]
  BY DEF Picked, place
<1>10. Picked(s, P)[n] = s[found]
  BY <1>9
<1> HIDE DEF found
<1> QED BY <1>8, <1>10

LEMMA ImagesAreFinite ==
  ASSUME NEW D, IsFiniteSet(D), NEW f, DOMAIN f = D
  PROVE  IsFiniteSet({f[k] : k \in D})
<1> DEFINE g == [k \in D |-> f[k]]
           S == {f[k] : k \in D}
<1>1. g \in Surjection(D, S)
  BY DEF Surjection
<1> HIDE DEF g, S
<1>2. IsFiniteSet(S)
  BY <1>1, FS_Surjection
<1> QED BY <1>2 DEF S

LEMMA FiveAreFinite ==
  ASSUME NEW a, NEW b, NEW c, NEW d, NEW e
  PROVE  IsFiniteSet({a, b, c, d, e})
<1>1. IsFiniteSet({a})
  BY FS_Singleton
<1>2. IsFiniteSet({a} \cup {b})
  BY <1>1, FS_AddElement
<1>3. IsFiniteSet(({a} \cup {b}) \cup {c})
  BY <1>2, FS_AddElement
<1>4. IsFiniteSet((({a} \cup {b}) \cup {c}) \cup {d})
  BY <1>3, FS_AddElement
<1>5. IsFiniteSet(((({a} \cup {b}) \cup {c}) \cup {d}) \cup {e})
  BY <1>4, FS_AddElement
<1>6. {a, b, c, d, e} = ((({a} \cup {b}) \cup {c}) \cup {d}) \cup {e}
  OBVIOUS
<1> QED BY <1>5, <1>6

LEMMA KeyedFieldsAreFinite == IsFiniteSet(KeyedFields)
<1> DEFINE A == {"url", "username", "password", "totp_secret", "sign_in_with"}
           B == {"issuer", "period", "digits", "algorithm", "algorithm"}
           C == {"title", "first_name", "last_name", "company", "email"}
           D == {"phone", "street", "city", "state", "postal_code"}
           E == {"country", "country", "country", "country", "country"}
<1>1. IsFiniteSet(A) /\ IsFiniteSet(B) /\ IsFiniteSet(C) /\ IsFiniteSet(D) /\ IsFiniteSet(E)
  BY FiveAreFinite
<1>2. IsFiniteSet(CardKeys) /\ IsFiniteSet(LicenseKeys) /\ IsFiniteSet(BankKeys)
  BY FiveAreFinite DEF CardKeys, LicenseKeys, BankKeys
<1>3. /\ LoginKeys \cup CodeOptions \cup {"sign_in_with"} = A \cup B
      /\ IdentityKeys = C \cup D \cup E
  BY DEF LoginKeys, CodeOptions, IdentityKeys
<1>4. KeyedFields = (((((A \cup B) \cup C) \cup D) \cup E)
                       \cup CardKeys) \cup (LicenseKeys \cup BankKeys)
  BY <1>3 DEF KeyedFields
<1> HIDE DEF A, B, C, D, E
<1>5. /\ IsFiniteSet(A \cup B) /\ IsFiniteSet((A \cup B) \cup C)
      /\ IsFiniteSet(LicenseKeys \cup BankKeys)
  BY <1>1, <1>2, FS_Union
<1>6. IsFiniteSet((((A \cup B) \cup C) \cup D) \cup E)
  BY <1>1, <1>5, FS_Union
<1> QED BY <1>2, <1>4, <1>5, <1>6, FS_Union

LEMMA FiveJoined ==
  ASSUME NEW a, NEW b, NEW c, NEW d, NEW e,
         ListOf(a), ListOf(b), ListOf(c), ListOf(d), ListOf(e)
  PROVE  LET s == a \o b \o c \o d \o e IN
         /\ ListOf(s)
         /\ Range(s) = Range(a) \cup Range(b) \cup Range(c) \cup Range(d) \cup Range(e)
<1>1. PICK ab : ab = a \o b
  OBVIOUS
<1>2. ListOf(ab) /\ Range(ab) = Range(a) \cup Range(b)
  BY <1>1, ListsJoined
<1>3. PICK abc : abc = ab \o c
  OBVIOUS
<1>4. ListOf(abc) /\ Range(abc) = Range(ab) \cup Range(c)
  BY <1>2, <1>3, ListsJoined
<1>5. PICK abcd : abcd = abc \o d
  OBVIOUS
<1>6. ListOf(abcd) /\ Range(abcd) = Range(abc) \cup Range(d)
  BY <1>4, <1>5, ListsJoined
<1>7. PICK s : s = abcd \o e
  OBVIOUS
<1>8. ListOf(s) /\ Range(s) = Range(abcd) \cup Range(e)
  BY <1>6, <1>7, ListsJoined
<1>9. s = a \o b \o c \o d \o e
  BY <1>1, <1>3, <1>5, <1>7, Zenon
<1>10. Range(s) = Range(a) \cup Range(b) \cup Range(c) \cup Range(d) \cup Range(e)
  BY <1>2, <1>4, <1>6, <1>8
<1> QED BY <1>8, <1>9, <1>10, Zenon

\* What ExportCSV counts as left out is what its row lacks.
LEMMA CountedIsLacking ==
  ASSUME NEW e
  PROVE  CSVLeftOut(e) = LacksOf(CSVRow(e), e)
<1> DEFINE cells == [i \in 1 .. 5 |-> Get(e.data, GenericColumns[i])]
           lacking == {k \in DOMAIN e.data \cap KeyedFields :
                         ~\E i \in DOMAIN CSVRow(e).cells :
                            GenericColumns[i] = k /\ CSVRow(e).cells[i] = e.data[k]}
<1>1. CSVRow(e).cells = cells
  BY DEF CSVRow
<1>2. ASSUME NEW k \in DOMAIN e.data \cap KeyedFields
      PROVE  (\E i \in 1 .. 5 : GenericColumns[i] = k /\ cells[i] = e.data[k]) <=> k \in CSVKeys
  <2>1. /\ GenericColumns[1] = "name" /\ GenericColumns[2] = "url" /\ GenericColumns[3] = "username"
        /\ GenericColumns[4] = "password" /\ GenericColumns[5] = "notes"
    BY DEF GenericColumns
  <2>2. k # "name" /\ k # "notes"
    BY DEF KeyedFields, LoginKeys, CardKeys, IdentityKeys, LicenseKeys, BankKeys, CodeOptions
  <2>3. \A i \in 1 .. 5 : GenericColumns[i] = k => cells[i] = e.data[k]
    BY DEF Get
  <2> HIDE DEF cells
  <2>4. (\E i \in 1 .. 5 : GenericColumns[i] = k) <=> k \in CSVKeys
    <3>1. \A i \in 1 .. 5 : i = 1 \/ i = 2 \/ i = 3 \/ i = 4 \/ i = 5
      OBVIOUS
    <3>2. k \in CSVKeys <=> k = "url" \/ k = "username" \/ k = "password"
      BY DEF CSVKeys
    <3> QED BY <2>1, <2>2, <3>1, <3>2
  <2> QED BY <2>3, <2>4
<1>3. DOMAIN cells = 1 .. 5
  OBVIOUS
<1> HIDE DEF cells
<1>4. lacking = {k \in DOMAIN e.data \cap KeyedFields : k \notin CSVKeys}
  BY <1>1, <1>2, <1>3
<1>5. DOMAIN FieldsOutside(e, CSVKeys) = {k \in DOMAIN e.data \cap KeyedFields : k \notin CSVKeys}
  BY DEF FieldsOutside, Only
<1>6. LacksOf(CSVRow(e), e) = Cardinality(lacking) + Len(e.custom) + Cardinality(DOMAIN e.extra)
  BY DEF LacksOf
<1> HIDE DEF lacking
<1> QED BY <1>4, <1>5, <1>6 DEF CSVLeftOut

LEMMA FieldParts ==
  ASSUME NEW name, NEW value, NEW h
  PROVE  LET f == Field(name, value, h)
         IN  f.name = name /\ f.value = value /\ f.hidden = h
BY DEF Field

\* A custom field is one of the item, masked if its kind is not a plain one.
LEMMA CustomIsAField ==
  ASSUME NEW cf
  PROVE  /\ FieldOfCustom(cf).name \in {cf.label, cf.filename}
         /\ FieldOfCustom(cf).value = cf.value
         /\ CustomKind(cf.kind) \notin PlainKinds => FieldOfCustom(cf).hidden
<1> DEFINE name == IF cf.filename = "" THEN cf.label ELSE cf.filename
           mime == IF cf.mime = "" THEN "generic" ELSE cf.mime
           tags == IF name = TagsField THEN <<[word |-> cf.value, spelling |-> "clean"]>> ELSE << >>
           plain == CustomKind(cf.kind) \notin PlainKinds
<1>1. CASE cf.kind = "file"
  <2>1. FieldOfCustom(cf) = [Field(name, cf.value, TRUE) EXCEPT !.uri = TRUE, !.mime = mime]
    BY <1>1 DEF FieldOfCustom
  <2>2. name \in {cf.label, cf.filename}
    OBVIOUS
  <2>3. Field(name, cf.value, TRUE) = [name |-> name, value |-> cf.value, hidden |-> TRUE,
                                       uri |-> FALSE, mime |-> "", tags |-> tags]
    BY DEF Field
  <2> HIDE DEF name, mime, tags
  <2>4. PICK f : f = Field(name, cf.value, TRUE)
    OBVIOUS
  <2>5. FieldOfCustom(cf) = [f EXCEPT !.uri = TRUE, !.mime = mime]
    BY <2>1, <2>4, Zenon
  <2>6. f = [name |-> name, value |-> cf.value, hidden |-> TRUE, uri |-> FALSE, mime |-> "",
             tags |-> tags]
    BY <2>3, <2>4, Zenon
  <2>7. FieldOfCustom(cf).name = name /\ FieldOfCustom(cf).value = cf.value
        /\ FieldOfCustom(cf).hidden = TRUE
    BY <2>5, <2>6
  <2> QED BY <2>2, <2>7
<1>2. CASE cf.kind # "file"
  <2>1. FieldOfCustom(cf) = Field(cf.label, cf.value, plain)
    BY <1>2 DEF FieldOfCustom
  <2> HIDE DEF plain
  <2>2. PICK h : h = plain
    OBVIOUS
  <2>3. FieldOfCustom(cf) = Field(cf.label, cf.value, h)
    BY <2>1, <2>2, Zenon
  <2>4. /\ FieldOfCustom(cf).name = cf.label /\ FieldOfCustom(cf).value = cf.value
        /\ FieldOfCustom(cf).hidden = h
    BY <2>3, FieldParts
  <2> QED BY <2>2, <2>4 DEF plain
<1> QED BY <1>1, <1>2

LEMMA OneIsAList ==
  /\ ListOf(<< >>)
  /\ \A x : ListOf(<<x>>) /\ x \in Range(<<x>>) /\ Range(<<x>>) = {x} /\ Range(<< >>) = {}
<1>1. \A x : <<x>> \in Seq({x}) /\ << >> \in Seq({x})
  OBVIOUS
<1>2. \A x : 1 \in DOMAIN <<x>> /\ <<x>>[1] = x
  OBVIOUS
<1>3. \A x : DOMAIN <<x>> = {1} /\ DOMAIN << >> = {}
  OBVIOUS
<1>4. \A x : Range(<<x>>) = {x} /\ Range(<< >>) = {}
  BY <1>2, <1>3 DEF Range
<1> QED BY <1>1, <1>2, <1>4 DEF ListOf, Range

LEMMA PickedFrom ==
  ASSUME NEW s, ListOf(s), NEW P, P \subseteq DOMAIN s
  PROVE  ListOf(Picked(s, P))
BY ListsAreFinite, ListsPicked

LEMMA PickedAre ==
  ASSUME NEW s, ListOf(s), NEW P, P \subseteq DOMAIN s
  PROVE  /\ ListOf(Picked(s, P))
         /\ \A n \in DOMAIN Picked(s, P) : Picked(s, P)[n] \in {s[i] : i \in P}
<1>1. IsFiniteSet(P) /\ P \subseteq Nat
  BY ListsAreFinite, ListsAreNumbered
<1>2. DOMAIN Picked(s, P) = 1 .. Cardinality(P)
  BY DEF Picked
<1> QED BY <1>1, <1>2, PickedOnes, ListsPicked

\* The fields of an item: the custom ones, a keyed one for what has no place, the
\* type where there is none for it, the unknown keys, and the tags.
KeyedOnes(e) ==
  {Field(k, FieldsOutside(e, PlacedKeys(e.type))[k], k \in SecretKeys) :
     k \in DOMAIN FieldsOutside(e, PlacedKeys(e.type))}
UnknownOnes(e) == {Field(k, e.extra[k], TRUE) : k \in DOMAIN e.extra}
TypeOnes(e) ==
  IF BitwardenType(e.type) = "login" /\ e.type \notin {"", "password", "totp"}
  THEN {Field("type", e.type, FALSE)} ELSE {}
TagOnes(e) ==
  IF e.tags # << >> THEN {[Field(TagsField, "", FALSE) EXCEPT !.tags = e.tags]} ELSE {}

LEMMA BitwardenParts ==
  ASSUME NEW e, ListOf(e.custom), IsFiniteSet(DOMAIN e.extra)
  PROVE  LET item == BitwardenItem(e, TRUE)
         IN  /\ item.type = BitwardenType(e.type) /\ item.name = Get(e.data, "name")
             /\ item.notes = Get(e.data, "notes") /\ item.slots = Only(e.data, PlacedKeys(e.type))
             /\ ListOf(item.fields)
             /\ Range(item.fields) = {FieldOfCustom(cf) : cf \in Range(e.custom)} \cup KeyedOnes(e)
                                        \cup TypeOnes(e) \cup UnknownOnes(e) \cup TagOnes(e)
<1> DEFINE item == BitwardenItem(e, TRUE)
           P == {i \in DOMAIN e.custom : TRUE \/ e.custom[i].kind # "file"}
           written == Picked(e.custom, P)
           placed == PlacedKeys(e.type)
           outside == FieldsOutside(e, placed)
           kind == BitwardenType(e.type)
           keyed == {Field(k, outside[k], k \in SecretKeys) : k \in DOMAIN outside}
           unknown == {Field(k, e.extra[k], TRUE) : k \in DOMAIN e.extra}
           a == [i \in DOMAIN written |-> FieldOfCustom(written[i])]
           b == Listed(keyed)
           c == IF kind = "login" /\ e.type \notin {"", "password", "totp"}
                THEN <<Field("type", e.type, FALSE)>> ELSE << >>
           d == Listed(unknown)
           t == IF e.tags # << >> THEN <<[Field(TagsField, "", FALSE) EXCEPT !.tags = e.tags]>>
                ELSE << >>
           s == a \o b \o c \o d \o t
<1>1. item = [type |-> kind, name |-> Get(e.data, "name"), notes |-> Get(e.data, "notes"),
              slots |-> Only(e.data, placed), fields |-> s, path |-> << >>]
  BY Zenon DEF BitwardenItem, Where
<1> HIDE DEF s
<1>2. /\ item.type = kind /\ item.name = Get(e.data, "name") /\ item.notes = Get(e.data, "notes")
      /\ item.slots = Only(e.data, placed) /\ item.fields = s
  <2> DEFINE slots == Only(e.data, placed)
             name == Get(e.data, "name")
             notes == Get(e.data, "notes")
  <2> HIDE DEF slots, name, notes, kind
  <2>1. item = [type |-> kind, name |-> name, notes |-> notes, slots |-> slots, fields |-> s,
                path |-> << >>]
    BY <1>1 DEF slots, name, notes
  <2> HIDE DEF item
  <2>2. item.type = kind /\ item.name = name /\ item.notes = notes /\ item.slots = slots /\ item.fields = s
    BY <2>1
  <2> QED BY <2>2 DEF slots, name, notes, item
<1>3. ListOf(written) /\ Range(e.custom) = Range(written)
  <2>1. P = DOMAIN e.custom
    OBVIOUS
  <2> HIDE DEF P
  <2>2. IsFiniteSet(P)
    BY <2>1, ListsAreFinite
  <2>3. ListOf(written) /\ \A n \in DOMAIN written : written[n] \in {e.custom[i] : i \in P}
    BY <2>1, PickedAre
  <2>4. \A i \in DOMAIN e.custom : e.custom[i] \in Range(written)
    BY <2>1, PickedWhole
  <2> HIDE DEF written
  <2>5. Range(e.custom) = Range(written)
    BY <2>1, <2>3, <2>4 DEF Range
  <2> QED BY <2>3, <2>5
<1> HIDE DEF written
<1>4. ListOf(a) /\ Range(a) = {FieldOfCustom(cf) : cf \in Range(e.custom)}
  <2>1. ListOf(a) /\ DOMAIN a = DOMAIN written
    BY <1>3, ListsMapped
  <2>2. Range(a) = {FieldOfCustom(cf) : cf \in Range(written)}
    BY <2>1 DEF Range
  <2> QED BY <2>1, <2>2, <1>3
<1>5. IsFiniteSet(keyed) /\ IsFiniteSet(unknown)
  <2> DEFINE f == [k \in DOMAIN outside |-> Field(k, outside[k], k \in SecretKeys)]
             g == [k \in DOMAIN e.extra |-> Field(k, e.extra[k], TRUE)]
  <2>1. DOMAIN outside \subseteq KeyedFields
    BY DEF FieldsOutside, Only
  <2>2. IsFiniteSet(DOMAIN outside)
    BY <2>1, KeyedFieldsAreFinite, FS_Subset
  <2>3. keyed = {f[k] : k \in DOMAIN outside} /\ unknown = {g[k] : k \in DOMAIN e.extra}
    OBVIOUS
  <2>4. DOMAIN f = DOMAIN outside /\ DOMAIN g = DOMAIN e.extra
    OBVIOUS
  <2> HIDE DEF f, g, keyed, unknown, outside
  <2>5. IsFiniteSet({f[k] : k \in DOMAIN outside}) /\ IsFiniteSet({g[k] : k \in DOMAIN e.extra})
    BY <2>2, <2>4, ImagesAreFinite
  <2> QED BY <2>3, <2>5
<1>6. KeyedOnes(e) = keyed /\ UnknownOnes(e) = unknown
  BY DEF KeyedOnes, UnknownOnes
<1> HIDE DEF keyed, unknown
<1>7. ListOf(b) /\ Range(b) = keyed /\ ListOf(d) /\ Range(d) = unknown
  BY <1>5, ListedWhole
<1>8. /\ ListOf(c) /\ Range(c) = TypeOnes(e)
      /\ ListOf(t) /\ Range(t) = TagOnes(e)
  BY OneIsAList DEF TypeOnes, TagOnes
<1> HIDE DEF a, b, c, d, t
<1>9. ListOf(s) /\ Range(s) = Range(a) \cup Range(b) \cup Range(c) \cup Range(d) \cup Range(t)
  BY <1>4, <1>7, <1>8, FiveJoined DEF s
<1> HIDE DEF s, item, kind
<1>10. /\ ListOf(item.fields)
       /\ Range(item.fields) = {FieldOfCustom(cf) : cf \in Range(e.custom)} \cup KeyedOnes(e)
                                 \cup TypeOnes(e) \cup UnknownOnes(e) \cup TagOnes(e)
  BY <1>2, <1>4, <1>6, <1>7, <1>8, <1>9
<1> QED BY <1>2, <1>10 DEF item, kind

\* An item of a Bitwarden export has everything there is in the entry.
LEMMA BitwardenHoldsAll ==
  ASSUME NEW e, ListOf(e.custom), IsFiniteSet(DOMAIN e.extra)
  PROVE  HoldsAll(BitwardenItem(e, TRUE), e)
<1> DEFINE item == BitwardenItem(e, TRUE)
           placed == PlacedKeys(e.type)
           outside == FieldsOutside(e, placed)
<1>1. /\ item.name = Get(e.data, "name") /\ item.notes = Get(e.data, "notes")
      /\ item.slots = Only(e.data, placed)
      /\ {FieldOfCustom(cf) : cf \in Range(e.custom)} \subseteq Range(item.fields)
      /\ KeyedOnes(e) \subseteq Range(item.fields) /\ TypeOnes(e) \subseteq Range(item.fields)
      /\ UnknownOnes(e) \subseteq Range(item.fields)
  BY BitwardenParts
<1> HIDE DEF item
<1>2. ASSUME NEW k \in DOMAIN e.data \cap KeyedFields
      PROVE  \/ Get(item.slots, k) = e.data[k]
             \/ InField(item, {k}, e.data[k], k \in SecretKeys)
  <2>1. CASE k \in placed
    BY <2>1, <1>1 DEF Only, Get
  <2>2. CASE k \notin placed
    <3> DEFINE f == Field(k, e.data[k], k \in SecretKeys)
    <3>1. k \in DOMAIN outside /\ outside[k] = e.data[k]
      BY <2>2 DEF FieldsOutside, Only
    <3>2. f \in Range(item.fields)
      BY <3>1, <1>1 DEF KeyedOnes
    <3>3. f.name = k /\ f.value = e.data[k] /\ f.hidden = (k \in SecretKeys)
      BY DEF Field
    <3> QED BY <3>2, <3>3 DEF InField
  <2> QED BY <2>1, <2>2
<1>3. ASSUME NEW cf \in Range(e.custom)
      PROVE  InField(item, {cf.label, cf.filename}, cf.value, CustomKind(cf.kind) \notin PlainKinds)
  <2>1. FieldOfCustom(cf) \in Range(item.fields)
    BY <1>1
  <2> QED BY <2>1, CustomIsAField DEF InField
<1>4. ASSUME NEW k \in DOMAIN e.extra
      PROVE  InField(item, {k}, e.extra[k], TRUE)
  <2> DEFINE f == Field(k, e.extra[k], TRUE)
  <2>1. f \in Range(item.fields)
    BY <1>1 DEF UnknownOnes
  <2>2. f.name = k /\ f.value = e.extra[k] /\ f.hidden = TRUE
    BY DEF Field
  <2> QED BY <2>1, <2>2 DEF InField
<1>5. \/ e.type \in {"", "password", "totp"} \/ BitwardenType(e.type) # "login"
      \/ InField(item, {"type"}, e.type, FALSE)
  <2> DEFINE f == Field("type", e.type, FALSE)
  <2>1. f.name = "type" /\ f.value = e.type
    BY DEF Field
  <2> HIDE DEF f
  <2>2. TypeOnes(e) = {f} \/ e.type \in {"", "password", "totp"} \/ BitwardenType(e.type) # "login"
    BY DEF TypeOnes, f
  <2> QED BY <2>1, <2>2, <1>1 DEF InField
<1> QED BY <1>1, <1>2, <1>3, <1>4, <1>5 DEF HoldsAll, Name, item

-----------------------------------------------------------------------------
(***************************************************************************)
(* What an import makes of an item: a record with a name and a list of     *)
(* fields.                                                                 *)
(***************************************************************************)

RecordFields == EntryFields \ {"trashed"}

LEMMA RecordParts ==
  ASSUME NEW type, NEW data, NEW custom, NEW tags, NEW path
  PROVE  LET rec == Record(type, data, custom, tags, path)
         IN  /\ DOMAIN rec = RecordFields
             /\ rec.type = type /\ rec.data = data /\ rec.custom = custom /\ rec.extra = NoData
             /\ rec.tags = tags
BY DEF Record, RecordFields, EntryFields

LEMMA SkippedType == Skipped.type = "skipped"
BY DEF Skipped

\* A record without a name gets its fallback or is skipped.
LEMMA NamedHasAName ==
  ASSUME NEW rec, DOMAIN rec = RecordFields, NEW fallback, Named(rec, fallback).type # "skipped"
  PROVE  /\ Named(rec, fallback).custom = rec.custom /\ Named(rec, fallback).tags = rec.tags
         /\ "name" \in DOMAIN Named(rec, fallback).data
<1> DEFINE data == [name |-> fallback] ++ rec.data
<1>1. CASE "name" \in DOMAIN rec.data
  BY <1>1 DEF Named
<1>2. CASE "name" \notin DOMAIN rec.data
  <2>1. fallback # ""
    BY <1>2 DEF Named, Skipped
  <2>2. Named(rec, fallback) = [rec EXCEPT !.data = data]
    BY <1>2, <2>1 DEF Named, RecordFields, EntryFields
  <2>3. "name" \in DOMAIN data
    BY DEF ++
  <2> HIDE DEF data
  <2>4. /\ Named(rec, fallback).data = data /\ Named(rec, fallback).custom = rec.custom
        /\ Named(rec, fallback).tags = rec.tags
    BY <2>2 DEF RecordFields, EntryFields
  <2> QED BY <2>3, <2>4
<1> QED BY <1>1, <1>2

\* A record that is named is one with the list of fields it was given.
LEMMA NamedRecord ==
  ASSUME NEW type, NEW data, NEW custom, NEW tags, NEW path, NEW fallback, ListOf(custom),
         ListOf(tags), NEW rec, rec = Named(Record(type, data, custom, tags, path), fallback),
         rec.type # "skipped"
  PROVE  ListOf(rec.custom) /\ ListOf(rec.tags) /\ "name" \in DOMAIN rec.data
BY RecordParts, NamedHasAName

\* The tags in a cell or a field come back as a list, without the blank ones.
LEMMA SplitLists ==
  ASSUME NEW tags, ListOf(tags)
  PROVE  /\ ListOf(SplitTags(tags)) /\ Words(SplitTags(tags)) = Words(tags)
<1> DEFINE blank == [word |-> "", spelling |-> "clean"]
           P == {i \in DOMAIN tags : tags[i] # blank}
           split == Picked(tags, P)
<1>1. SplitTags(tags) = split
  BY Zenon DEF SplitTags, Where
<1>2. /\ ListOf(split) /\ \A n \in DOMAIN split : split[n] \in {tags[i] : i \in P}
      /\ \A i \in P : tags[i] \in Range(split)
  BY PickedAre, PickedWhole
<1>3. blank.word = ""
  OBVIOUS
<1> HIDE DEF split, blank
<1>4. Range(split) = Range(tags) \ {blank}
  BY <1>2 DEF Range
<1>5. Words(split) = Words(tags)
  BY <1>3, <1>4 DEF Words
<1> QED BY <1>1, <1>2, <1>5

\* What a field of an item gives to the tags of the record.
ReadTags(f) == IF f.name = TagsField THEN SplitTags(f.tags) ELSE << >>

\* Lists put one after the other hold what each of them holds.
LEMMA FlattenedLists ==
  ASSUME NEW seqs, ListOf(seqs), \A i \in DOMAIN seqs : ListOf(seqs[i])
  PROVE  /\ ListOf(FlattenSeq(seqs))
         /\ Range(FlattenSeq(seqs)) = UNION {Range(seqs[i]) : i \in DOMAIN seqs}
<1>1. PICK N \in Nat : N = Len(seqs) /\ DOMAIN seqs = 1 .. N
  BY ListsAreNumbered
<1>2. CASE N = 0
  <2>1. FlattenSeq(seqs) = seqs /\ DOMAIN seqs = {}
    BY <1>1, <1>2 DEF FlattenSeq
  <2> QED BY <2>1 DEF Range
<1>3. CASE N # 0
  <2> DEFINE IsFlat(f, m) == f = [n \in 1 .. m |-> IF n = 1 THEN seqs[n] ELSE f[n - 1] \o seqs[n]]
             T == {m \in Nat : \E f : IsFlat(f, m)}
  <2>1. 0 \in T
    <3>1. IsFlat([n \in 1 .. 0 |-> seqs[n]], 0)
      OBVIOUS
    <3> QED BY <3>1
  <2>2. ASSUME NEW m \in Nat, m \in T
        PROVE  m + 1 \in T
    <3>1. PICK f : IsFlat(f, m)
      BY <2>2
    <3> DEFINE last == IF m + 1 = 1 THEN seqs[m + 1] ELSE f[m] \o seqs[m + 1]
               g == [n \in 1 .. m + 1 |-> IF n = m + 1 THEN last ELSE f[n]]
    <3>l. last = IF m + 1 = 1 THEN seqs[m + 1] ELSE f[m] \o seqs[m + 1]
      OBVIOUS
    <3> HIDE DEF last
    <3>2. \A n \in 1 .. m : f[n] = IF n = 1 THEN seqs[n] ELSE f[n - 1] \o seqs[n]
      BY <3>1
    <3>3. ASSUME NEW n \in 1 .. m + 1
          PROVE  g[n] = IF n = 1 THEN seqs[n] ELSE g[n - 1] \o seqs[n]
      <4>1. CASE n = 1
        BY <4>1, <3>l, <3>2
      <4>2. CASE n \in 2 .. m
        <5>1. g[n] = f[n] /\ g[n - 1] = f[n - 1] /\ n # 1 /\ n \in 1 .. m
          BY <4>2
        <5> HIDE DEF g
        <5>2. f[n] = f[n - 1] \o seqs[n]
          BY <5>1, <3>2
        <5> QED BY <5>1, <5>2
      <4>3. CASE n = m + 1 /\ n # 1
        <5>1. g[n] = last /\ g[n - 1] = f[m] /\ n # 1
          BY <4>3
        <5> HIDE DEF g
        <5>2. last = f[m] \o seqs[n]
          BY <4>3, <3>l
        <5> QED BY <5>1, <5>2
      <4> QED BY <4>1, <4>2, <4>3
    <3>4. IsFlat(g, m + 1)
      BY <3>3
    <3> HIDE DEF g, IsFlat
    <3>5. \E h : IsFlat(h, m + 1)
      BY <3>4
    <3> QED BY <3>5
  <2> HIDE DEF T
  <2>3. \E f : IsFlat(f, N)
    <3>1. N \in T
      BY <2>1, <2>2, Induction
    <3> QED BY <3>1 DEF T
  <2> DEFINE g == CHOOSE f : IsFlat(f, N)
             Flat(s, m) == ListOf(s) /\ Range(s) = UNION {Range(seqs[i]) : i \in 1 .. m}
             P == {n \in Nat : n \in 1 .. N => Flat(g[n], n)}
  <2>4. IsFlat(g, N)
    BY <2>3
  <2>5. FlattenSeq(seqs) = g[N]
    BY <1>1, <1>3 DEF FlattenSeq
  <2> HIDE DEF g
  <2>6. \A n \in 1 .. N : g[n] = IF n = 1 THEN seqs[n] ELSE g[n - 1] \o seqs[n]
    BY <2>4
  <2>7. ASSUME NEW n \in Nat, n \in P
        PROVE  n + 1 \in P
    <3> SUFFICES ASSUME n + 1 \in 1 .. N
                 PROVE  Flat(g[n + 1], n + 1)
      OBVIOUS
    <3>1. CASE n = 0
      <4>1. g[n + 1] = seqs[1] /\ 1 .. n + 1 = {1}
        BY <3>1, <2>6
      <4>2. ListOf(seqs[1])
        BY <1>1, <3>1
      <4> QED BY <4>1, <4>2
    <3>2. CASE n # 0
      <4> DEFINE u == g[n]
                 v == seqs[n + 1]
      <4>1. Flat(u, n)
        BY <3>2, <2>7
      <4>2. g[n + 1] = u \o v
        <5>1. g[n + 1] = IF n + 1 = 1 THEN seqs[n + 1] ELSE g[(n + 1) - 1] \o seqs[n + 1]
          BY <2>6
        <5>2. n + 1 # 1 /\ (n + 1) - 1 = n
          BY <3>2
        <5> QED BY <5>1, <5>2
      <4>3. ListOf(v) /\ v = seqs[n + 1]
        BY <1>1
      <4> HIDE DEF u, v
      <4>4. ListOf(u \o v) /\ Range(u \o v) = Range(u) \cup Range(v)
        BY <4>1, <4>3, ListsJoined
      <4>5. 1 .. n + 1 = (1 .. n) \cup {n + 1}
        OBVIOUS
      <4> DEFINE U(m) == UNION {Range(seqs[i]) : i \in 1 .. m}
      <4>6. \A x : x \in U(n + 1) <=> x \in U(n) \/ x \in Range(seqs[n + 1])
        BY <4>5
      <4> HIDE DEF U
      <4>7. Range(g[n + 1]) = U(n + 1) /\ ListOf(g[n + 1])
        BY <4>1, <4>2, <4>3, <4>4, <4>6 DEF U
      <4> QED BY <4>7 DEF U
    <3> QED BY <3>1, <3>2
  <2>8. 0 \in P
    OBVIOUS
  <2> HIDE DEF P
  <2>9. N \in P
    BY <2>7, <2>8, Induction
  <2>10. Flat(g[N], N)
    BY <1>3, <2>9 DEF P
  <2> QED BY <1>1, <2>5, <2>10
<1> QED BY <1>2, <1>3

\* The tags of an item are those of all its fields for tags.
LEMMA FieldsHoldTags ==
  ASSUME NEW fields, ListOf(fields), \A i \in DOMAIN fields : ListOf(fields[i].tags)
  PROVE  LET tags == FlattenSeq([i \in DOMAIN fields |-> ReadTags(fields[i])])
         IN  /\ ListOf(tags)
             /\ Words(tags) = UNION {Words(f.tags) : f \in {g \in Range(fields) : g.name = TagsField}}
<1> DEFINE seqs == [i \in DOMAIN fields |-> ReadTags(fields[i])]
           tags == FlattenSeq(seqs)
<1>1. ListOf(seqs) /\ DOMAIN seqs = DOMAIN fields
  BY ListsMapped
<1>2. ASSUME NEW i \in DOMAIN fields
      PROVE  /\ ListOf(seqs[i])
             /\ Words(seqs[i]) = IF fields[i].name = TagsField THEN Words(fields[i].tags) ELSE {}
  <2>1. ListOf(fields[i].tags)
    BY <1>2
  <2>2. CASE fields[i].name = TagsField
    <3>1. seqs[i] = SplitTags(fields[i].tags)
      BY <2>2 DEF ReadTags
    <3> QED BY <2>1, <2>2, <3>1, SplitLists
  <2>3. CASE fields[i].name # TagsField
    <3>1. seqs[i] = << >>
      BY <2>3 DEF ReadTags
    <3>2. Words(<< >>) = {}
      BY DEF Words, Range
    <3> QED BY <2>3, <3>1, <3>2, OneIsAList
  <2> QED BY <2>2, <2>3
<1> HIDE DEF seqs
<1>3. ListOf(tags) /\ Range(tags) = UNION {Range(seqs[i]) : i \in DOMAIN fields}
  BY <1>1, <1>2, FlattenedLists
<1> HIDE DEF tags
<1>4. \A w : w \in Words(tags) <=> \E i \in DOMAIN fields : w \in Words(seqs[i])
  <2>1. \A s, w : w \in Words(s) <=> w # "" /\ \E x \in Range(s) : x.word = w
    BY DEF Words
  <2>2. \A x : x \in Range(tags) <=> \E i \in DOMAIN fields : x \in Range(seqs[i])
    BY <1>1, <1>3
  <2>3. ASSUME NEW w, w \in Words(tags)
        PROVE  \E i \in DOMAIN fields : w \in Words(seqs[i])
    <3>1. PICK x \in Range(tags) : x.word = w /\ w # ""
      BY <2>1, <2>3
    <3>2. PICK i \in DOMAIN fields : x \in Range(seqs[i])
      BY <2>2
    <3>3. w \in Words(seqs[i])
      BY <2>1, <3>1, <3>2
    <3> QED BY <3>3
  <2>4. ASSUME NEW w, NEW i \in DOMAIN fields, w \in Words(seqs[i])
        PROVE  w \in Words(tags)
    <3>1. PICK x \in Range(seqs[i]) : x.word = w /\ w # ""
      BY <2>1, <2>4
    <3>2. x \in Range(tags)
      BY <2>2
    <3> QED BY <2>1, <3>1, <3>2
  <2> QED BY <2>3, <2>4
<1>5. \A w : w \in Words(tags)
               <=> \E f \in {g \in Range(fields) : g.name = TagsField} : w \in Words(f.tags)
  BY <1>2, <1>4 DEF Range
<1>6. Words(tags) = UNION {Words(f.tags) : f \in {g \in Range(fields) : g.name = TagsField}}
  BY <1>5
<1> QED BY <1>3, <1>6 DEF tags, seqs

LEMMA ConvertedRows ==
  ASSUME NEW row, NEW columns, ListOf(row.tags), ConvertCSVRow(row, columns).type # "skipped"
  PROVE  LET rec == ConvertCSVRow(row, columns)
         IN  ListOf(rec.custom) /\ ListOf(rec.tags) /\ "name" \in DOMAIN rec.data
<1> DEFINE rec == ConvertCSVRow(row, columns)
           tags == IF columns \in {GenericColumns, OnePasswordColumns}
                   THEN SplitTags(row.tags) ELSE << >>
<1>1. \E type, data, fallback : rec = Named(Record(type, data, << >>, tags, << >>), fallback)
  BY Zenon DEF ConvertCSVRow
<1>2. ListOf(tags)
  BY SplitLists, OneIsAList
<1> HIDE DEF rec, tags
<1>3. PICK type, data, fallback : rec = Named(Record(type, data, << >>, tags, << >>), fallback)
  BY <1>1
<1>4. ListOf(rec.custom) /\ ListOf(rec.tags) /\ "name" \in DOMAIN rec.data
  BY <1>2, <1>3, OneIsAList, NamedRecord DEF rec
<1> QED BY <1>4 DEF rec

LEMMA ConvertedBitwarden ==
  ASSUME NEW item, HasLists("bitwarden", item), ConvertBitwardenItem(item).type # "skipped"
  PROVE  LET rec == ConvertBitwardenItem(item)
         IN  ListOf(rec.custom) /\ ListOf(rec.tags) /\ "name" \in DOMAIN rec.data
<1> DEFINE rec == ConvertBitwardenItem(item)
           P == {i \in DOMAIN item.fields : item.fields[i].name \notin {"", TagsField}}
           named == Picked(item.fields, P)
           custom == [i \in DOMAIN named |-> CustomOfField(named[i])]
           tags == FlattenSeq([i \in DOMAIN item.fields |-> ReadTags(item.fields[i])])
<1>1. rec = Skipped \/ \E type, data, path, fallback :
         rec = Named(Record(type, data, custom, tags, path), fallback)
  BY Zenon DEF ConvertBitwardenItem, Where, ReadTags
<1>2. ListOf(named) /\ ListOf(tags)
  BY PickedFrom, FieldsHoldTags, ListsAreLists DEF HasLists
<1> HIDE DEF named, tags
<1>3. ListOf(custom)
  BY <1>2, ListsMapped
<1> HIDE DEF rec, custom
<1>4. rec.type # "skipped"
  BY DEF rec
<1>5. PICK type, data, path, fallback :
         rec = Named(Record(type, data, custom, tags, path), fallback)
  BY <1>1, <1>4, SkippedType, Zenon
<1>6. ListOf(rec.custom) /\ ListOf(rec.tags) /\ "name" \in DOMAIN rec.data
  BY <1>2, <1>3, <1>4, <1>5, NamedRecord
<1> QED BY <1>6 DEF rec

LEMMA Converted1Pux ==
  ASSUME NEW item, ListOf(item.sections), ListOf(item.files), ListOf(item.tags),
         Convert1PuxItem(item).type # "skipped"
  PROVE  LET rec == Convert1PuxItem(item)
         IN  ListOf(rec.custom) /\ ListOf(rec.tags) /\ "name" \in DOMAIN rec.data
<1> DEFINE rec == Convert1PuxItem(item)
           P == {i \in DOMAIN item.sections :
                   /\ OnePuxKey(item.sections[i].id) = "" /\ item.sections[i].value # ""
                   /\ item.sections[i].via # "creditCardNumber"}
           others == Picked(item.sections, P)
           custom == [i \in DOMAIN others |->
                        Custom(others[i].title, others[i].value, OnePuxKind(others[i]), "", "")]
           files == [i \in DOMAIN item.files |->
                       Custom(item.files[i].name, item.files[i].value, "file", item.files[i].name, "")]
           all == custom \o files
<1>1. rec = Skipped \/ \E type, data, path, fallback :
         rec = Named(Record(type, data, all, item.tags, path), fallback)
  BY Zenon DEF Convert1PuxItem, Where
<1>2. ListOf(others)
  BY PickedFrom
<1> HIDE DEF others
<1>3. ListOf(custom) /\ ListOf(files)
  BY <1>2, ListsMapped
<1> HIDE DEF rec, custom, files
<1>4. ListOf(all)
  BY <1>3, ListsJoined
<1> HIDE DEF all
<1>5. rec.type # "skipped"
  BY DEF rec
<1>6. PICK type, data, path, fallback :
         rec = Named(Record(type, data, all, item.tags, path), fallback)
  BY <1>1, <1>5, SkippedType, Zenon
<1>7. ListOf(rec.custom) /\ ListOf(rec.tags) /\ "name" \in DOMAIN rec.data
  BY <1>4, <1>5, <1>6, NamedRecord
<1> QED BY <1>7 DEF rec

LEMMA ConvertedPsono ==
  ASSUME NEW item, ListOf(item.fields), ConvertPsonoItem(item).type # "skipped"
  PROVE  LET rec == ConvertPsonoItem(item)
         IN  ListOf(rec.custom) /\ ListOf(rec.tags) /\ "name" \in DOMAIN rec.data
<1> DEFINE rec == ConvertPsonoItem(item)
           P == {i \in DOMAIN item.fields : item.fields[i].name # ""}
           labelled == Picked(item.fields, P)
           custom == [i \in DOMAIN labelled |->
                        Custom(labelled[i].name, labelled[i].value, "", "", "")]
<1>1. rec = Skipped \/ \E type, data, path :
         rec = Named(Record(type, data, custom, << >>, path), "")
  BY Zenon DEF ConvertPsonoItem, Where
<1>2. ListOf(labelled)
  BY PickedFrom
<1> HIDE DEF labelled
<1>3. ListOf(custom)
  BY <1>2, ListsMapped
<1> HIDE DEF rec, custom
<1>4. rec.type # "skipped"
  BY DEF rec
<1>5. PICK type, data, path : rec = Named(Record(type, data, custom, << >>, path), "")
  BY <1>1, <1>4, SkippedType, Zenon
<1>6. ListOf(rec.custom) /\ ListOf(rec.tags) /\ "name" \in DOMAIN rec.data
  BY <1>3, <1>4, <1>5, OneIsAList, NamedRecord
<1> QED BY <1>6 DEF rec

LEMMA ConvertedKeePass ==
  ASSUME NEW entry, ListOf(entry.values), ListOf(entry.tags),
         ConvertKeePassEntry(entry).type # "skipped"
  PROVE  LET rec == ConvertKeePassEntry(entry)
         IN  ListOf(rec.custom) /\ ListOf(rec.tags) /\ "name" \in DOMAIN rec.data
<1> DEFINE rec == ConvertKeePassEntry(entry)
           P == {i \in DOMAIN entry.values :
                   entry.values[i][1] \notin DOMAIN KeePassStandard \cup {"_private"}}
           others == Picked(entry.values, P)
           custom == [i \in DOMAIN others |-> Custom(others[i][1], others[i][2], "", "", "")]
           tags == SplitTags(entry.tags)
<1>1. rec = Skipped \/ \E type, data, path :
         "name" \in DOMAIN data /\ rec = Record(type, data, custom, tags, path)
  BY Zenon DEF ConvertKeePassEntry, Where
<1>2. ListOf(others) /\ ListOf(tags)
  BY PickedFrom, SplitLists
<1> HIDE DEF others, tags
<1>3. ListOf(custom)
  BY <1>2, ListsMapped
<1> HIDE DEF rec, custom
<1>4. rec.type # "skipped"
  BY DEF rec
<1>5. PICK type, data, path :
         "name" \in DOMAIN data /\ rec = Record(type, data, custom, tags, path)
  BY <1>1, <1>4, SkippedType, Zenon
<1>6. ListOf(rec.custom) /\ ListOf(rec.tags) /\ "name" \in DOMAIN rec.data
  BY <1>2, <1>3, <1>5, RecordParts
<1> QED BY <1>6 DEF rec

LEMMA ConvertedRecord ==
  ASSUME NEW format, format # "backup", NEW item, HasLists(format, item),
         Convert(format, item).type # "skipped"
  PROVE  LET rec == Convert(format, item)
         IN  ListOf(rec.custom) /\ ListOf(rec.tags) /\ "name" \in DOMAIN rec.data
<1>1. CASE format = "bitwarden"
  <2>1. Convert(format, item) = ConvertBitwardenItem(item)
    BY <1>1 DEF Convert
  <2> QED BY <1>1, <2>1, ConvertedBitwarden
<1>2. CASE format = "1pux"
  <2>1. /\ Convert(format, item) = Convert1PuxItem(item)
        /\ ListOf(item.sections) /\ ListOf(item.files) /\ ListOf(item.tags)
    BY <1>2, ListsAreLists DEF Convert, HasLists
  <2> QED BY <2>1, Converted1Pux
<1>3. CASE format = "psono"
  <2>1. Convert(format, item) = ConvertPsonoItem(item) /\ ListOf(item.fields)
    BY <1>3, ListsAreLists DEF Convert, HasLists
  <2> QED BY <2>1, ConvertedPsono
<1>4. CASE format = "keepass"
  <2>1. /\ Convert(format, item) = ConvertKeePassEntry(item)
        /\ ListOf(item.values) /\ ListOf(item.tags)
    BY <1>4, ListsAreLists DEF Convert, HasLists
  <2> QED BY <2>1, ConvertedKeePass
<1>5. CASE format \notin {"bitwarden", "1pux", "psono", "keepass"}
  <2>1. \E columns : Convert(format, item) = ConvertCSVRow(item, columns)
    BY <1>5 DEF Convert
  <2>2. PICK columns : Convert(format, item) = ConvertCSVRow(item, columns)
    BY <2>1
  <2>3. ConvertCSVRow(item, columns).type # "skipped" /\ ListOf(item.tags)
    BY <1>5, <2>2, ListsAreLists DEF HasLists
  <2> QED BY <2>2, <2>3, ConvertedRows
<1> QED BY <1>1, <1>2, <1>3, <1>4, <1>5

\* The places of a 1PUX item are lists.
LEMMA SectionsAreAList ==
  ASSUME NEW e
  PROVE  ListOf(OnePuxSections(e))
<1> DEFINE s(title, id, via, key) == Section(title, id, via, Get(e.data, key), FALSE)
           plain(ids) == [i \in DOMAIN ids |-> s(ids[i], ids[i], "string", ids[i])]
           holder == <<"holder_name", "expiry_month", "expiry_year">>
           home == <<"company", "street", "city", "state", "postal_code", "country">>
<1>1. ListOf(<< >>) /\ \A x : ListOf(<<x>>)
  BY OneIsAList
<1>2. \A x, y : ListOf(<<x, y>>)
  <2>1. \A x, y : <<x, y>> \in Seq({x, y})
    OBVIOUS
  <2> QED BY <2>1 DEF ListOf
<1>3. \A x, y, z : ListOf(<<x, y, z>>)
  <2>1. \A x, y, z : <<x, y, z>> \in Seq({x, y, z})
    OBVIOUS
  <2> QED BY <2>1 DEF ListOf
<1>4. ListOf(home)
  <2>1. home = <<"company", "street", "city">> \o <<"state", "postal_code", "country">>
    OBVIOUS
  <2> QED BY <2>1, <1>3, ListsJoined
<1>5. ListOf(holder)
  BY <1>3
<1> HIDE DEF s, holder, home
<1>6. ListOf(plain(holder)) /\ ListOf(plain(home))
  BY <1>4, <1>5, ListsMapped
<1> HIDE DEF plain
<1>7. OnePuxSections(e) \in
        {<< >>,
         <<s("Card Number", "card_number", "creditCardNumber", "card_number")>>
           \o plain(holder) \o <<s("CVV", "cvv", "concealed", "cvv")>>,
         <<s("First Name", "firstname", "string", "first_name"),
           s("Last Name", "lastname", "string", "last_name")>>
           \o plain(home)
           \o <<s("Email", "email", "email", "email"), s("Phone", "phone", "phone", "phone")>>,
         (IF "totp_secret" \in DOMAIN e.data
          THEN <<s("One-Time Password", "totp", "totp", "totp_secret")>> ELSE << >>)
           \o (IF e.type = "license"
               THEN <<s("Product Name", "product_name", "string", "product_name"),
                      s("License Key", "license_key", "concealed", "license_key"),
                      s("Purchase Email", "purchase_email", "email", "product_name")>>
               ELSE << >>)}
  BY Zenon DEF OnePuxSections, s, plain, holder, home
<1> QED BY <1>1, <1>2, <1>3, <1>6, <1>7, ListsJoined

LEMMA FieldsHaveTags ==
  ASSUME NEW e, ListOf(e.tags), NEW f,
         \/ f \in {FieldOfCustom(cf) : cf \in Range(e.custom)}
         \/ f \in KeyedOnes(e) \cup TypeOnes(e) \cup UnknownOnes(e) \cup TagOnes(e)
  PROVE  /\ ListOf(f.tags)
         /\ f.name = TagsField /\ f \notin TagOnes(e) => ~TagsAreAlone(e)
<1>1. \A name, value, h : LET g == Field(name, value, h)
                          IN  ListOf(g.tags) /\ g.name = name
  <2> TAKE name, value, h
  <2> DEFINE one == [word |-> value, spelling |-> "clean"]
  <2>1. /\ Field(name, value, h).name = name
        /\ \/ Field(name, value, h).tags = << >>
           \/ Field(name, value, h).tags = <<one>>
    BY DEF Field
  <2> HIDE DEF one
  <2> QED BY <2>1, OneIsAList
<1>2. ASSUME NEW cf \in Range(e.custom), f = FieldOfCustom(cf)
      PROVE  ListOf(f.tags) /\ f.name = FieldName(cf)
  <2> DEFINE name == IF cf.filename = "" THEN cf.label ELSE cf.filename
             mime == IF cf.mime = "" THEN "generic" ELSE cf.mime
             g == Field(name, cf.value, TRUE)
  <2>1. CASE cf.kind = "file"
    <3>1. f = [g EXCEPT !.uri = TRUE, !.mime = mime]
      BY <1>2, <2>1 DEF FieldOfCustom
    <3>2. DOMAIN g = {"name", "value", "hidden", "uri", "mime", "tags"}
          /\ ListOf(g.tags) /\ g.name = name
      <4>1. DOMAIN g = {"name", "value", "hidden", "uri", "mime", "tags"}
        BY DEF Field
      <4> HIDE DEF name
      <4> QED BY <4>1, <1>1
    <3>3. name = FieldName(cf)
      BY <2>1 DEF FieldName
    <3> HIDE DEF g, mime, name
    <3>4. f.tags = g.tags /\ f.name = g.name
      BY <3>1, <3>2
    <3> QED BY <3>2, <3>3, <3>4
  <2>2. CASE cf.kind # "file"
    <3>1. \E h : f = Field(cf.label, cf.value, h)
      BY <1>2, <2>2 DEF FieldOfCustom
    <3>2. FieldName(cf) = cf.label
      BY <2>2 DEF FieldName
    <3> QED BY <3>1, <3>2, <1>1
  <2> QED BY <2>1, <2>2
<1>3. CASE f \in {FieldOfCustom(cf) : cf \in Range(e.custom)}
  BY <1>2, <1>3 DEF TagsAreAlone
<1>4. CASE f \in KeyedOnes(e) \cup TypeOnes(e)
  <2>1. \E k, value, h : f = Field(k, value, h) /\ k \in KeyedFields \cup {"type"}
    BY <1>4 DEF KeyedOnes, TypeOnes, FieldsOutside, Only
  <2>2. TagsField \notin KeyedFields \cup {"type"}
    BY DEF TagsField, KeyedFields, LoginKeys, CardKeys, IdentityKeys, LicenseKeys, BankKeys,
           CodeOptions
  <2> QED BY <2>1, <2>2, <1>1
<1>5. CASE f \in UnknownOnes(e)
  <2>1. \E k \in DOMAIN e.extra : f = Field(k, e.extra[k], TRUE)
    BY <1>5 DEF UnknownOnes
  <2> QED BY <2>1, <1>1 DEF TagsAreAlone
<1>6. CASE f \in TagOnes(e)
  <2> DEFINE g == Field(TagsField, "", FALSE)
  <2>1. f = [g EXCEPT !.tags = e.tags]
    BY <1>6 DEF TagOnes
  <2>2. "tags" \in DOMAIN g
    BY DEF Field
  <2> HIDE DEF g
  <2>3. f.tags = e.tags
    BY <2>1, <2>2
  <2> QED BY <2>3, <1>6
<1> QED BY <1>3, <1>4, <1>5, <1>6

\* What an export writes has lists where an import reads lists.
LEMMA RenderedLists ==
  ASSUME NEW format, NEW e, ListOf(e.custom), ListOf(e.tags), IsFiniteSet(DOMAIN e.extra),
         format \in {"bitwarden", "1pux", "csv-generic", "csv-1password"}
  PROVE  HasLists(format, Render(format, e))
<1>1. CASE format = "bitwarden"
  <2> DEFINE item == BitwardenItem(e, TRUE)
  <2>1. ListOf(item.fields) /\ \A f \in Range(item.fields) : ListOf(f.tags)
    BY BitwardenParts, FieldsHaveTags
  <2>2. \A i \in DOMAIN item.fields : ListOf(item.fields[i].tags)
    BY <2>1 DEF Range
  <2> QED BY <1>1, <2>1, <2>2, ListsAreLists DEF HasLists, Render
<1>2. CASE format = "1pux"
  <2> DEFINE item == OnePuxItem(e)
             P == {i \in DOMAIN e.custom : e.custom[i].kind # "file"}
             Q == {i \in DOMAIN e.custom : e.custom[i].kind = "file" /\ IsBase64(e.custom[i].value)}
             fields == Picked(e.custom, P)
             files == Picked(e.custom, Q)
             t == [i \in DOMAIN fields |->
                     Section(fields[i].label, "", OnePuxVia(fields[i].kind), fields[i].value,
                             fields[i].kind \in {"note", "ssh"})]
             u == [i \in DOMAIN files |->
                     [name |-> IF files[i].filename = "" THEN files[i].label ELSE files[i].filename,
                      value |-> files[i].value]]
  <2>1. ListOf(fields) /\ ListOf(files)
    BY PickedFrom
  <2>2. item.sections = OnePuxSections(e) \o t /\ item.files = u /\ item.tags = e.tags
    BY DEF OnePuxItem, Where
  <2> HIDE DEF fields, files
  <2>3. ListOf(t) /\ ListOf(u)
    BY <2>1, ListsMapped
  <2> HIDE DEF t, u, item
  <2>4. ListOf(item.sections) /\ ListOf(item.files) /\ ListOf(item.tags)
    BY <2>2, <2>3, SectionsAreAList, ListsJoined
  <2> QED BY <1>2, <2>4, ListsAreLists DEF HasLists, Render, item
<1>3. CASE format \in {"csv-generic", "csv-1password"}
  BY <1>3, ListsAreLists DEF HasLists, Render, CSVRow, OnePasswordRow
<1> QED BY <1>1, <1>2, <1>3

-----------------------------------------------------------------------------
(***************************************************************************)
(* The values of an entry: what a function laid over another holds, and    *)
(* when the options fit the secret.                                        *)
(***************************************************************************)

\* A blank secret makes no codes, and without options nothing can be wrong.
LEMMA NothingToFit ==
  /\ Trim("") = ""
  /\ \A data : "totp_secret" \notin DOMAIN data => OptionsFit(data)
  /\ \A data : DOMAIN data \cap SecretOptions = {} => OptionsFit(data)
<1>1. Trim("") = ""
  BY Zenon DEF Trim
<1>2. ASSUME NEW data, "totp_secret" \notin DOMAIN data
      PROVE  OptionsFit(data)
  <2>1. Get(data, "totp_secret") = ""
    BY <1>2 DEF Get
  <2> QED BY <2>1, <1>1 DEF OptionsFit
<1>3. ASSUME NEW data, DOMAIN data \cap SecretOptions = {}
      PROVE  OptionsFit(data)
  BY <1>3 DEF OptionsFit
<1> QED BY <1>1, <1>2, <1>3

\* What decides the fit: the secret and the options.
LEMMA FitIsOfTheSecret ==
  ASSUME NEW d, NEW e, OptionsFit(d),
         Trim(Get(e, "totp_secret")) = Trim(Get(d, "totp_secret")),
         \A k \in DOMAIN e \cap SecretOptions : k \in DOMAIN d /\ e[k] = d[k]
  PROVE  OptionsFit(e)
BY DEF OptionsFit

LEMMA SecretIsNoOption == "totp_secret" \notin SecretOptions /\ "url" \notin SecretOptions
BY DEF SecretOptions

LEMMA StrayDropped ==
  ASSUME NEW d, OptionsFit(d)
  PROVE  /\ OptionsFit(DropStrayTOTPSecret(d))
         /\ \A k : k # "totp_secret" => Get(DropStrayTOTPSecret(d), k) = Get(d, k)
<1> DEFINE e == Only(d, DOMAIN d \ {"totp_secret"})
<1>1. DropStrayTOTPSecret(d) \in {d, e}
  BY DEF DropStrayTOTPSecret
<1>2. OptionsFit(e)
  BY NothingToFit DEF Only
<1>3. \A k : k # "totp_secret" => Get(e, k) = Get(d, k)
  BY DEF Only, Get
<1> QED BY <1>1, <1>2, <1>3

\* A merge takes the options of the entry only along with its secret.
LEMMA MergedFits ==
  ASSUME NEW read, NEW rec, NEW old, OptionsFit(read.data),
         DOMAIN rec.data \cap SecretOptions = {}
  PROVE  OptionsFit(MergeImportedData(read, rec) ++ Only(old, {"url"}))
<1> DEFINE newSecret == /\ "totp_secret" \in DOMAIN rec.data
                        /\ Trim(rec.data["totp_secret"]) # Trim(Get(read.data, "totp_secret"))
           kept == IF newSecret THEN Only(read.data, DOMAIN read.data \ SecretOptions)
                   ELSE read.data
           rest == Only(kept, DOMAIN kept \ {"url", "name"})
           new == (rec.data ++ rest) ++ Only(old, {"url"})
<1>1. MergeImportedData(read, rec) ++ Only(old, {"url"}) = new
  BY DEF MergeImportedData
<1>2. CASE newSecret
  <2>1. DOMAIN rest \cap SecretOptions = {}
    BY <1>2 DEF Only
  <2>2. DOMAIN new \cap SecretOptions = {}
    BY <2>1, SecretIsNoOption DEF ++, Only
  <2> QED BY <2>2, <1>1, NothingToFit
<1>3. CASE ~newSecret
  <2>1. kept = read.data
    BY <1>3
  <2>2. \A k \in DOMAIN new \cap SecretOptions : k \in DOMAIN read.data /\ new[k] = read.data[k]
    BY <2>1, SecretIsNoOption DEF ++, Only
  <2>3. CASE "totp_secret" \in DOMAIN rec.data
    <3>1. Get(new, "totp_secret") = rec.data["totp_secret"]
      BY <2>3 DEF ++, Only, Get
    <3> QED BY <3>1, <2>2, <2>3, <1>3, <1>1, FitIsOfTheSecret
  <2>4. CASE "totp_secret" \notin DOMAIN rec.data
    <3>1. Get(new, "totp_secret") = Get(read.data, "totp_secret")
      BY <2>4, <2>1 DEF ++, Only, Get
    <3> QED BY <3>1, <2>2, <1>1, FitIsOfTheSecret
  <2> QED BY <2>3, <2>4
<1> QED BY <1>2, <1>3

\* A change to other keys leaves the fit as it is.
LEMMA ChangedFits ==
  ASSUME NEW d, NEW changes, NEW old, OptionsFit(d),
         DOMAIN changes \cap (SecretOptions \cup {"totp_secret"}) = {}
  PROVE  OptionsFit(changes ++ d) /\ OptionsFit((changes ++ d) ++ Only(old, {"url"}))
<1> DEFINE e == changes ++ d
           f == e ++ Only(old, {"url"})
<1>1. /\ \A k \in DOMAIN e \cap SecretOptions : k \in DOMAIN d /\ e[k] = d[k]
      /\ Get(e, "totp_secret") = Get(d, "totp_secret")
  BY DEF ++, Get
<1>2. /\ \A k \in DOMAIN f \cap SecretOptions : k \in DOMAIN e /\ f[k] = e[k]
      /\ Get(f, "totp_secret") = Get(e, "totp_secret")
  BY SecretIsNoOption DEF ++, Only, Get
<1>3. OptionsFit(e)
  BY <1>1, FitIsOfTheSecret
<1> QED BY <1>2, <1>3, FitIsOfTheSecret

AddedTypes == {"password", "api-key", "note", "bank-account", "license"}

\* What add stores has no options, what totp-add stores has those of its secret.
LEMMA StoredFits ==
  /\ \A type \in AddedTypes : \A name, filled :
        OptionsFit(CollectEntryData(type, name, filled))
  /\ \A name, secret :
        OptionsFit([name |-> name, totp_secret |-> secret] ++ [k \in SecretOptions |-> secret])
<1>1. ASSUME NEW type \in AddedTypes, NEW name, NEW filled
      PROVE  OptionsFit(CollectEntryData(type, name, filled))
  <2>1. AskedKeys(type) \cap SecretOptions = {}
    BY DEF AskedKeys, SecretOptions, BankKeys, LicenseKeys, AddedTypes
  <2>2. DOMAIN CollectEntryData(type, name, filled)
          \subseteq AskedKeys(type) \cup {"username", "url", "notes", "name", "password",
                                          "account_type"}
    BY DEF CollectEntryData, ++, NoData
  <2>3. DOMAIN CollectEntryData(type, name, filled) \cap SecretOptions = {}
    BY <2>1, <2>2 DEF SecretOptions
  <2> QED BY <2>3, NothingToFit
<1>2. ASSUME NEW name, NEW secret
      PROVE  OptionsFit([name |-> name, totp_secret |-> secret] ++ [k \in SecretOptions |-> secret])
  <2> DEFINE d == [name |-> name, totp_secret |-> secret] ++ [k \in SecretOptions |-> secret]
  <2>1. /\ Get(d, "totp_secret") = secret
        /\ \A k \in DOMAIN d \cap SecretOptions : d[k] = secret
    BY DEF ++, Get, SecretOptions
  <2> QED BY <2>1 DEF OptionsFit
<1> QED BY <1>1, <1>2

-----------------------------------------------------------------------------
(***************************************************************************)
(* What is read of a file.                                                 *)
(***************************************************************************)

LEMMA RecordsHaveTheirFields ==
  /\ \A type, data, custom, tags, path : DOMAIN Record(type, data, custom, tags, path) = RecordFields
  /\ \A rec, trashed : DOMAIN Stored(rec, trashed) = EntryFields
  /\ \A e : DOMAIN BackupEntry(e) = RecordFields
  /\ DOMAIN Absent # EntryFields /\ DOMAIN Absent # RecordFields
BY DEF Record, Stored, BackupEntry, Absent, RecordFields, EntryFields

LEMMA BackupParts ==
  ASSUME NEW e
  PROVE  /\ BackupEntry(e).type = e.type /\ BackupEntry(e).data = e.data
         /\ BackupEntry(e).custom = e.custom /\ BackupEntry(e).tags = e.tags
         /\ BackupEntry(e).extra = e.extra
BY DEF BackupEntry, Record

\* A record that an import deals with: no options, a name, a list of fields.
BareRecord(rec) ==
  /\ DOMAIN rec = RecordFields
  /\ DOMAIN rec.data \cap SecretOptions = {} /\ "name" \in DOMAIN rec.data
  /\ ListOf(rec.custom) /\ ListOf(rec.tags) /\ IsFiniteSet(DOMAIN rec.extra)

\* However tags are edited, they stay a list.
LEMMA NormalizedLists ==
  ASSUME NEW tags, ListOf(tags)
  PROVE  ListOf(NormalizeTags(tags))
<1> DEFINE P == {i \in DOMAIN tags : /\ tags[i].word # ""
                                    /\ \A j \in 1..(i - 1) : tags[j].word # tags[i].word}
           first == Picked(tags, P)
           normal == [i \in DOMAIN first |-> NormalizeTag(first[i])]
<1>1. ListOf(first)
  BY PickedFrom
<1>2. NormalizeTags(tags) = normal
  BY Zenon DEF NormalizeTags
<1> HIDE DEF first
<1>3. ListOf(normal)
  BY <1>1, ListsMapped
<1> QED BY <1>2, <1>3

LEMMA EditedLists ==
  ASSUME NEW tags, ListOf(tags)
  PROVE  /\ ListOf(NormalizeImportedTags(tags))
         /\ \A remove : ListOf(RemoveTags(tags, remove))
         /\ \A clear, remove, add : ListOf(add) => ListOf(EditTags(tags, clear, remove, add))
<1>1. ListOf(NormalizeImportedTags(tags))
  <2> DEFINE P == {i \in DOMAIN tags : ~TooLong(tags[i])}
  <2>1. ListOf(Picked(tags, P))
    BY PickedFrom
  <2>2. NormalizeImportedTags(tags) = NormalizeTags(Picked(tags, P))
    BY Zenon DEF NormalizeImportedTags, Where
  <2> HIDE DEF P
  <2> QED BY <2>1, <2>2, NormalizedLists
<1>2. ASSUME NEW list, ListOf(list), NEW remove
      PROVE  ListOf(RemoveTags(list, remove))
  <2> DEFINE P == {i \in DOMAIN list : ~\E r \in Range(remove) : r.word = list[i].word}
  <2>1. ListOf(Picked(list, P))
    BY <1>2, PickedFrom
  <2>2. RemoveTags(list, remove) = Picked(list, P)
    BY Zenon DEF RemoveTags, Where
  <2> QED BY <2>1, <2>2
<1>3. ASSUME NEW clear, NEW remove, NEW add, ListOf(add)
      PROVE  ListOf(EditTags(tags, clear, remove, add))
  <2> DEFINE old == IF clear THEN << >> ELSE tags
             left == RemoveTags(old, remove)
  <2>1. ListOf(old)
    BY OneIsAList
  <2> HIDE DEF old
  <2>2. ListOf(left)
    BY <1>2, <2>1
  <2>3. EditTags(tags, clear, remove, add) = NormalizeTags(left \o add)
    BY DEF EditTags, old
  <2> HIDE DEF left
  <2>4. PICK both : both = left \o add
    OBVIOUS
  <2>5. ListOf(both)
    BY <1>3, <2>2, <2>4, ListsJoined
  <2> QED BY <2>3, <2>4, <2>5, NormalizedLists
<1> QED BY <1>1, <1>2, <1>3

LEMMA BareOfStray ==
  ASSUME NEW rec, BareRecord(rec)
  PROVE  BareRecord(DropStray(rec))
<1> DEFINE data == Only(rec.data, DOMAIN rec.data \ {"totp_secret"})
           type == IF rec.type = "totp" THEN "password" ELSE rec.type
           bare == [rec EXCEPT !.data = data, !.type = type]
<1>1. DOMAIN data \cap SecretOptions = {} /\ "name" \in DOMAIN data
  BY DEF Only, BareRecord
<1>2. DropStray(rec) = rec \/ DropStray(rec) = bare
  BY DEF DropStray
<1> HIDE DEF data, type
<1>3. /\ DOMAIN bare = RecordFields /\ bare.data = data
      /\ bare.custom = rec.custom /\ bare.extra = rec.extra /\ bare.tags = rec.tags
  BY DEF RecordFields, EntryFields, BareRecord
<1> QED BY <1>1, <1>2, <1>3 DEF BareRecord

\* The importers keep no option of the codes.
LEMMA NoOptionIsImported == ImportedKeys \cap SecretOptions = {} /\ "name" \in ImportedKeys
BY DEF ImportedKeys, SecretOptions, LoginKeys, CardKeys, IdentityKeys

LEMMA NoDataIsFinite == IsFiniteSet(DOMAIN NoData)
<1>1. DOMAIN NoData = {}
  BY DEF NoData
<1> QED BY <1>1, FS_EmptySet

\* What a record that is not skipped is turned into.
LEMMA SettledIsBare ==
  ASSUME NEW rec, ListOf(rec.custom), "name" \in DOMAIN rec.data, NEW tags, ListOf(tags),
         NEW path
  PROVE  BareRecord(DropStray(Record(rec.type, Only(rec.data, ImportedKeys), rec.custom, tags, path)))
<1> DEFINE data == Only(rec.data, ImportedKeys)
           bare == Record(rec.type, data, rec.custom, tags, path)
<1>1. DOMAIN data \cap SecretOptions = {} /\ "name" \in DOMAIN data
  BY NoOptionIsImported DEF Only
<1> HIDE DEF data
<1>2. /\ DOMAIN bare = RecordFields /\ bare.data = data /\ bare.custom = rec.custom
      /\ bare.extra = NoData /\ bare.tags = tags
  BY RecordParts
<1> HIDE DEF bare
<1>3. BareRecord(bare)
  BY <1>1, <1>2, NoDataIsFinite DEF BareRecord
<1> QED BY <1>3, BareOfStray DEF bare, data

\* What is kept of the records that are not skipped.
LEMMA SettledList ==
  ASSUME NEW read, ListOf(read), NEW P, P \subseteq DOMAIN read,
         \A i \in P : /\ ListOf(read[i].custom) /\ ListOf(read[i].tags)
                      /\ "name" \in DOMAIN read[i].data,
         NEW parsed,
         parsed = [n \in DOMAIN Picked(read, P) |->
                     LET rec == Picked(read, P)[n]
                     IN  DropStray(Record(rec.type, Only(rec.data, ImportedKeys), rec.custom,
                                          NormalizeImportedTags(rec.tags), rec.path))]
  PROVE  ListOf(parsed) /\ \A n \in DOMAIN parsed : BareRecord(parsed[n])
<1>1. ListOf(Picked(read, P))
  BY PickedAre
<1>2. ListOf(parsed) /\ DOMAIN parsed = DOMAIN Picked(read, P)
  BY <1>1, ListsMapped
<1>3. ASSUME NEW n \in DOMAIN parsed
      PROVE  BareRecord(parsed[n])
  <2>1. PICK i \in P : Picked(read, P)[n] = read[i]
    <3>1. Picked(read, P)[n] \in {read[i] : i \in P}
      BY <1>2, <1>3, PickedAre
    <3> QED BY <3>1
  <2>2. parsed[n] = DropStray(Record(read[i].type, Only(read[i].data, ImportedKeys),
                                     read[i].custom, NormalizeImportedTags(read[i].tags),
                                     read[i].path))
    BY <1>2, <1>3, <2>1
  <2>3. ListOf(NormalizeImportedTags(read[i].tags))
    BY EditedLists
  <2> QED BY <2>2, <2>3, SettledIsBare
<1> QED BY <1>2, <1>3

LEMMA ParsedRecords ==
  ASSUME NEW format, format # "backup", NEW items, ListOf(items),
         \A i \in DOMAIN items : HasLists(format, items[i])
  PROVE  /\ ListOf(Parse(format, items))
         /\ \A i \in DOMAIN Parse(format, items) : BareRecord(Parse(format, items)[i])
<1> DEFINE read == [i \in DOMAIN items |-> Convert(format, items[i])]
           P == {i \in DOMAIN items : read[i].type # "skipped"}
<1>1. \A i \in P : read[i] = Convert(format, items[i]) /\ read[i].type # "skipped"
  OBVIOUS
<1>2. P \subseteq DOMAIN items
  OBVIOUS
<1>3. Parse(format, items)
        = [n \in DOMAIN Picked(read, P) |->
             LET rec == Picked(read, P)[n]
             IN  DropStray(Record(rec.type, Only(rec.data, ImportedKeys), rec.custom,
                                  NormalizeImportedTags(rec.tags), rec.path))]
  BY DEF Parse
<1>4. read = [i \in DOMAIN items |-> read[i]]
  OBVIOUS
<1> HIDE DEF P, read
<1>5. ListOf(read) /\ DOMAIN read = DOMAIN items
  BY <1>4, ListsMapped
<1>6. \A i \in P : /\ ListOf(read[i].custom) /\ ListOf(read[i].tags)
                   /\ "name" \in DOMAIN read[i].data
  BY <1>1, <1>2, ConvertedRecord
<1> QED BY <1>2, <1>3, <1>5, <1>6, SettledList

\* A record of a list is there as long as the number has not passed its end.
LEMMA AtInList ==
  ASSUME NEW s, ListOf(s), NEW n \in Nat \ {0}
  PROVE  /\ n <= Len(s) <=> n \in DOMAIN s
         /\ \A i \in DOMAIN s : i \in Nat /\ (n > Len(s) => i < n)
         /\ Len(s) \in Nat
BY DEF ListOf

LEMMA ListsGrow ==
  ASSUME NEW s, ListOf(s), NEW x
  PROVE  /\ ListOf(Append(s, x))
         /\ \A i \in DOMAIN Append(s, x) :
               (i \in DOMAIN s /\ Append(s, x)[i] = s[i]) \/ Append(s, x)[i] = x
<1>1. PICK S : s \in Seq(S)
  BY DEF ListOf
<1>2. Append(s, x) \in Seq(S \cup {x})
  BY <1>1
<1> QED BY <1>1, <1>2 DEF ListOf

\* The vault is listed whole, in some order.
LEMMA ReadableArePresent ==
  Readable \in Seq(Ids) /\ \A i \in DOMAIN Readable : Readable[i] \in Ids /\ Present(Readable[i])
<1> DEFINE S == {id \in Ids : Present(id)}
           Orders == [1 .. Cardinality(S) -> S]
<1>1. Cardinality(S) \in Nat /\ ExistsBijection(1 .. Cardinality(S), S)
  BY CommandsConstants, FS_Subset, FS_CardinalityType
<1>2. \E f \in Orders : IsInjective(f)
  BY <1>1 DEF ExistsBijection, Bijection, Injection
<1>3. SetToSeq(S) = CHOOSE f \in Orders : IsInjective(f)
  BY DEF SetToSeq
<1> HIDE DEF S
<1>4. SetToSeq(S) \in [1 .. Cardinality(S) -> S]
  BY <1>2, <1>3
<1>5. \A id \in S : id \in Ids /\ Present(id)
  BY DEF S
<1>6. SetToSeq(S) \in Seq(Ids) /\ \A i \in DOMAIN SetToSeq(S) : SetToSeq(S)[i] \in S
  BY <1>1, <1>4, <1>5
<1> QED BY <1>5, <1>6 DEF Readable, S

LEMMA ReadableIsAList == Readable \in Seq(Ids)
BY ReadableArePresent

-----------------------------------------------------------------------------
(***************************************************************************)
(* What the vault, the file and the running command look like.  The        *)
(* records of an import have no options: the importers keep none of them.  *)
(***************************************************************************)

Fits(e) ==
  OptionsFit(e.data) /\ ListOf(e.custom) /\ ListOf(e.tags) /\ IsFiniteSet(DOMAIN e.extra)
SoundEntry(e) == DOMAIN e = EntryFields /\ Fits(e)
SoundRecord(rec) == DOMAIN rec = RecordFields /\ Fits(rec)

VaultIsSound ==
  /\ DOMAIN entries = Ids
  /\ \A id \in Ids : entries[id] # Absent => SoundEntry(entries[id])

FileIsSound ==
  /\ DOMAIN file = DOMAIN NoFile /\ ListOf(file.items)
  /\ file.format = "none" => file = NoFile
  /\ file.format = "backup" =>
        \A i \in DOMAIN file.items : SoundRecord(file.items[i])
  /\ \A i \in DOMAIN file.items : HasLists(file.format, file.items[i])

HasShape(c) ==
  /\ DOMAIN c = DOMAIN Idle /\ DOMAIN c.done = DOMAIN Idle.done
  /\ \A how \in DOMAIN Idle.done : c.done[how] \in Nat
  /\ c.next \in Nat \ {0} /\ ListOf(c.records)

IsSound(c) ==
  /\ HasShape(c)
  /\ c.at \in {"resolved", "edit", "merge"} => c.id \in Ids
  /\ c.at \in {"edit", "merge"} => SoundEntry(c.read)
  /\ c.at = "backup" =>
        /\ c.list \in Seq(Ids)
        /\ \A i \in DOMAIN c.records : SoundEntry(c.records[i])
  /\ c.at = "restore" => \A i \in DOMAIN c.records : SoundRecord(c.records[i])
  /\ c.at \in {"import", "merge"} => \A i \in DOMAIN c.records : BareRecord(c.records[i])

UsedIsSound == DOMAIN used = {"commands", "rival", "failures", "lost"}
                 /\ \A what \in {"commands", "rival", "failures", "lost"} : used[what] \in Nat

AllSound == VaultIsSound /\ FileIsSound /\ IsSound(cmd) /\ UsedIsSound

LEMMA IdleIsSound == IsSound(Idle) /\ Idle.at = "idle" /\ ~Idle.again
<1>1. << >> \in Seq({})
  OBVIOUS
<1>2. HasShape(Idle) /\ Idle.at = "idle" /\ ~Idle.again
  BY <1>1 DEF HasShape, Idle, ListOf
<1> QED BY <1>2 DEF IsSound

\* A record is done with: the number goes up, one count goes up.
LEMMA ImportedFields ==
  ASSUME HasShape(cmd), NEW how \in DOMAIN Idle.done, Imported(how)
  PROVE  /\ HasShape(cmd') /\ cmd'.at = "import" /\ cmd'.next = cmd.next + 1
         /\ cmd'.done[how] = cmd.done[how] + 1
         /\ \A other \in DOMAIN Idle.done \ {how} : cmd'.done[other] = cmd.done[other]
         /\ cmd'.records = cmd.records /\ cmd'.known = cmd.known /\ cmd'.format = cmd.format
         /\ cmd'.mode = cmd.mode /\ cmd'.again = cmd.again /\ cmd'.rival = cmd.rival
<1> DEFINE d == [cmd.done EXCEPT ![how] = cmd.done[how] + 1]
<1>1. /\ DOMAIN d = DOMAIN Idle.done /\ d[how] = cmd.done[how] + 1
      /\ \A other \in DOMAIN Idle.done \ {how} : d[other] = cmd.done[other]
  BY DEF HasShape
<1>2. \A other \in DOMAIN Idle.done : d[other] \in Nat
  BY <1>1 DEF HasShape
<1>3. cmd' = [cmd EXCEPT !.at = "import", !.next = cmd.next + 1, !.done = d,
                         !.id = "none", !.read = Absent, !.atRoot = FALSE]
  BY DEF Imported, HasShape, Idle
<1> HIDE DEF d
<1>4. /\ DOMAIN cmd' = DOMAIN cmd /\ cmd'.at = "import" /\ cmd'.next = cmd.next + 1
      /\ cmd'.done = d /\ cmd'.records = cmd.records /\ cmd'.known = cmd.known
      /\ cmd'.format = cmd.format /\ cmd'.mode = cmd.mode /\ cmd'.again = cmd.again
      /\ cmd'.rival = cmd.rival
  BY <1>3 DEF HasShape, Idle
<1>5. HasShape(cmd')
  BY <1>1, <1>2, <1>4 DEF HasShape
<1> QED BY <1>1, <1>4, <1>5

LEMMA RecordedFields ==
  ASSUME HasShape(cmd), NEW how \in DOMAIN Idle.done, Recorded(how)
  PROVE  /\ HasShape(cmd') /\ cmd'.at = cmd.at
         /\ cmd'.records = cmd.records /\ cmd'.list = cmd.list /\ cmd'.id = cmd.id
         /\ cmd'.read = cmd.read /\ cmd'.again = cmd.again
<1> DEFINE d == [cmd.done EXCEPT ![how] = cmd.done[how] + 1]
<1>1. /\ DOMAIN d = DOMAIN Idle.done
      /\ \A other \in DOMAIN Idle.done : d[other] \in Nat
  BY DEF HasShape
<1>2. cmd' = [cmd EXCEPT !.next = cmd.next + 1, !.done = d]
  BY DEF Recorded, HasShape, Idle
<1> HIDE DEF d
<1>3. /\ DOMAIN cmd' = DOMAIN cmd /\ cmd'.at = cmd.at /\ cmd'.next = cmd.next + 1
      /\ cmd'.done = d /\ cmd'.records = cmd.records /\ cmd'.list = cmd.list
      /\ cmd'.id = cmd.id /\ cmd'.read = cmd.read /\ cmd'.again = cmd.again
  BY <1>2 DEF HasShape, Idle
<1> QED BY <1>1, <1>3 DEF HasShape

LEMMA BudgetsStaySound ==
  ASSUME UsedIsSound, Begun \/ Fails \/ Lost \/ Rivals \/ UNCHANGED used
  PROVE  /\ UsedIsSound'
         /\ Begun \/ Fails \/ Lost => used'.rival = used.rival
         /\ Rivals => used'.rival = used.rival + 1
<1>1. Begun \/ Fails \/ Lost => used'.rival = used.rival
  BY DEF UsedIsSound, Begun, Fails, Lost
<1>2. Rivals => used'.rival = used.rival + 1
  BY DEF UsedIsSound, Rivals
<1>3. ASSUME Begun PROVE UsedIsSound'
  BY <1>3 DEF UsedIsSound, Begun
<1>4. ASSUME Fails PROVE UsedIsSound'
  BY <1>4 DEF UsedIsSound, Fails
<1>5. ASSUME Lost PROVE UsedIsSound'
  <2>1. PICK f, l : f = used.failures + 1 /\ l = used.lost + 1
    OBVIOUS
  <2>2. f \in Nat /\ l \in Nat /\ used' = [used EXCEPT !.failures = f, !.lost = l]
    BY <1>5, <2>1 DEF UsedIsSound, Lost
  <2> QED BY <2>2 DEF UsedIsSound
<1>6. ASSUME Rivals PROVE UsedIsSound'
  BY <1>6 DEF UsedIsSound, Rivals
<1>7. ASSUME UNCHANGED used PROVE UsedIsSound'
  BY <1>7 DEF UsedIsSound
<1>8. UsedIsSound'
  BY <1>3, <1>4, <1>5, <1>6, <1>7
<1> QED BY <1>1, <1>2, <1>8

\* An entry as it is read is as sound as it was, and of the same face.
LEMMA AsReadFields ==
  ASSUME NEW e, SoundEntry(e)
  PROVE  /\ SoundEntry(AsRead(e)) /\ AsRead(e) # Absent
         /\ AsRead(e).type = e.type /\ AsRead(e).custom = e.custom
         /\ AsRead(e).tags = e.tags /\ AsRead(e).extra = e.extra
         /\ \A k : k # "totp_secret" => Get(AsRead(e).data, k) = Get(e.data, k)
<1> DEFINE d == DropStrayTOTPSecret(e.data)
<1>1. AsRead(e) = [e EXCEPT !.data = d]
  BY DEF AsRead, SoundEntry, EntryFields
<1>2. OptionsFit(d) /\ \A k : k # "totp_secret" => Get(d, k) = Get(e.data, k)
  BY StrayDropped DEF SoundEntry, Fits
<1> HIDE DEF d
<1>3. /\ DOMAIN AsRead(e) = EntryFields /\ AsRead(e).data = d /\ AsRead(e).type = e.type
      /\ AsRead(e).custom = e.custom /\ AsRead(e).tags = e.tags /\ AsRead(e).extra = e.extra
  BY <1>1 DEF SoundEntry, EntryFields
<1> QED BY <1>2, <1>3, RecordsHaveTheirFields DEF SoundEntry, Fits

\* Reading never removes a URL.
LEMMA ReadKeepsURL ==
  ASSUME NEW e, SoundEntry(e), "url" \in DOMAIN AsRead(e).data
  PROVE  "url" \in DOMAIN e.data
<1>1. AsRead(e).data = DropStrayTOTPSecret(e.data)
  BY DEF AsRead, SoundEntry, EntryFields
<1> QED BY <1>1 DEF DropStrayTOTPSecret, Only

-----------------------------------------------------------------------------
(***************************************************************************)
(* Every step keeps them sound.                                            *)
(***************************************************************************)

LEMMA OneEntryWritten ==
  ASSUME VaultIsSound, NEW id \in Ids, NEW e, e = Absent \/ SoundEntry(e),
         entries' = [entries EXCEPT ![id] = e]
  PROVE  VaultIsSound'
BY DEF VaultIsSound

LEMMA StoredIsSound ==
  ASSUME NEW rec, NEW trashed, Fits(rec)
  PROVE  SoundEntry(Stored(rec, trashed)) /\ Stored(rec, trashed) # Absent
<1>1. /\ Stored(rec, trashed).data = rec.data /\ Stored(rec, trashed).custom = rec.custom
      /\ Stored(rec, trashed).extra = rec.extra /\ Stored(rec, trashed).tags = rec.tags
  BY DEF Stored
<1> QED BY <1>1, RecordsHaveTheirFields DEF SoundEntry, Fits

LEMMA CreatedIsSound ==
  ASSUME VaultIsSound, Room, NEW rec, Fits(rec), Create(rec)
  PROVE  VaultIsSound' /\ FreeId \in Ids /\ entries[FreeId] = Absent
<1>1. FreeId \in Ids /\ entries[FreeId] = Absent
  BY DEF Room, FreeId
<1>2. SoundEntry(Stored(rec, FALSE))
  BY StoredIsSound
<1>3. entries' = [entries EXCEPT ![FreeId] = Stored(rec, FALSE)]
  BY DEF Create
<1> QED BY <1>1, <1>2, <1>3, OneEntryWritten

LEMMA MarkedIsSound ==
  ASSUME VaultIsSound, NEW id \in Ids, entries[id] # Absent, NEW mark,
         entries' = [entries EXCEPT ![id].trashed = mark]
  PROVE  VaultIsSound'
<1> DEFINE e == [entries[id] EXCEPT !.trashed = mark]
<1>1. SoundEntry(entries[id])
  BY DEF VaultIsSound
<1>2. /\ DOMAIN e = EntryFields /\ e.data = entries[id].data
      /\ e.custom = entries[id].custom /\ e.extra = entries[id].extra
      /\ e.tags = entries[id].tags
  BY <1>1 DEF SoundEntry, EntryFields
<1>3. SoundEntry(e)
  BY <1>1, <1>2 DEF SoundEntry, Fits
<1>4. entries' = [entries EXCEPT ![id] = e]
  BY DEF VaultIsSound
<1> QED BY <1>3, <1>4, OneEntryWritten

\* Vault.UpdateEntry leaves the type, and takes the data with the stored URL.
LEMMA OverwrittenFields ==
  ASSUME NEW e, DOMAIN e = EntryFields, NEW data, NEW custom, NEW tags, NEW extra
  PROVE  /\ DOMAIN Overwritten(e, data, custom, tags, extra) = EntryFields
         /\ Overwritten(e, data, custom, tags, extra).data = data ++ Only(e.data, {"url"})
         /\ Overwritten(e, data, custom, tags, extra).type = e.type
         /\ Overwritten(e, data, custom, tags, extra).trashed = e.trashed
         /\ Overwritten(e, data, custom, tags, extra).custom = custom
         /\ Overwritten(e, data, custom, tags, extra).tags = tags
         /\ Overwritten(e, data, custom, tags, extra).extra = extra
<1> DEFINE d == data ++ Only(e.data, {"url"})
<1>1. Overwritten(e, data, custom, tags, extra)
        = [e EXCEPT !.data = d, !.custom = custom, !.tags = tags, !.extra = extra]
  BY DEF Overwritten, EntryFields
<1> HIDE DEF d
<1>2. /\ DOMAIN Overwritten(e, data, custom, tags, extra) = EntryFields
      /\ Overwritten(e, data, custom, tags, extra).data = d
      /\ Overwritten(e, data, custom, tags, extra).type = e.type
      /\ Overwritten(e, data, custom, tags, extra).trashed = e.trashed
      /\ Overwritten(e, data, custom, tags, extra).custom = custom
      /\ Overwritten(e, data, custom, tags, extra).tags = tags
      /\ Overwritten(e, data, custom, tags, extra).extra = extra
  BY <1>1 DEF EntryFields
<1> QED BY <1>2 DEF d

LEMMA ResolvedIsSound ==
  ASSUME NEW op, NEW id \in Ids, cmd' = [Idle EXCEPT !.at = "resolved", !.op = op, !.id = id]
  PROVE  IsSound(cmd') /\ cmd'.at = "resolved" /\ ~cmd'.again
<1>1. /\ DOMAIN cmd' = DOMAIN Idle /\ cmd'.at = "resolved" /\ cmd'.id = id
      /\ cmd'.done = Idle.done /\ cmd'.next = Idle.next /\ cmd'.records = Idle.records
      /\ cmd'.again = Idle.again
  BY DEF Idle
<1>2. HasShape(cmd')
  BY <1>1, IdleIsSound DEF HasShape, IsSound
<1> QED BY <1>1, <1>2, IdleIsSound DEF IsSound

\* A set with one element has one.
LEMMA OneElement ==
  ASSUME NEW S, Cardinality(S) = 1
  PROVE  (CHOOSE x \in S : TRUE) \in S
<1>1. S # {}
  BY FS_EmptySet
<1> QED BY <1>1

LEMMA ResolvesSound ==
  ASSUME AllSound,
         \/ \E op, name, type : Resolve(op, name, type)
         \/ \E op, name : ResolveTrash(op, name)
  PROVE  AllSound' /\ ~cmd'.again /\ cmd'.at = "resolved" /\ UNCHANGED <<entries, file>>
<1>1. CASE \E op, name, type : Resolve(op, name, type)
  <2>1. PICK op, name, type : Resolve(op, name, type)
    BY <1>1
  <2>2. (CHOOSE id \in Matches(name, type) : TRUE) \in Ids
    <3>1. Matches(name, type) \subseteq Ids
      BY DEF Matches
    <3> QED BY <2>1, <3>1, OneElement DEF Resolve
  <2>3. IsSound(cmd') /\ cmd'.at = "resolved" /\ ~cmd'.again
    BY <2>1, <2>2, ResolvedIsSound DEF Resolve
  <2>4. UsedIsSound' /\ UNCHANGED <<entries, file>>
    BY <2>1, BudgetsStaySound DEF AllSound, Resolve
  <2> QED BY <2>3, <2>4 DEF AllSound, VaultIsSound, FileIsSound
<1>2. CASE \E op, name : ResolveTrash(op, name)
  <2>1. PICK op, name : ResolveTrash(op, name)
    BY <1>2
  <2> DEFINE matches == {id \in Ids : /\ entries[id] # Absent /\ entries[id].trashed
                                      /\ Name(entries[id]) = name}
  <2>2. (CHOOSE id \in matches : TRUE) \in Ids
    <3>1. matches \subseteq Ids
      OBVIOUS
    <3>2. Cardinality(matches) = 1
      BY <2>1 DEF ResolveTrash
    <3> HIDE DEF matches
    <3> QED BY <3>1, <3>2, OneElement
  <2>3. cmd' = [Idle EXCEPT !.at = "resolved", !.op = op, !.id = CHOOSE id \in matches : TRUE]
    BY <2>1 DEF ResolveTrash
  <2>4. IsSound(cmd') /\ cmd'.at = "resolved" /\ ~cmd'.again
    BY <2>2, <2>3, ResolvedIsSound
  <2>5. UsedIsSound' /\ UNCHANGED <<entries, file>>
    BY <2>1, BudgetsStaySound DEF AllSound, ResolveTrash
  <2> QED BY <2>4, <2>5 DEF AllSound, VaultIsSound, FileIsSound
<1> QED BY <1>1, <1>2

LEMMA RemovesSound ==
  ASSUME AllSound, Delete \/ TrashRestore \/ TrashPurge
  PROVE  AllSound' /\ cmd' = Idle /\ UNCHANGED file
<1>1. cmd' = Idle /\ UNCHANGED <<file, used>> /\ cmd.id \in Ids
  BY DEF Delete, TrashRestore, TrashPurge, AllSound, IsSound
<1>2. VaultIsSound /\ (entries[cmd.id] # Absent <=> ~(entries[cmd.id] = Absent))
  BY DEF AllSound
<1>3. VaultIsSound'
  <2>1. CASE entries' = entries
    BY <2>1, <1>2 DEF VaultIsSound
  <2>2. CASE Delete /\ Present(cmd.id)
    <3>1. entries' = [entries EXCEPT ![cmd.id].trashed = TRUE] /\ entries[cmd.id] # Absent
      BY <2>2 DEF Delete, Present
    <3> QED BY <3>1, <1>1, <1>2, MarkedIsSound
  <2>3. CASE TrashRestore /\ entries[cmd.id] # Absent
    <3>1. entries' = [entries EXCEPT ![cmd.id].trashed = FALSE]
      BY <2>3 DEF TrashRestore
    <3> QED BY <2>3, <3>1, <1>1, <1>2, MarkedIsSound
  <2>4. CASE TrashPurge /\ entries' = [entries EXCEPT ![cmd.id] = Absent]
    BY <2>4, <1>1, <1>2, OneEntryWritten
  <2> QED BY <2>1, <2>2, <2>3, <2>4 DEF Delete, TrashRestore, TrashPurge
<1> QED BY <1>1, <1>3, IdleIsSound DEF AllSound, FileIsSound, UsedIsSound

LEMMA AddsSound ==
  ASSUME AllSound,
         \/ \E type \in AddedTypes : \E name, filled, tags :
               ListOf(tags) /\ Add(type, name, filled, tags)
         \/ \E name, secret : TotpAdd(name, secret)
  PROVE  AllSound' /\ UNCHANGED <<file, cmd>> /\ cmd.at = "idle"
<1>1. \E rec : Create(rec) /\ Room /\ Fits(rec) /\ Begun /\ UNCHANGED <<file, cmd>>
  <2>1. CASE \E type \in AddedTypes : \E name, filled, tags :
                ListOf(tags) /\ Add(type, name, filled, tags)
    <3>1. PICK type, name, filled, tags :
             type \in AddedTypes /\ ListOf(tags) /\ Add(type, name, filled, tags)
      BY <2>1
    <3> DEFINE rec == Record(type, CollectEntryData(type, name, filled), << >>,
                             NormalizeTags(tags), << >>)
    <3>2. /\ rec.data = CollectEntryData(type, name, filled)
          /\ rec.custom = << >> /\ rec.extra = NoData /\ rec.tags = NormalizeTags(tags)
      BY DEF Record
    <3> HIDE DEF rec
    <3>3. Fits(rec)
      BY <3>1, <3>2, StoredFits, OneIsAList, NoDataIsFinite, NormalizedLists DEF Fits
    <3> QED BY <3>1, <3>3 DEF Add, rec
  <2>2. CASE \E name, secret : TotpAdd(name, secret)
    <3>1. PICK name, secret : TotpAdd(name, secret)
      BY <2>2
    <3> DEFINE data == [name |-> name, totp_secret |-> secret] ++ [k \in SecretOptions |-> secret]
               rec == Record("totp", data, << >>, << >>, << >>)
    <3>2. rec.data = data /\ rec.custom = << >> /\ rec.extra = NoData /\ rec.tags = << >>
      BY DEF Record
    <3>f. OptionsFit(data)
      BY StoredFits
    <3> HIDE DEF rec, data
    <3>3. Fits(rec)
      BY <3>2, <3>f, OneIsAList, NoDataIsFinite DEF Fits
    <3> QED BY <3>1, <3>3 DEF TotpAdd, rec, data
  <2> QED BY <2>1, <2>2
<1>2. PICK rec : Create(rec) /\ Room /\ Fits(rec) /\ Begun /\ UNCHANGED <<file, cmd>>
  BY <1>1
<1>3. VaultIsSound' /\ UsedIsSound'
  BY <1>2, CreatedIsSound, BudgetsStaySound DEF AllSound
<1>4. cmd.at = "idle"
  BY DEF Add, TotpAdd, Begin
<1> QED BY <1>2, <1>3, <1>4 DEF AllSound, FileIsSound

LEMMA UpdateReadSound ==
  ASSUME AllSound, UpdateRead
  PROVE  /\ AllSound' /\ UNCHANGED <<entries, file, used>>
         /\ cmd'.at \in {"idle", "edit"} /\ (~cmd.again => ~cmd'.again)
<1>1. UNCHANGED <<entries, file, used>> /\ cmd.id \in Ids
  BY DEF UpdateRead, AllSound, IsSound
<1>2. CASE ~Present(cmd.id)
  <2>1. cmd' = Idle
    BY <1>2 DEF UpdateRead
  <2> QED BY <2>1, <1>1, IdleIsSound DEF AllSound, VaultIsSound, FileIsSound, UsedIsSound
<1>3. CASE Present(cmd.id)
  <2> DEFINE read == AsRead(entries[cmd.id])
  <2>1. SoundEntry(read)
    BY <1>1, <1>3, AsReadFields DEF Present, AllSound, VaultIsSound
  <2>2. cmd' = [cmd EXCEPT !.at = "edit", !.read = read]
    BY <1>3 DEF UpdateRead
  <2> HIDE DEF read
  <2>3. /\ DOMAIN cmd' = DOMAIN cmd /\ cmd'.at = "edit" /\ cmd'.read = read
        /\ cmd'.id = cmd.id /\ cmd'.done = cmd.done /\ cmd'.next = cmd.next
        /\ cmd'.records = cmd.records /\ cmd'.again = cmd.again
    BY <2>2 DEF AllSound, IsSound, HasShape, Idle
  <2>4. HasShape(cmd')
    BY <2>3 DEF AllSound, IsSound, HasShape
  <2>5. IsSound(cmd')
    BY <2>1, <2>3, <2>4, <1>1 DEF IsSound
  <2> QED BY <2>3, <2>5, <1>1 DEF AllSound, VaultIsSound, FileIsSound, UsedIsSound
<1> QED BY <1>2, <1>3

LEMMA UpdateWriteSound ==
  ASSUME AllSound, NEW changes, NEW clear, NEW remove, NEW add, ListOf(add),
         DOMAIN changes \cap (SecretOptions \cup {"totp_secret"}) = {},
         UpdateWrite(changes, clear, remove, add)
  PROVE  AllSound' /\ UNCHANGED file /\ cmd' = Idle
<1>1. UNCHANGED <<file, used>> /\ cmd' = Idle /\ cmd.id \in Ids /\ SoundEntry(cmd.read)
  BY DEF UpdateWrite, AllSound, IsSound
<1>2. VaultIsSound'
  <2>1. CASE entries' = entries
    BY <2>1 DEF AllSound, VaultIsSound
  <2>2. CASE entries' # entries
    <3>1. PICK tags :
             /\ entries' = [entries EXCEPT ![cmd.id] =
                              Overwritten(@, changes ++ cmd.read.data, cmd.read.custom, tags,
                                          cmd.read.extra)]
             /\ Present(cmd.id)
             /\ tags = cmd.read.tags \/ tags = EditTags(cmd.read.tags, clear, remove, add)
      BY <2>2, Zenon DEF UpdateWrite
    <3>t. ListOf(tags)
      BY <1>1, <3>1, EditedLists DEF SoundEntry, Fits
    <3> DEFINE old == entries[cmd.id]
               new == Overwritten(old, changes ++ cmd.read.data, cmd.read.custom, tags,
                                  cmd.read.extra)
    <3>2. SoundEntry(old)
      BY <1>1, <3>1 DEF Present, AllSound, VaultIsSound
    <3>3. OptionsFit((changes ++ cmd.read.data) ++ Only(old.data, {"url"}))
      BY <1>1, ChangedFits DEF SoundEntry, Fits
    <3>4. SoundEntry(new)
      BY <1>1, <3>2, <3>3, <3>t, OverwrittenFields DEF SoundEntry, Fits
    <3>5. entries' = [entries EXCEPT ![cmd.id] = new]
      BY <3>1, <1>1 DEF AllSound, VaultIsSound
    <3> QED BY <3>4, <3>5, <1>1, OneEntryWritten DEF AllSound
  <2> QED BY <2>1, <2>2
<1> QED BY <1>1, <1>2, IdleIsSound DEF AllSound, FileIsSound, UsedIsSound

\* The entries that are exported are those of the vault as they are read.
LEMMA ExportedAreSound ==
  ASSUME VaultIsSound
  PROVE  LET of == [i \in DOMAIN Readable |-> AsRead(entries[Readable[i]])]
         IN  ListOf(of) /\ \A i \in DOMAIN of : SoundEntry(of[i])
<1> DEFINE of == [i \in DOMAIN Readable |-> AsRead(entries[Readable[i]])]
<1>1. ListOf(Readable)
  BY ReadableIsAList DEF ListOf
<1>2. ListOf(of) /\ DOMAIN of = DOMAIN Readable
  BY <1>1, ListsMapped
<1>3. \A i \in DOMAIN Readable : Readable[i] \in Ids /\ entries[Readable[i]] # Absent
  BY ReadableArePresent DEF Present
<1>4. \A i \in DOMAIN Readable : SoundEntry(AsRead(entries[Readable[i]]))
  BY <1>3, AsReadFields DEF VaultIsSound
<1> QED BY <1>2, <1>4

\* A file that is written or found is none of a backup, or one of sound records.
LEMMA ExportSound ==
  ASSUME AllSound, NEW format \in {"bitwarden", "1pux", "csv-generic", "csv-1password"},
         Export(format)
  PROVE  /\ AllSound' /\ UNCHANGED <<entries, cmd>> /\ cmd.at = "idle"
         /\ file'.imported = "none"
<1> DEFINE of == [i \in DOMAIN Readable |-> AsRead(entries[Readable[i]])]
           items == [i \in DOMAIN of |-> Render(format, of[i])]
<1>1. /\ file'.format = format /\ file'.items = items /\ DOMAIN file' = DOMAIN NoFile
      /\ file'.imported = "none" /\ UNCHANGED <<entries, cmd>> /\ cmd.at = "idle" /\ Begun
  BY DEF Export, NoFile, Begin
<1>2. ListOf(of) /\ \A i \in DOMAIN of : SoundEntry(of[i])
  BY ExportedAreSound DEF AllSound
<1> HIDE DEF of
<1>3. ListOf(items) /\ DOMAIN items = DOMAIN of
  BY <1>2, ListsMapped
<1>4. ASSUME NEW i \in DOMAIN of
      PROVE  HasLists(format, items[i])
  <2>1. /\ items[i] = Render(format, of[i]) /\ ListOf(of[i].custom) /\ ListOf(of[i].tags)
        /\ IsFiniteSet(DOMAIN of[i].extra)
    BY <1>2 DEF SoundEntry, Fits
  <2> HIDE DEF items
  <2> QED BY <2>1, <1>4, RenderedLists
<1> HIDE DEF items
<1>5. FileIsSound'
  BY <1>1, <1>3, <1>4 DEF FileIsSound
<1>6. UsedIsSound'
  BY <1>1, BudgetsStaySound DEF AllSound
<1> QED BY <1>1, <1>5, <1>6 DEF AllSound, VaultIsSound

LEMMA FindFileSound ==
  ASSUME AllSound, NEW f \in Foreign, FindFile(f)
  PROVE  /\ AllSound' /\ UNCHANGED <<entries, cmd, used>> /\ cmd.at = "idle"
         /\ file'.imported = "none"
<1>1. /\ file'.format = f.format /\ file'.items = f.items /\ DOMAIN file' = DOMAIN NoFile
      /\ file'.imported = "none" /\ UNCHANGED <<entries, cmd, used>> /\ cmd.at = "idle"
  BY DEF FindFile, NoFile
<1>2. /\ f.format \in FileFormats /\ ListOf(f.items)
      /\ \A i \in DOMAIN f.items : HasLists(f.format, f.items[i])
  BY CommandsConstants, ListsAreLists
<1>3. FileIsSound'
  BY <1>1, <1>2 DEF FileIsSound, FileFormats
<1> QED BY <1>1, <1>3 DEF AllSound, VaultIsSound, UsedIsSound

LEMMA RivalSound ==
  ASSUME AllSound, Rival
  PROVE  AllSound' /\ UNCHANGED <<file, cmd>> /\ used'.rival = used.rival + 1
<1>1. Rivals /\ UNCHANGED <<file, cmd>>
  BY DEF Rival, RivalEdits, RivalDeletes
<1>2. UsedIsSound' /\ used'.rival = used.rival + 1
  BY <1>1, BudgetsStaySound DEF AllSound
<1>3. ASSUME NEW id \in Ids, NEW key \in {"password", "name"}, RivalEdits(id, key, "b")
      PROVE  VaultIsSound'
  <2> DEFINE old == entries[id]
             d == At(key, "b") ++ old.data
             e == [old EXCEPT !.data = d]
  <2>1. SoundEntry(old)
    BY <1>3 DEF RivalEdits, Present, AllSound, VaultIsSound
  <2>2. OptionsFit(d)
    <3>1. DOMAIN At(key, "b") \cap (SecretOptions \cup {"totp_secret"}) = {}
      BY DEF At, SecretOptions
    <3> QED BY <2>1, <3>1, ChangedFits DEF SoundEntry, Fits
  <2>3. entries' = [entries EXCEPT ![id] = e]
    BY <1>3, <2>1 DEF RivalEdits, AllSound, VaultIsSound, SoundEntry, EntryFields
  <2> HIDE DEF d
  <2>4. /\ DOMAIN e = EntryFields /\ e.data = d /\ e.custom = old.custom
        /\ e.extra = old.extra /\ e.tags = old.tags
    BY <2>1 DEF SoundEntry, EntryFields
  <2>5. SoundEntry(e)
    BY <2>1, <2>2, <2>4 DEF SoundEntry, Fits
  <2> QED BY <2>3, <2>5, OneEntryWritten DEF AllSound
<1>4. ASSUME NEW id \in Ids, RivalDeletes(id)
      PROVE  VaultIsSound'
  BY <1>4, MarkedIsSound DEF RivalDeletes, Present, AllSound
<1>5. VaultIsSound'
  BY <1>3, <1>4 DEF Rival
<1> QED BY <1>1, <1>2, <1>5 DEF AllSound, FileIsSound

LEMMA CommandFailsSound ==
  ASSUME AllSound, CommandFails
  PROVE  AllSound' /\ UNCHANGED <<entries, file>> /\ cmd' = Idle
<1>1. UNCHANGED <<entries, file>> /\ cmd' = Idle /\ UsedIsSound'
  BY BudgetsStaySound DEF CommandFails, AllSound
<1> QED BY <1>1, IdleIsSound DEF AllSound, VaultIsSound, FileIsSound

LEMMA BackupsSound ==
  ASSUME AllSound, StartBackup \/ BackupReads \/ FinishBackup
  PROVE  /\ AllSound' /\ UNCHANGED entries /\ cmd'.at \in {"idle", "backup"} /\ used'.rival = used.rival
         /\ file' = file \/ file'.imported = "none"
         /\ ~cmd.again => ~cmd'.again
<1>1. ASSUME StartBackup
      PROVE  AllSound' /\ UNCHANGED <<entries, file>> /\ cmd'.at = "backup" /\ ~cmd'.again
             /\ used'.rival = used.rival
  <2>1. /\ cmd' = [Idle EXCEPT !.at = "backup", !.op = "backup", !.list = Readable]
        /\ UNCHANGED <<entries, file>> /\ Begun
    BY <1>1 DEF StartBackup
  <2>2. /\ DOMAIN cmd' = DOMAIN Idle /\ cmd'.at = "backup" /\ cmd'.list = Readable
        /\ cmd'.done = Idle.done /\ cmd'.next = Idle.next /\ cmd'.records = << >> /\ ~cmd'.again
        /\ cmd'.records = Idle.records
    BY <2>1 DEF Idle
  <2>3. HasShape(cmd')
    BY <2>2, IdleIsSound DEF HasShape, IsSound
  <2>4. IsSound(cmd')
    BY <2>2, <2>3, ReadableIsAList DEF IsSound
  <2>5. UsedIsSound' /\ used'.rival = used.rival
    BY <2>1, BudgetsStaySound DEF AllSound
  <2> QED BY <2>1, <2>2, <2>4, <2>5 DEF AllSound, VaultIsSound, FileIsSound
<1>2. ASSUME BackupReads
      PROVE  AllSound' /\ UNCHANGED <<entries, file>> /\ cmd'.at = "backup"
             /\ cmd'.again = cmd.again /\ used'.rival = used.rival
  <2> DEFINE id == cmd.list[cmd.next]
  <2>1. cmd.at = "backup" /\ UNCHANGED <<entries, file>> /\ cmd.next <= Len(cmd.list)
    BY <1>2 DEF BackupReads
  <2>2. id \in Ids /\ HasShape(cmd) /\ \A i \in DOMAIN cmd.records : SoundEntry(cmd.records[i])
    <3>1. cmd.list \in Seq(Ids) /\ cmd.next \in Nat \ {0}
      BY <2>1 DEF AllSound, IsSound, HasShape
    <3> QED BY <2>1, <3>1 DEF AllSound, IsSound
  <2>3. CASE Present(id) /\ UNCHANGED used
             /\ cmd' = [cmd EXCEPT !.next = @ + 1, !.records = Append(@, AsRead(entries[id]))]
    <3> DEFINE e == AsRead(entries[id])
               s == Append(cmd.records, e)
               n == cmd.next + 1
    <3>1. SoundEntry(e)
      BY <2>2, <2>3, AsReadFields DEF Present, AllSound, VaultIsSound
    <3> HIDE DEF e
    <3>2. ListOf(s) /\ \A i \in DOMAIN s : SoundEntry(s[i])
      BY <2>2, <3>1, ListsGrow DEF HasShape
    <3>3. cmd' = [cmd EXCEPT !.next = n, !.records = s] /\ n \in Nat \ {0}
      BY <2>2, <2>3 DEF HasShape, Idle, e
    <3> HIDE DEF s, n
    <3>4. /\ DOMAIN cmd' = DOMAIN cmd /\ cmd'.at = cmd.at /\ cmd'.list = cmd.list
          /\ cmd'.done = cmd.done /\ cmd'.next = n /\ cmd'.records = s /\ cmd'.again = cmd.again
      BY <2>2, <3>3 DEF HasShape, Idle
    <3>5. HasShape(cmd')
      BY <2>2, <3>2, <3>3, <3>4 DEF HasShape
    <3>6. IsSound(cmd')
      BY <2>1, <3>2, <3>4, <3>5 DEF IsSound, AllSound
    <3> QED BY <2>1, <2>3, <3>4, <3>6 DEF AllSound, VaultIsSound, FileIsSound, UsedIsSound
  <2>4. CASE (Fails \/ UNCHANGED used) /\ Recorded("skipped")
    <3>1. "skipped" \in DOMAIN Idle.done
      BY DEF Idle
    <3>2. /\ HasShape(cmd') /\ cmd'.at = cmd.at /\ cmd'.records = cmd.records
          /\ cmd'.list = cmd.list /\ cmd'.again = cmd.again
      BY <2>2, <2>4, <3>1, RecordedFields
    <3>3. IsSound(cmd')
      BY <2>1, <3>2 DEF IsSound, AllSound
    <3>4. UsedIsSound' /\ used'.rival = used.rival
      BY <2>4, BudgetsStaySound DEF AllSound
    <3> QED BY <2>1, <3>2, <3>3, <3>4 DEF AllSound, VaultIsSound, FileIsSound
  <2> QED BY <1>2, <2>3, <2>4 DEF BackupReads
<1>3. ASSUME FinishBackup
      PROVE  AllSound' /\ UNCHANGED <<entries, used>> /\ cmd' = Idle /\ file'.imported = "none"
  <2> DEFINE of == cmd.records
             items == [i \in DOMAIN of |-> Render("backup", of[i])]
  <2>1. /\ file' = [NoFile EXCEPT !.format = "backup", !.of = of, !.told = cmd.done.skipped,
                                  !.items = items]
        /\ UNCHANGED <<entries, used>> /\ cmd' = Idle /\ cmd.at = "backup"
    BY <1>3 DEF FinishBackup
  <2>2. \A i \in DOMAIN of : Render("backup", of[i]) = BackupEntry(of[i])
    BY DEF Render
  <2>3. \A i \in DOMAIN of : SoundEntry(of[i])
    BY <2>1 DEF AllSound, IsSound
  <2>4. \A i \in DOMAIN items : SoundRecord(items[i])
    BY <2>2, <2>3, RecordsHaveTheirFields, BackupParts DEF SoundRecord, SoundEntry, Fits
  <2>5. ListOf(items)
    BY ListsMapped DEF AllSound, IsSound, HasShape
  <2> HIDE DEF items
  <2>6. /\ DOMAIN file' = DOMAIN NoFile /\ file'.items = items /\ file'.format = "backup"
        /\ file'.imported = "none"
    BY <2>1 DEF NoFile
  <2>7. \A i \in DOMAIN items : HasLists("backup", items[i])
    BY <2>4, ListsAreLists DEF HasLists, SoundRecord, Fits
  <2>8. FileIsSound'
    BY <2>4, <2>5, <2>6, <2>7 DEF FileIsSound
  <2> QED BY <2>1, <2>6, <2>8, IdleIsSound DEF AllSound, VaultIsSound, UsedIsSound
<1> QED BY <1>1, <1>2, <1>3, IdleIsSound

LEMMA RestoresSound ==
  ASSUME AllSound, StartRestore \/ RestoreCreates \/ FinishRestore
  PROVE  /\ AllSound' /\ UNCHANGED file /\ cmd'.at \in {"idle", "restore"} 
         /\ used'.rival = used.rival /\ (~cmd.again => ~cmd'.again)
<1>1. ASSUME StartRestore
      PROVE  AllSound' /\ UNCHANGED file /\ cmd'.at = "restore" /\ ~cmd'.again
             /\ used'.rival = used.rival
  <2> DEFINE dropped(rec) == [rec EXCEPT !.data = DropStrayTOTPSecret(rec.data)]
             s == [i \in DOMAIN file.items |-> dropped(file.items[i])]
  <2>1. /\ cmd' = [Idle EXCEPT !.at = "restore", !.op = "restore-backup",
                      !.records = [i \in DOMAIN file.items |->
                                     [file.items[i] EXCEPT !.data = DropStrayTOTPSecret(@)]]]
        /\ UNCHANGED <<entries, file>> /\ Begun /\ file.format = "backup"
    BY <1>1 DEF StartRestore
  <2>2. ListOf(file.items) /\ \A i \in DOMAIN file.items : SoundRecord(file.items[i])
    BY <2>1 DEF AllSound, FileIsSound
  <2>3. s = [i \in DOMAIN file.items |-> [file.items[i] EXCEPT !.data = DropStrayTOTPSecret(@)]]
    BY <2>2 DEF SoundRecord, RecordFields, EntryFields
  <2>4. ASSUME NEW rec, SoundRecord(rec)
        PROVE  SoundRecord(dropped(rec))
    <3> DEFINE d == DropStrayTOTPSecret(rec.data)
    <3>1. OptionsFit(d)
      BY <2>4, StrayDropped DEF SoundRecord, Fits
    <3> HIDE DEF d
    <3>2. /\ DOMAIN [rec EXCEPT !.data = d] = RecordFields /\ [rec EXCEPT !.data = d].data = d
          /\ [rec EXCEPT !.data = d].custom = rec.custom
          /\ [rec EXCEPT !.data = d].extra = rec.extra
      BY <2>4 DEF SoundRecord, RecordFields, EntryFields
    <3> QED BY <2>4, <3>1, <3>2 DEF SoundRecord, Fits, d
  <2> HIDE DEF dropped
  <2>5. ListOf(s) /\ DOMAIN s = DOMAIN file.items
    BY <2>2, ListsMapped
  <2>6. \A i \in DOMAIN s : SoundRecord(s[i])
    BY <2>2, <2>4, <2>5
  <2>7. cmd' = [Idle EXCEPT !.at = "restore", !.op = "restore-backup", !.records = s]
    BY <2>1, <2>3
  <2> HIDE DEF s
  <2>8. /\ DOMAIN cmd' = DOMAIN Idle /\ cmd'.at = "restore" /\ cmd'.records = s
        /\ cmd'.done = Idle.done /\ cmd'.next = Idle.next /\ ~cmd'.again
    BY <2>7 DEF Idle
  <2>9. HasShape(cmd')
    BY <2>5, <2>8, IdleIsSound DEF HasShape, IsSound
  <2>10. IsSound(cmd')
    BY <2>6, <2>8, <2>9 DEF IsSound
  <2>11. UsedIsSound' /\ used'.rival = used.rival
    BY <2>1, BudgetsStaySound DEF AllSound
  <2> QED BY <2>1, <2>8, <2>10, <2>11 DEF AllSound, VaultIsSound, FileIsSound
<1>2. ASSUME RestoreCreates
      PROVE  AllSound' /\ UNCHANGED file /\ cmd'.at = "restore" /\ cmd'.again = cmd.again
             /\ used'.rival = used.rival
  <2>1. /\ cmd.at = "restore" /\ UNCHANGED file /\ cmd.next <= Len(cmd.records)
        /\ \E how \in {"created", "failed"} : Recorded(how)
        /\ UNCHANGED used \/ Lost \/ Fails
    BY <1>2 DEF RestoreCreates
  <2>2. HasShape(cmd) /\ \A i \in DOMAIN cmd.records : SoundRecord(cmd.records[i])
    BY <2>1 DEF AllSound, IsSound
  <2>3. /\ HasShape(cmd') /\ cmd'.at = cmd.at /\ cmd'.records = cmd.records
        /\ cmd'.again = cmd.again
    <3>1. {"created", "failed"} \subseteq DOMAIN Idle.done
      BY DEF Idle
    <3> QED BY <2>1, <2>2, <3>1, RecordedFields
  <2>4. IsSound(cmd')
    BY <2>1, <2>2, <2>3 DEF IsSound
  <2>5. UsedIsSound' /\ used'.rival = used.rival
    BY <2>1, BudgetsStaySound DEF AllSound
  <2>6. VaultIsSound'
    <3>1. CASE UNCHANGED entries
      BY <3>1 DEF AllSound, VaultIsSound
    <3>2. CASE Room /\ Create(cmd.records[cmd.next])
      <4>1. SoundRecord(cmd.records[cmd.next])
        BY <2>1, <2>2, AtInList DEF HasShape
      <4> QED BY <3>2, <4>1, CreatedIsSound DEF AllSound, SoundRecord
    <3> QED BY <1>2, <3>1, <3>2 DEF RestoreCreates
  <2> QED BY <2>1, <2>3, <2>4, <2>5, <2>6 DEF AllSound, FileIsSound
<1>3. ASSUME FinishRestore
      PROVE  AllSound' /\ UNCHANGED <<file, used>> /\ cmd' = Idle
  <2>1. UNCHANGED <<entries, file, used>> /\ cmd' = Idle
    BY <1>3 DEF FinishRestore
  <2> QED BY <2>1, IdleIsSound DEF AllSound, VaultIsSound, FileIsSound, UsedIsSound
<1> QED BY <1>1, <1>2, <1>3, IdleIsSound

-----------------------------------------------------------------------------
(***************************************************************************)
(* Why a second import finds everything.  Whatever an import finds or      *)
(* writes keeps its face, the name, the username and the type it is looked *)
(* up by; so after an import in which nothing failed each record of the    *)
(* file has an entry of its face, and the next import begins with it.      *)
(***************************************************************************)

Same(e, f) ==
  /\ Fold(Name(e)) = Fold(Name(f))
  /\ Fold(Get(e.data, "username")) = Fold(Get(f.data, "username"))
  /\ SameTypeFamily(e.type, f.type)

IsIn(vault, id) == vault[id] # Absent /\ ~vault[id].trashed
Held(rec, vault) == \E id \in Ids : IsIn(vault, id) /\ Same(vault[id], rec)

Runs(c) == c.at \in {"import", "merge"}
Unrivalled == cmd.rival = used.rival

FileIsHeld ==
  file.imported # "none" =>
    \A i \in DOMAIN Parse(file.imported, file.items) :
       Held(Parse(file.imported, file.items)[i], file.after)

ImportIsOfTheFile ==
  Runs(cmd) =>
    /\ cmd.records = Parse(cmd.format, file.items)
    /\ cmd.format # "none" /\ file.format # "none"
    /\ cmd.rival \in Nat /\ cmd.rival <= used.rival

KnownIsThere ==
  Runs(cmd) /\ Unrivalled =>
    \A id \in Ids : cmd.known[id] # Absent => IsIn(entries, id) /\ Same(entries[id], cmd.known[id])

DoneIsHeld ==
  Runs(cmd) /\ Unrivalled /\ cmd.done.failed = 0 =>
    \A i \in DOMAIN cmd.records : i < cmd.next => Held(cmd.records[i], entries)

AgainFindsAll ==
  cmd.again =>
    /\ Runs(cmd) /\ cmd.done.created = 0
    /\ \A i \in DOMAIN cmd.records : FindDuplicates(cmd.records[i], cmd.known) # {}

MergeIsOfOne ==
  cmd.at = "merge" =>
    /\ cmd.next \in DOMAIN cmd.records /\ cmd.id \in FindDuplicates(Rec, cmd.known)
    /\ Unrivalled => Same(cmd.read, cmd.known[cmd.id])
    /\ entries[cmd.id] # Absent /\ "url" \in DOMAIN cmd.read.data
          => "url" \in DOMAIN entries[cmd.id].data

SecondFindsAll ==
  /\ FileIsHeld /\ ImportIsOfTheFile /\ KnownIsThere
  /\ DoneIsHeld /\ AgainFindsAll /\ MergeIsOfOne

LEMMA SameIsAnEquivalence ==
  /\ \A e : Same(e, e)
  /\ \A e, f : Same(e, f) => Same(f, e)
  /\ \A e, f, g : Same(e, f) /\ Same(f, g) => Same(e, g)
BY DEF Same, SameTypeFamily

LEMMA DuplicatesAreTheSame ==
  ASSUME NEW rec, NEW known
  PROVE  /\ FindDuplicates(rec, known)
              = {id \in Ids : known[id] # Absent /\ Same(known[id], rec)}
         /\ FindDuplicates(rec, known) \subseteq Ids
BY DEF FindDuplicates, Same

\* The face of an entry is in keys that reading it leaves alone.
LEMMA ReadKeepsTheFace ==
  ASSUME NEW e, SoundEntry(e)
  PROVE  Same(AsRead(e), e) /\ Same(e, AsRead(e))
<1>1. Name(AsRead(e)) = Name(e) /\ Get(AsRead(e).data, "username") = Get(e.data, "username")
  BY AsReadFields DEF Name
<1>2. SameTypeFamily(AsRead(e).type, e.type)
  BY AsReadFields DEF SameTypeFamily
<1>3. Same(AsRead(e), e)
  BY <1>1, <1>2 DEF Same
<1> QED BY <1>3, SameIsAnEquivalence

\* The entries there are keep their face.
FacesStay == \A id \in Ids : IsIn(entries, id) => IsIn(entries', id) /\ Same(entries'[id], entries[id])

LEMMA HeldStays ==
  ASSUME FacesStay, NEW rec, Held(rec, entries)
  PROVE  Held(rec, entries')
<1>1. PICK id \in Ids : IsIn(entries, id) /\ Same(entries[id], rec)
  BY DEF Held
<1>2. IsIn(entries', id) /\ Same(entries'[id], entries[id])
  BY <1>1 DEF FacesStay
<1>3. Same(entries'[id], rec)
  BY <1>1, <1>2, SameIsAnEquivalence
<1> QED BY <1>2, <1>3 DEF Held

\* What is known of the vault is enough to find a record that has duplicates.
LEMMA KnownIsHeld ==
  ASSUME KnownIsThere, Runs(cmd), Unrivalled, NEW rec, FindDuplicates(rec, cmd.known) # {}
  PROVE  Held(rec, entries)
<1>1. PICK id \in Ids : cmd.known[id] # Absent /\ Same(cmd.known[id], rec)
  BY DuplicatesAreTheSame
<1>2. IsIn(entries, id) /\ Same(entries[id], cmd.known[id])
  BY <1>1 DEF KnownIsThere
<1>3. Same(entries[id], rec)
  BY <1>1, <1>2, SameIsAnEquivalence
<1> QED BY <1>2, <1>3 DEF Held

\* A record is done with: found, made, or counted as failed.
LEMMA RecordDoneWith ==
  ASSUME AllSound, SecondFindsAll, Runs(cmd), cmd.next \in DOMAIN cmd.records,
         NEW how \in DOMAIN Idle.done, Imported(how), UNCHANGED file, used'.rival = used.rival,
         Unrivalled => FacesStay,
         Unrivalled /\ how # "failed" => Held(Rec, entries'),
         how = "created" => Duplicates = {}
  PROVE  SecondFindsAll' /\ IsSound(cmd')
<1> USE DEF Runs
<1>1. /\ HasShape(cmd') /\ cmd'.at = "import" /\ cmd'.next = cmd.next + 1
      /\ cmd'.done[how] = cmd.done[how] + 1
      /\ \A other \in DOMAIN Idle.done \ {how} : cmd'.done[other] = cmd.done[other]
      /\ cmd'.records = cmd.records /\ cmd'.known = cmd.known /\ cmd'.format = cmd.format
      /\ cmd'.again = cmd.again /\ cmd'.rival = cmd.rival
  BY ImportedFields DEF AllSound, IsSound
<1>2. /\ cmd.done.failed \in Nat /\ cmd.done[how] \in Nat
      /\ cmd.next \in Nat \ {0}
      /\ \A i \in DOMAIN cmd.records : i \in Nat
      /\ {"created", "failed"} \subseteq DOMAIN Idle.done
  BY AtInList DEF AllSound, IsSound, HasShape, Idle
<1>3. IsSound(cmd')
  BY <1>1 DEF AllSound, IsSound
<1>4. FileIsHeld' /\ ImportIsOfTheFile'
  BY <1>1 DEF SecondFindsAll, FileIsHeld, ImportIsOfTheFile
<1>5. Unrivalled' <=> Unrivalled
  BY <1>1 DEF Unrivalled
<1>6. KnownIsThere'
  <2> SUFFICES ASSUME Unrivalled, NEW id \in Ids, cmd.known[id] # Absent
               PROVE  IsIn(entries', id) /\ Same(entries'[id], cmd.known[id])
    BY <1>1, <1>5 DEF KnownIsThere
  <2>1. IsIn(entries, id) /\ Same(entries[id], cmd.known[id])
    BY DEF SecondFindsAll, KnownIsThere
  <2>2. IsIn(entries', id) /\ Same(entries'[id], entries[id])
    BY <2>1 DEF FacesStay
  <2> QED BY <2>1, <2>2, SameIsAnEquivalence
<1>7. DoneIsHeld'
  <2> SUFFICES ASSUME Unrivalled, cmd'.done.failed = 0, NEW i \in DOMAIN cmd.records, i < cmd.next + 1
               PROVE  Held(cmd.records[i], entries')
    BY <1>1, <1>5 DEF DoneIsHeld
  <2>1. how # "failed" /\ cmd.done.failed = 0
    BY <1>1, <1>2
  <2>2. CASE i = cmd.next
    BY <2>1, <2>2 DEF Rec
  <2>3. CASE i < cmd.next
    BY <2>1, <2>3, HeldStays DEF SecondFindsAll, DoneIsHeld
  <2> QED BY <1>2, <2>2, <2>3
<1>8. AgainFindsAll'
  <2> SUFFICES ASSUME cmd.again
               PROVE  /\ cmd'.done.created = 0
                      /\ \A i \in DOMAIN cmd.records : FindDuplicates(cmd.records[i], cmd.known) # {}
    BY <1>1 DEF AgainFindsAll
  <2>1. how # "created"
    BY DEF SecondFindsAll, AgainFindsAll, Duplicates, Rec
  <2> QED BY <1>1, <1>2, <2>1 DEF SecondFindsAll, AgainFindsAll
<1>9. MergeIsOfOne'
  BY <1>1 DEF MergeIsOfOne
<1> QED BY <1>3, <1>4, <1>6, <1>7, <1>8, <1>9 DEF SecondFindsAll

LEMMA ImportStarts ==
  ASSUME AllSound, SecondFindsAll, NEW format, NEW mode, StartImport(format, mode)
  PROVE  AllSound' /\ SecondFindsAll'
<1> DEFINE records == Parse(format, file.items)
           known == [id \in Ids |-> IF Present(id) THEN AsRead(entries[id]) ELSE Absent]
           again == file.imported = format /\ file.after = entries
           cache == DOMAIN folders
<1>1. /\ cmd.at = "idle" /\ Begun /\ file # NoFile /\ format \in Readings(file)
      /\ UNCHANGED <<entries, file>>
      /\ cmd' = [Idle EXCEPT !.at = "import", !.op = "import", !.format = format, !.mode = mode,
                             !.records = records, !.known = known, !.cache = cache,
                             !.again = again, !.rival = used.rival]
  BY DEF StartImport, Begin
<1>2. /\ ListOf(records)
      /\ \A i \in DOMAIN records : BareRecord(records[i])
  <2>1. format # "backup" /\ (format = file.format \/ format = "csv-chrome")
    BY <1>1 DEF Readings
  <2>2. \A item : HasLists("csv-generic", item) => HasLists("csv-chrome", item)
    BY DEF HasLists
  <2>3. \A i \in DOMAIN file.items : HasLists(format, file.items[i])
    BY <1>1, <2>1, <2>2 DEF AllSound, FileIsSound, Readings
  <2> QED BY <2>1, <2>3, ParsedRecords DEF AllSound, FileIsSound
<1> HIDE DEF records, known, again, cache
<1>3. /\ DOMAIN cmd' = DOMAIN Idle /\ cmd'.at = "import" /\ cmd'.format = format
      /\ cmd'.records = records /\ cmd'.known = known /\ cmd'.again = again
      /\ cmd'.rival = used.rival /\ cmd'.done = Idle.done /\ cmd'.next = Idle.next
  BY <1>1 DEF Idle
<1>4. HasShape(cmd') /\ cmd'.next = 1 /\ cmd'.done.created = 0
  <2>1. Idle.next = 1 /\ Idle.done.created = 0
    BY DEF Idle
  <2> QED BY <1>2, <1>3, <2>1, IdleIsSound DEF HasShape, IsSound
<1>5. IsSound(cmd')
  BY <1>2, <1>3, <1>4 DEF IsSound
<1>6. UsedIsSound' /\ used'.rival = used.rival /\ used.rival \in Nat
  BY <1>1, BudgetsStaySound DEF AllSound, UsedIsSound
<1>7. AllSound'
  BY <1>1, <1>5, <1>6 DEF AllSound, VaultIsSound, FileIsSound
<1>8. FileIsHeld' /\ ImportIsOfTheFile' /\ MergeIsOfOne'
  <2>1. file.format # "none" /\ format # "none"
    BY <1>1 DEF AllSound, FileIsSound, Readings
  <2>2. cmd'.records = Parse(format, file.items)
    BY <1>3 DEF records
  <2>3. FileIsHeld'
    BY <1>1 DEF SecondFindsAll, FileIsHeld
  <2>4. cmd'.rival \in Nat /\ cmd'.rival <= used'.rival
    BY <1>3, <1>6
  <2>5. ImportIsOfTheFile'
    BY <1>1, <1>3, <2>1, <2>2, <2>4 DEF ImportIsOfTheFile
  <2>6. MergeIsOfOne'
    BY <1>3 DEF MergeIsOfOne
  <2> QED BY <2>3, <2>5, <2>6
<1>9. \A id \in Ids : /\ IsIn(entries, id) => known[id] # Absent /\ Same(known[id], entries[id])
                      /\ known[id] # Absent => IsIn(entries, id) /\ Same(entries[id], known[id])
  <2> SUFFICES ASSUME NEW id \in Ids
               PROVE  /\ IsIn(entries, id) => known[id] # Absent /\ Same(known[id], entries[id])
                      /\ known[id] # Absent => IsIn(entries, id) /\ Same(entries[id], known[id])
    OBVIOUS
  <2>1. CASE Present(id)
    <3>1. SoundEntry(entries[id]) /\ known[id] = AsRead(entries[id])
      BY <2>1 DEF known, Present, AllSound, VaultIsSound
    <3> QED BY <2>1, <3>1, AsReadFields, ReadKeepsTheFace DEF IsIn, Present
  <2>2. CASE ~Present(id)
    <3>1. known[id] = Absent
      BY <2>2 DEF known
    <3> QED BY <2>2, <3>1 DEF IsIn, Present
  <2> QED BY <2>1, <2>2
<1>10. KnownIsThere'
  BY <1>1, <1>3, <1>9 DEF KnownIsThere
<1>11. DoneIsHeld'
  BY <1>2, <1>3, <1>4, AtInList DEF DoneIsHeld, IsSound
<1>12. AgainFindsAll'
  <2> SUFFICES ASSUME again, NEW i \in DOMAIN records
               PROVE  FindDuplicates(records[i], known) # {}
    BY <1>3, <1>4 DEF AgainFindsAll, Runs
  <2>1. Held(records[i], entries)
    <3>1. file.imported = format /\ file.after = entries /\ records = Parse(format, file.items)
      BY DEF again, records
    <3>2. format # "none"
      BY <1>1 DEF AllSound, FileIsSound, Readings
    <3> QED BY <3>1, <3>2 DEF SecondFindsAll, FileIsHeld
  <2>2. PICK id \in Ids : IsIn(entries, id) /\ Same(entries[id], records[i])
    BY <2>1 DEF Held
  <2>3. known[id] # Absent /\ Same(known[id], records[i])
    BY <1>9, <2>2, SameIsAnEquivalence
  <2> QED BY <2>3, DuplicatesAreTheSame
<1> QED BY <1>7, <1>8, <1>10, <1>11, <1>12 DEF SecondFindsAll

\* Where an import stands, and what it deals with.
LEMMA ImportStands ==
  ASSUME AllSound, SecondFindsAll, Importing \/ cmd.at = "merge"
  PROVE  /\ Runs(cmd) /\ cmd.next \in DOMAIN cmd.records /\ BareRecord(Rec)
         /\ HasShape(cmd) /\ Duplicates \subseteq Ids
         /\ {"created", "updated", "skipped", "failed"} = DOMAIN Idle.done
<1>1. HasShape(cmd) /\ Runs(cmd) /\ cmd.next \in DOMAIN cmd.records
  BY AtInList DEF AllSound, IsSound, HasShape, Importing, Runs, SecondFindsAll, MergeIsOfOne
<1> QED BY <1>1, DuplicatesAreTheSame DEF AllSound, IsSound, Rec, Runs, Idle, Duplicates

\* A failed call, a record that is skipped: the vault stays as it is.
LEMMA ImportPassesOver ==
  ASSUME AllSound, SecondFindsAll,
         ImportSkips \/ ImportAmbiguous \/ ImportCallFails
  PROVE  AllSound' /\ SecondFindsAll'
<1>1. PICK how \in {"skipped", "failed"} :
        /\ Imported(how) /\ UNCHANGED <<entries, file>>
        /\ Importing \/ cmd.at = "merge"
        /\ UNCHANGED used \/ Fails
        /\ how = "skipped" => Duplicates # {}
  BY DEF ImportSkips, ImportAmbiguous, ImportCallFails, Overwriting, Creating
<1>2. UsedIsSound' /\ used'.rival = used.rival
  BY <1>1, BudgetsStaySound DEF AllSound
<1>3. FacesStay
  BY <1>1, SameIsAnEquivalence DEF FacesStay
<1>4. Unrivalled /\ how # "failed" => Held(Rec, entries')
  BY <1>1, ImportStands, KnownIsHeld DEF SecondFindsAll, Duplicates
<1>5. SecondFindsAll' /\ IsSound(cmd')
  BY <1>1, <1>2, <1>3, <1>4, ImportStands, RecordDoneWith
<1> QED BY <1>1, <1>2, <1>5 DEF AllSound, VaultIsSound, FileIsSound

\* An answer that is lost counts as a failure, whatever was written.
LEMMA AnswerOfWrite ==
  ASSUME UsedIsSound, NEW how, Answered(how)
  PROVE  /\ UsedIsSound' /\ used'.rival = used.rival
         /\ Imported(how) \/ Imported("failed")
BY BudgetsStaySound DEF Answered

\* A write that gives the target the face of the record.
LEMMA ImportOverwrites ==
  ASSUME AllSound, SecondFindsAll, Importing \/ cmd.at = "merge",
         NEW id \in Duplicates, Present(id), NEW e, SoundEntry(e), ~e.trashed,
         Unrivalled => Same(e, entries[id]),
         entries' = [entries EXCEPT ![id] = e], Answered("updated"), UNCHANGED file
  PROVE  AllSound' /\ SecondFindsAll'
<1>1. UsedIsSound' /\ used'.rival = used.rival /\ (Imported("updated") \/ Imported("failed"))
  BY AnswerOfWrite DEF AllSound
<1>2. id \in Ids /\ Runs(cmd)
  BY ImportStands
<1>3. VaultIsSound'
  BY <1>2, OneEntryWritten DEF AllSound
<1>4. Unrivalled => FacesStay
  <2>1. e # Absent
    BY RecordsHaveTheirFields DEF SoundEntry
  <2>2. \A other \in Ids : entries'[other] = IF other = id THEN e ELSE entries[other]
    BY <1>2 DEF AllSound, VaultIsSound
  <2> QED BY <2>1, <2>2, SameIsAnEquivalence DEF FacesStay, IsIn
<1>5. Unrivalled => Held(Rec, entries')
  <2>1. Unrivalled => Held(Rec, entries)
    BY <1>2, KnownIsHeld DEF SecondFindsAll, Duplicates
  <2> QED BY <1>4, <2>1, HeldStays
<1>6. SecondFindsAll' /\ IsSound(cmd')
  BY <1>1, <1>4, <1>5, ImportStands, RecordDoneWith
<1> QED BY <1>1, <1>3, <1>6 DEF AllSound, FileIsSound

LEMMA NothingWritten ==
  ASSUME AllSound, SecondFindsAll, Importing \/ cmd.at = "merge",
         UNCHANGED <<entries, used, file>>, Imported("failed")
  PROVE  AllSound' /\ SecondFindsAll'
<1>1. FacesStay
  BY SameIsAnEquivalence DEF FacesStay
<1>2. SecondFindsAll' /\ IsSound(cmd')
  BY <1>1, ImportStands, RecordDoneWith
<1> QED BY <1>2 DEF AllSound, VaultIsSound, FileIsSound, UsedIsSound

LEMMA ImportReplacesSound ==
  ASSUME AllSound, SecondFindsAll, ImportReplaces
  PROVE  AllSound' /\ SecondFindsAll'
<1>1. Importing /\ UNCHANGED file
  BY DEF ImportReplaces, Overwriting
<1>2. Target \in Duplicates /\ Target \in Ids
  BY <1>1, OneElement, ImportStands DEF ImportReplaces, Overwriting, Target
<1>3. CASE ~Present(Target)
  BY <1>1, <1>3, NothingWritten DEF ImportReplaces
<1>4. CASE Present(Target)
  <2> DEFINE old == entries[Target]
             e == [old EXCEPT !.data = Rec.data, !.custom = Rec.custom, !.tags = Rec.tags,
                              !.extra = NoData]
  <2>1. SoundEntry(old) /\ ~old.trashed
    BY <1>2, <1>4 DEF Present, AllSound, VaultIsSound
  <2>2. /\ DOMAIN e = EntryFields /\ e.data = Rec.data /\ e.type = old.type
        /\ e.trashed = old.trashed /\ e.custom = Rec.custom /\ e.extra = NoData
        /\ e.tags = Rec.tags
    BY <2>1 DEF SoundEntry, EntryFields
  <2>3. entries' = [entries EXCEPT ![Target] = e] /\ Answered("updated")
    BY <1>2, <1>4 DEF ImportReplaces, AllSound, VaultIsSound
  <2> HIDE DEF e
  <2>4. SoundEntry(e)
    BY <1>1, <2>2, ImportStands, NothingToFit, NoDataIsFinite DEF SoundEntry, Fits, BareRecord
  <2>5. Unrivalled => Same(e, old)
    <3> SUFFICES ASSUME Unrivalled PROVE Same(e, old)
      OBVIOUS
    <3>1. cmd.known[Target] # Absent /\ Same(cmd.known[Target], Rec)
      BY <1>2, DuplicatesAreTheSame DEF Duplicates
    <3>2. Same(old, cmd.known[Target])
      BY <1>1, <1>2, <3>1, ImportStands DEF SecondFindsAll, KnownIsThere
    <3>3. Same(old, Rec)
      BY <3>1, <3>2, SameIsAnEquivalence
    <3>4. Same(e, old)
      BY <2>2, <3>3 DEF Same, Name, SameTypeFamily
    <3> QED BY <3>4
  <2> QED BY <1>1, <1>2, <1>4, <2>1, <2>2, <2>3, <2>4, <2>5, ImportOverwrites
<1> QED BY <1>3, <1>4

\* The merged data has the name of the record, and its username or the one read.
LEMMA MergedFace ==
  ASSUME NEW read, NEW rec, NEW old
  PROVE  LET d == MergeImportedData(read, rec) ++ Only(old, {"url"})
         IN  /\ Get(d, "name") = Get(rec.data, "name")
             /\ \/ Get(d, "username") = Get(rec.data, "username")
                \/ Get(d, "username") = Get(read.data, "username")
<1> DEFINE kept == IF /\ "totp_secret" \in DOMAIN rec.data
                      /\ Trim(rec.data["totp_secret"]) # Trim(Get(read.data, "totp_secret"))
                   THEN Only(read.data, DOMAIN read.data \ SecretOptions) ELSE read.data
           rest == Only(kept, DOMAIN kept \ {"url", "name"})
           d == (rec.data ++ rest) ++ Only(old, {"url"})
<1>1. MergeImportedData(read, rec) ++ Only(old, {"url"}) = d
  BY DEF MergeImportedData
<1>2. "name" \notin DOMAIN rest
      /\ ("username" \in DOMAIN rest <=> "username" \in DOMAIN read.data)
      /\ ("username" \in DOMAIN rest => rest["username"] = read.data["username"])
  <2>1. "username" \notin SecretOptions
    BY DEF SecretOptions
  <2> QED BY <2>1 DEF Only
<1> HIDE DEF rest
<1>3. Get(d, "name") = Get(rec.data, "name")
  BY <1>2 DEF Get, ++, Only
<1>4. \/ Get(d, "username") = Get(rec.data, "username")
      \/ Get(d, "username") = Get(read.data, "username")
  BY <1>2 DEF Get, ++, Only
<1> QED BY <1>1, <1>3, <1>4

LEMMA ImportMergesSound ==
  ASSUME AllSound, SecondFindsAll, ImportMerges
  PROVE  AllSound' /\ SecondFindsAll'
<1>1. cmd.at = "merge" /\ UNCHANGED file /\ cmd.id \in Duplicates /\ cmd.id \in Ids
  BY ImportStands DEF ImportMerges, SecondFindsAll, MergeIsOfOne, Duplicates
<1>2. CASE ~Present(cmd.id)
  BY <1>1, <1>2, NothingWritten DEF ImportMerges
<1>3. CASE Present(cmd.id)
  <2> DEFINE old == entries[cmd.id]
             custom == MergeCustomFields(cmd.read.custom, Rec.custom)
             tags == IF Rec.tags # << >> THEN Rec.tags ELSE cmd.read.tags
             data == MergeImportedData(cmd.read, Rec)
             e == Overwritten(old, data, custom, tags, cmd.read.extra)
  <2>1. SoundEntry(old) /\ ~old.trashed
    BY <1>1, <1>3 DEF Present, AllSound, VaultIsSound
  <2>2. entries' = [entries EXCEPT ![cmd.id] = e] /\ Answered("updated")
    BY <1>1, <1>3 DEF ImportMerges, AllSound, VaultIsSound
  <2> HIDE DEF custom, tags
  <2>3. /\ DOMAIN e = EntryFields /\ e.type = old.type /\ e.trashed = old.trashed
        /\ e.data = data ++ Only(old.data, {"url"})
        /\ e.custom = custom /\ e.extra = cmd.read.extra /\ e.tags = tags
    BY <2>1, OverwrittenFields DEF SoundEntry
  <2> HIDE DEF e
  <2>4. SoundEntry(e)
    <3>1. SoundEntry(cmd.read) /\ BareRecord(Rec)
      BY <1>1, ImportStands DEF AllSound, IsSound
    <3>2. OptionsFit(data ++ Only(old.data, {"url"}))
      BY <3>1, MergedFits DEF SoundEntry, Fits, BareRecord
    <3>3. ListOf(custom)
      BY <3>1, MergeKeepsFields DEF SoundEntry, Fits, BareRecord, custom
    <3>4. ListOf(tags)
      BY <3>1 DEF SoundEntry, Fits, BareRecord, tags
    <3> QED BY <2>3, <3>1, <3>2, <3>3, <3>4 DEF SoundEntry, Fits
  <2>5. Unrivalled => Same(e, old)
    <3> SUFFICES ASSUME Unrivalled PROVE Same(e, old)
      OBVIOUS
    <3> DEFINE k == cmd.known[cmd.id]
    <3>1. k # Absent /\ Same(k, Rec)
      BY <1>1, DuplicatesAreTheSame DEF Duplicates
    <3>2. Same(old, k) /\ Same(cmd.read, k)
      BY <1>1, <3>1, ImportStands DEF SecondFindsAll, KnownIsThere, MergeIsOfOne
    <3>3. Same(old, Rec) /\ Same(old, cmd.read)
      BY <3>1, <3>2, SameIsAnEquivalence
    <3>4. /\ Get(e.data, "name") = Get(Rec.data, "name")
          /\ \/ Get(e.data, "username") = Get(Rec.data, "username")
             \/ Get(e.data, "username") = Get(cmd.read.data, "username")
      BY <2>3, MergedFace
    <3> QED BY <2>3, <3>3, <3>4 DEF Same, Name, SameTypeFamily
  <2> QED BY <1>1, <1>3, <2>1, <2>2, <2>3, <2>4, <2>5, ImportOverwrites
<1> QED BY <1>2, <1>3

LEMMA ImportReadsSound ==
  ASSUME AllSound, SecondFindsAll, ImportReads
  PROVE  AllSound' /\ SecondFindsAll'
<1>1. Importing /\ UNCHANGED <<entries, file, used>>
  BY DEF ImportReads, Overwriting
<1>2. Target \in Duplicates /\ Target \in Ids
  BY <1>1, OneElement, ImportStands DEF ImportReads, Overwriting, Target
<1>3. CASE ~Present(Target)
  BY <1>1, <1>3, NothingWritten DEF ImportReads
<1>4. CASE Present(Target)
  <2> DEFINE read == AsRead(entries[Target])
             id == Target
  <2>1. SoundEntry(entries[id])
    BY <1>2, <1>4 DEF Present, AllSound, VaultIsSound
  <2>2. SoundEntry(read) /\ Same(read, entries[id])
    BY <2>1, AsReadFields, ReadKeepsTheFace
  <2>3. cmd' = [cmd EXCEPT !.at = "merge", !.id = id, !.read = read]
    BY <1>4 DEF ImportReads
  <2>4. id \in Ids /\ id \in Duplicates
    BY <1>2
  <2> HIDE DEF read, id
  <2>5. /\ DOMAIN cmd' = DOMAIN cmd /\ cmd'.at = "merge" /\ cmd'.id = id /\ cmd'.read = read
        /\ cmd'.done = cmd.done /\ cmd'.next = cmd.next /\ cmd'.records = cmd.records
        /\ cmd'.known = cmd.known /\ cmd'.format = cmd.format /\ cmd'.again = cmd.again
        /\ cmd'.rival = cmd.rival
    BY <2>3 DEF AllSound, IsSound, HasShape, Idle
  <2>6. HasShape(cmd')
    BY <2>5 DEF AllSound, IsSound, HasShape
  <2>7. /\ Runs(cmd) /\ Runs(cmd') /\ cmd.next \in DOMAIN cmd.records
        /\ \A i \in DOMAIN cmd.records : BareRecord(cmd.records[i])
    BY <1>1, <2>5, ImportStands DEF Runs, AllSound, IsSound
  <2>8. IsSound(cmd')
    BY <2>2, <2>4, <2>5, <2>6, <2>7 DEF IsSound
  <2>9. /\ FileIsHeld' /\ ImportIsOfTheFile' /\ KnownIsThere' /\ DoneIsHeld' /\ AgainFindsAll'
    BY <1>1, <2>5, <2>7
       DEF SecondFindsAll, FileIsHeld, ImportIsOfTheFile, KnownIsThere, DoneIsHeld,
           AgainFindsAll, Unrivalled
  <2>10. MergeIsOfOne'
    <3>1. Rec' = Rec /\ (Unrivalled' <=> Unrivalled)
      BY <1>1, <2>5 DEF Rec, Unrivalled
    <3>2. id \in FindDuplicates(Rec, cmd.known) /\ cmd.known[id] # Absent
      BY <2>4, DuplicatesAreTheSame DEF Duplicates
    <3>3. Unrivalled => Same(read, cmd.known[id])
      <4>1. Unrivalled => Same(entries[id], cmd.known[id])
        BY <2>4, <2>7, <3>2 DEF SecondFindsAll, KnownIsThere
      <4> QED BY <2>2, <4>1, SameIsAnEquivalence
    <3>4. "url" \in DOMAIN read.data => "url" \in DOMAIN entries[id].data
      BY <2>1, ReadKeepsURL DEF read, id
    <3> QED BY <1>1, <2>5, <2>7, <3>1, <3>2, <3>3, <3>4 DEF MergeIsOfOne
  <2> QED BY <1>1, <2>8, <2>9, <2>10
          DEF AllSound, SecondFindsAll, VaultIsSound, FileIsSound, UsedIsSound
<1> QED BY <1>3, <1>4

LEMMA ImportCreatesSound ==
  ASSUME AllSound, SecondFindsAll, ImportCreates
  PROVE  AllSound' /\ SecondFindsAll'
<1>1. Importing /\ Duplicates = {} /\ UNCHANGED file
  BY DEF ImportCreates, Creating
<1>2. CASE ~Room
  BY <1>1, <1>2, NothingWritten DEF ImportCreates
<1>3. CASE Room
  <2> DEFINE path == IF cmd.atRoot THEN << >> ELSE Rec.path
             rec == [Rec EXCEPT !.path = path]
             e == Stored(rec, FALSE)
  <2>1. BareRecord(Rec)
    BY <1>1, ImportStands
  <2>2. rec = [Rec EXCEPT !.path = IF cmd.atRoot THEN << >> ELSE @]
    BY <2>1 DEF BareRecord, RecordFields, EntryFields
  <2>3. Create(rec) /\ Answered("created")
    BY <1>3, <2>2 DEF ImportCreates
  <2> HIDE DEF path
  <2>4. rec.data = Rec.data /\ rec.type = Rec.type /\ Fits(rec)
    <3>1. /\ rec.data = Rec.data /\ rec.type = Rec.type
          /\ rec.custom = Rec.custom /\ rec.extra = Rec.extra /\ rec.tags = Rec.tags
      BY <2>1 DEF BareRecord, RecordFields, EntryFields
    <3> HIDE DEF rec
    <3> QED BY <2>1, <3>1, NothingToFit DEF BareRecord, Fits
  <2> HIDE DEF rec
  <2>5. VaultIsSound' /\ FreeId \in Ids /\ entries[FreeId] = Absent
    BY <1>3, <2>3, <2>4, CreatedIsSound DEF AllSound
  <2>6. /\ UsedIsSound' /\ used'.rival = used.rival
        /\ Imported("created") \/ Imported("failed")
    BY <2>3, AnswerOfWrite DEF AllSound
  <2>7. \A id \in Ids : entries'[id] = IF id = FreeId THEN e ELSE entries[id]
    BY <2>3 DEF Create, AllSound, VaultIsSound
  <2>8. FacesStay
    BY <2>5, <2>7, SameIsAnEquivalence DEF FacesStay, IsIn
  <2>9. Held(Rec, entries')
    <3>1. e # Absent
      BY <2>4, StoredIsSound
    <3>2. ~e.trashed /\ e.data = Rec.data /\ e.type = Rec.type
      BY <2>4 DEF Stored
    <3>3. Same(e, Rec)
      BY <3>2 DEF Same, Name, SameTypeFamily
    <3> HIDE DEF e
    <3> QED BY <2>5, <2>7, <3>1, <3>2, <3>3 DEF Held, IsIn
  <2>10. SecondFindsAll' /\ IsSound(cmd')
    BY <1>1, <2>6, <2>8, <2>9, ImportStands, RecordDoneWith
  <2> QED BY <1>1, <2>5, <2>6, <2>10 DEF AllSound, FileIsSound
<1> QED BY <1>2, <1>3

\* Making folders leaves the entries alone, and the import where it was.
LEMMA ImportFoldersSound ==
  ASSUME AllSound, SecondFindsAll, ImportMakesFolder \/ ImportFolderFails
  PROVE  AllSound' /\ SecondFindsAll'
<1>1. /\ Importing /\ UNCHANGED <<entries, file>> /\ (UNCHANGED used \/ Fails \/ Lost)
      /\ \E cache, atRoot : cmd' = [cmd EXCEPT !.cache = cache, !.atRoot = atRoot]
  <2>1. CASE ImportMakesFolder
    <3> DEFINE cache == cmd.cache \cup {NextFolder}
    <3>1. cmd' = [cmd EXCEPT !.cache = cache] /\ HasShape(cmd)
      BY <2>1 DEF ImportMakesFolder, AllSound, IsSound, HasShape, Idle
    <3> HIDE DEF cache
    <3>2. cmd' = [cmd EXCEPT !.cache = cache, !.atRoot = cmd.atRoot]
      BY <3>1 DEF HasShape, Idle
    <3> QED BY <2>1, <3>2 DEF ImportMakesFolder, Creating
  <2>2. CASE ImportFolderFails
    <3>1. cmd' = [cmd EXCEPT !.cache = cmd.cache, !.atRoot = TRUE]
      BY <2>2 DEF ImportFolderFails, AllSound, IsSound, HasShape, Idle
    <3> QED BY <2>2, <3>1 DEF ImportFolderFails, Creating
  <2> QED BY <2>1, <2>2
<1>2. UsedIsSound' /\ used'.rival = used.rival
  BY <1>1, BudgetsStaySound DEF AllSound
<1>3. /\ DOMAIN cmd' = DOMAIN cmd /\ cmd'.at = cmd.at /\ cmd'.id = cmd.id
      /\ cmd'.read = cmd.read /\ cmd'.done = cmd.done /\ cmd'.next = cmd.next
      /\ cmd'.records = cmd.records /\ cmd'.known = cmd.known /\ cmd'.format = cmd.format
      /\ cmd'.again = cmd.again /\ cmd'.rival = cmd.rival /\ cmd'.list = cmd.list
  BY <1>1 DEF AllSound, IsSound, HasShape, Idle
<1>4. IsSound(cmd')
  BY <1>3 DEF AllSound, IsSound, HasShape
<1>5. cmd.at = "import" /\ Runs(cmd)
  BY <1>1 DEF Importing, Runs
<1>6. SecondFindsAll'
  BY <1>1, <1>2, <1>3, <1>5
     DEF SecondFindsAll, FileIsHeld, ImportIsOfTheFile, KnownIsThere, DoneIsHeld,
         AgainFindsAll, MergeIsOfOne, Unrivalled, Runs
<1> QED BY <1>1, <1>2, <1>4, <1>6 DEF AllSound, VaultIsSound, FileIsSound

LEMMA ImportFinishes ==
  ASSUME AllSound, SecondFindsAll, FinishImport
  PROVE  AllSound' /\ SecondFindsAll'
<1> DEFINE imported == IF cmd.done.failed = 0 /\ cmd.rival = used.rival THEN cmd.format ELSE "none"
<1>1. /\ cmd.at = "import" /\ cmd.next > Len(cmd.records) /\ cmd' = Idle
      /\ UNCHANGED <<entries, used>>
      /\ file' = [file EXCEPT !.imported = imported, !.after = entries]
  BY DEF FinishImport
<1> HIDE DEF imported
<1>2. /\ DOMAIN file' = DOMAIN file /\ file'.imported = imported /\ file'.after = entries
      /\ file'.format = file.format /\ file'.items = file.items
  BY <1>1 DEF AllSound, FileIsSound, NoFile
<1>3. /\ file.format # "none" /\ cmd.records = Parse(cmd.format, file.items) /\ Runs(cmd)
  BY <1>1 DEF SecondFindsAll, ImportIsOfTheFile, Runs
<1>4. FileIsSound'
  BY <1>2, <1>3 DEF AllSound, FileIsSound
<1>5. FileIsHeld'
  <2> SUFFICES ASSUME imported # "none", NEW i \in DOMAIN cmd.records
               PROVE  imported = cmd.format /\ Held(cmd.records[i], entries)
    BY <1>2, <1>3 DEF FileIsHeld, imported
  <2>1. imported = cmd.format /\ Unrivalled /\ cmd.done.failed = 0
    BY DEF imported, Unrivalled
  <2>2. i < cmd.next
    BY <1>1, AtInList DEF AllSound, IsSound, HasShape
  <2> QED BY <1>3, <2>1, <2>2 DEF SecondFindsAll, DoneIsHeld
<1>6. /\ ~Runs(cmd') /\ ~cmd'.again /\ cmd'.at # "merge"
  BY <1>1, IdleIsSound DEF Runs
<1>7. SecondFindsAll'
  BY <1>5, <1>6 DEF SecondFindsAll, ImportIsOfTheFile, KnownIsThere, DoneIsHeld,
                    AgainFindsAll, MergeIsOfOne
<1> QED BY <1>1, <1>4, <1>7, IdleIsSound DEF AllSound, VaultIsSound, UsedIsSound

\* Between two imports there is only the file, with what it was found to hold.
LEMMA NoImportRuns ==
  ASSUME FileIsHeld, file' = file \/ file'.imported = "none", ~Runs(cmd'), ~cmd'.again
  PROVE  SecondFindsAll'
<1>1. FileIsHeld'
  BY DEF FileIsHeld
<1> QED BY <1>1 DEF SecondFindsAll, ImportIsOfTheFile, KnownIsThere, DoneIsHeld,
                    AgainFindsAll, MergeIsOfOne, Runs

\* The other client makes no entry and takes no URL away.
LEMMA RivalKeepsURL ==
  ASSUME AllSound, Rival, NEW id \in Ids, entries'[id] # Absent
  PROVE  /\ entries[id] # Absent
         /\ "url" \in DOMAIN entries[id].data => "url" \in DOMAIN entries'[id].data
<1>1. DOMAIN entries = Ids /\ \A i \in Ids : Present(i) => DOMAIN entries[i] = EntryFields
  BY DEF AllSound, VaultIsSound, SoundEntry, Present
<1>2. ASSUME NEW i \in Ids, NEW key, RivalEdits(i, key, "b")
      PROVE  /\ entries[id] # Absent
             /\ "url" \in DOMAIN entries[id].data => "url" \in DOMAIN entries'[id].data
  <2> DEFINE d == At(key, "b") ++ entries[i].data
  <2>1. entries' = [entries EXCEPT ![i].data = d] /\ Present(i)
    BY <1>1, <1>2 DEF RivalEdits, EntryFields
  <2>2. DOMAIN entries[i].data \subseteq DOMAIN d
    BY DEF ++
  <2> HIDE DEF d
  <2>3. CASE id = i
    <3>1. entries'[id].data = d
      BY <1>1, <2>1, <2>3 DEF EntryFields
    <3> QED BY <2>1, <2>2, <2>3, <3>1 DEF Present
  <2>4. CASE id # i
    BY <1>1, <2>1, <2>4
  <2> QED BY <2>3, <2>4
<1>3. ASSUME NEW i \in Ids, RivalDeletes(i)
      PROVE  /\ entries[id] # Absent
             /\ "url" \in DOMAIN entries[id].data => "url" \in DOMAIN entries'[id].data
  <2>1. entries' = [entries EXCEPT ![i].trashed = TRUE] /\ Present(i)
    BY <1>3 DEF RivalDeletes
  <2>2. CASE id = i
    <3>1. entries'[id].data = entries[id].data
      BY <1>1, <2>1, <2>2 DEF EntryFields
    <3> QED BY <2>1, <2>2, <3>1 DEF Present
  <2>3. CASE id # i
    BY <1>1, <2>1, <2>3
  <2> QED BY <2>2, <2>3
<1> QED BY <1>2, <1>3 DEF Rival

\* The other client ends what an import knows of the vault.
LEMMA RivalEndsAlone ==
  ASSUME AllSound, SecondFindsAll, Rival
  PROVE  SecondFindsAll'
<1>1. UNCHANGED <<file, cmd>> /\ used'.rival = used.rival + 1 /\ used.rival \in Nat
  BY RivalSound DEF AllSound, UsedIsSound
<1>2. Runs(cmd) => cmd.rival \in Nat /\ cmd.rival <= used.rival
  BY DEF SecondFindsAll, ImportIsOfTheFile
<1>3. Runs(cmd) => ~Unrivalled' /\ cmd.rival <= used'.rival
  BY <1>1, <1>2 DEF Unrivalled
<1>4. FileIsHeld' /\ ImportIsOfTheFile'
  BY <1>1, <1>3 DEF SecondFindsAll, FileIsHeld, ImportIsOfTheFile
<1>5. KnownIsThere' /\ DoneIsHeld'
  BY <1>1, <1>3 DEF KnownIsThere, DoneIsHeld
<1>6. AgainFindsAll'
  BY <1>1 DEF SecondFindsAll, AgainFindsAll
<1>7. MergeIsOfOne'
  <2>1. Rec' = Rec
    BY <1>1 DEF Rec
  <2> SUFFICES ASSUME cmd.at = "merge" PROVE MergeIsOfOne'
    BY <1>1 DEF MergeIsOfOne
  <2>2. cmd.id \in Ids /\ cmd.next \in DOMAIN cmd.records
        /\ cmd.id \in FindDuplicates(Rec, cmd.known)
    BY DuplicatesAreTheSame DEF SecondFindsAll, MergeIsOfOne
  <2>3. entries'[cmd.id] # Absent /\ "url" \in DOMAIN cmd.read.data
          => "url" \in DOMAIN entries'[cmd.id].data
    BY <2>2, RivalKeepsURL DEF SecondFindsAll, MergeIsOfOne
  <2> QED BY <1>1, <1>3, <2>1, <2>2, <2>3 DEF MergeIsOfOne, Runs
<1> QED BY <1>4, <1>5, <1>6, <1>7 DEF SecondFindsAll

CommandsInv == AllSound /\ SecondFindsAll

LEMMA CommandsInvInit ==
  CommandsInit => CommandsInv
<1> SUFFICES ASSUME CommandsInit PROVE CommandsInv
  OBVIOUS
<1>1. /\ entries \in Vaults /\ file = NoFile /\ cmd = Idle
      /\ used = [commands |-> 0, rival |-> 0, failures |-> 0, lost |-> 0]
  BY DEF CommandsInit
<1>2. VaultIsSound
  BY <1>1, CommandsConstants, ListsAreLists DEF VaultIsSound, SoundEntry, Fits
<1>3. FileIsSound
  <2>1. /\ NoFile.items = << >> /\ NoFile.format = "none"
    BY DEF NoFile
  <2>2. ListOf(NoFile.items) /\ DOMAIN NoFile.items = {}
    BY <2>1, OneIsAList
  <2> QED BY <1>1, <2>1, <2>2 DEF FileIsSound
<1>4. UsedIsSound
  BY <1>1 DEF UsedIsSound
<1>5. ~Runs(Idle) /\ ~Idle.again /\ Idle.at # "merge" /\ NoFile.imported = "none"
  BY IdleIsSound DEF Runs, NoFile
<1>6. SecondFindsAll
  BY <1>1, <1>5 DEF SecondFindsAll, FileIsHeld, ImportIsOfTheFile, KnownIsThere, DoneIsHeld,
                    AgainFindsAll, MergeIsOfOne
<1> QED BY <1>1, <1>2, <1>3, <1>4, <1>6, IdleIsSound DEF CommandsInv, AllSound

LEMMA CommandsInvStep ==
  ASSUME CommandsInv, [CommandsNext]_commandsVars
  PROVE  CommandsInv'
<1> USE DEF CommandsInv
<1>1. FileIsHeld /\ (cmd.again => Runs(cmd))
  BY DEF SecondFindsAll, AgainFindsAll
<1>2. CASE Writes
  <2>1. CASE \/ \E type \in AddedTypes : \E name, filled, tags :
                    ListOf(tags) /\ Add(type, name, filled, tags)
             \/ \E name, secret : TotpAdd(name, secret)
    BY <2>1, <1>1, AddsSound, NoImportRuns DEF Runs
  <2>2. CASE UpdateRead
    <3>1. ~cmd.again
      BY <2>2, <1>1 DEF Runs, UpdateRead
    <3> QED BY <2>2, <3>1, <1>1, UpdateReadSound, NoImportRuns DEF Runs
  <2>3. ASSUME NEW changes, NEW clear, NEW remove, NEW add, ListOf(add),
               DOMAIN changes \subseteq {"name", "password", "url"},
               UpdateWrite(changes, clear, remove, add)
        PROVE  CommandsInv'
    <3>1. DOMAIN changes \cap (SecretOptions \cup {"totp_secret"}) = {}
      BY <2>3 DEF SecretOptions
    <3> QED BY <2>3, <3>1, <1>1, UpdateWriteSound, IdleIsSound, NoImportRuns DEF Runs
  <2>t. /\ ListOf(<<Tag("w", "raw"), Tag("w", "upper")>>)
        /\ ListOf(<<Tag("v", "clean")>>) /\ ListOf(<< >>)
    <3>1. \A x, y : <<x, y>> \in Seq({x, y})
      OBVIOUS
    <3> QED BY <3>1, OneIsAList DEF ListOf
  <2>4. \/ \E type \in AddedTypes : \E name, filled, tags :
              ListOf(tags) /\ Add(type, name, filled, tags)
        \/ \E name, secret : TotpAdd(name, secret)
        \/ UpdateRead
        \/ UpdateWrite([name |-> "b"], FALSE, << >>, << >>)
        \/ UpdateWrite([password |-> "b"], FALSE, << >>, << >>)
        \/ UpdateWrite([url |-> "b"], FALSE, <<Tag("w", "upper")>>, <<Tag("v", "clean")>>)
    <3>1. CASE \E type \in AddedTypes, filled \in Fill :
                  Add(type, "a", filled, <<Tag("w", "raw"), Tag("w", "upper")>>)
      BY <3>1, <2>t, Zenon
    <3>2. CASE \E secret \in {"a", "b"} : TotpAdd("a", secret)
      BY <3>2, Zenon
    <3> QED BY <1>2, <3>1, <3>2 DEF Writes, AddedTypes
  <2> QED BY <2>1, <2>2, <2>3, <2>4, <2>t
<1>3. CASE Removes
  <2>1. CASE Delete \/ TrashRestore \/ TrashPurge
    BY <2>1, <1>1, RemovesSound, IdleIsSound, NoImportRuns DEF Runs
  <2>2. CASE \/ \E op, name, type : Resolve(op, name, type)
             \/ \E op, name : ResolveTrash(op, name)
    BY <2>2, <1>1, ResolvesSound, NoImportRuns DEF Runs
  <2> QED BY <1>3, <2>1, <2>2 DEF Removes
<1>4. CASE Imports
  <2>1. CASE \E format, mode : StartImport(format, mode)
    BY <2>1, ImportStarts
  <2>2. CASE ImportSkips \/ ImportAmbiguous \/ ImportCallFails
    BY <2>2, ImportPassesOver
  <2>3. CASE ImportReplaces \/ ImportReads \/ ImportMerges
    BY <2>3, ImportReplacesSound, ImportReadsSound, ImportMergesSound
  <2>4. CASE ImportCreates \/ ImportMakesFolder \/ ImportFolderFails \/ FinishImport
    BY <2>4, ImportCreatesSound, ImportFoldersSound, ImportFinishes
  <2> QED BY <1>4, <2>1, <2>2, <2>3, <2>4 DEF Imports
<1>5. CASE Files
  <2>1. CASE \E format \in {"csv-generic", "bitwarden", "1pux", "csv-1password"} : Export(format)
    BY <2>1, <1>1, ExportSound, NoImportRuns DEF Runs
  <2>2. CASE \E f \in Foreign : FindFile(f)
    BY <2>2, <1>1, FindFileSound, NoImportRuns DEF Runs
  <2>3. CASE StartBackup \/ BackupReads \/ FinishBackup
    <3>1. ~cmd.again
      BY <2>3, <1>1 DEF Runs, StartBackup, BackupReads, FinishBackup, Begin
    <3> QED BY <2>3, <3>1, <1>1, BackupsSound, NoImportRuns DEF Runs
  <2>4. CASE StartRestore \/ RestoreCreates \/ FinishRestore
    <3>1. ~cmd.again
      BY <2>4, <1>1 DEF Runs, StartRestore, RestoreCreates, FinishRestore, Begin
    <3> QED BY <2>4, <3>1, <1>1, RestoresSound, NoImportRuns DEF Runs
  <2> QED BY <1>5, <2>1, <2>2, <2>3, <2>4 DEF Files
<1>6. CASE Rival
  BY <1>6, RivalSound, RivalEndsAlone
<1>7. CASE CommandFails
  BY <1>7, <1>1, CommandFailsSound, IdleIsSound, NoImportRuns DEF Runs
<1>8. CASE UNCHANGED commandsVars
  BY <1>8 DEF commandsVars, AllSound, VaultIsSound, FileIsSound, UsedIsSound, SecondFindsAll,
              FileIsHeld, ImportIsOfTheFile, KnownIsThere, DoneIsHeld, AgainFindsAll,
              MergeIsOfOne, Unrivalled, Rec
<1> QED BY <1>2, <1>3, <1>4, <1>5, <1>6, <1>7, <1>8 DEF CommandsNext

LEMMA CommandsKeepInv == CommandsSpec => []CommandsInv
<1>1. CommandsInv /\ [CommandsNext]_commandsVars => CommandsInv'
  BY CommandsInvStep
<1> QED BY <1>1, CommandsInvInit, PTL DEF CommandsSpec

\* Whatever is added, edited, imported, merged or restored, by the user or
\* another client: the options an entry has for its codes are those its secret
\* was given with.  mergeImportedData leaves them behind when the file brings
\* another secret, and an entry that lost a stray secret keeps none that count.
THEOREM OptionsStayWithTheSecret == CommandsSpec => []OptionsFitTheSecret
<1>1. CommandsInv => OptionsFitTheSecret
  BY DEF CommandsInv, AllSound, VaultIsSound, SoundEntry, Fits, OptionsFitTheSecret
<1> QED BY <1>1, CommandsKeepInv, PTL

\* importCmd: a file that was imported without a failure, and without the other
\* client, is found record by record by the next import of it, so that it makes
\* no entry, in whatever mode either ran and whatever the merges wrote.
THEOREM SecondImportMakesNothing == CommandsSpec => []ImportTwiceAddsNothing
<1>1. CommandsInv => ImportTwiceAddsNothing
  BY DEF CommandsInv, SecondFindsAll, AgainFindsAll, ImportTwiceAddsNothing
<1> QED BY <1>1, CommandsKeepInv, PTL

-----------------------------------------------------------------------------
(***************************************************************************)
(* What a merge keeps, and what a file holds.                              *)
(***************************************************************************)

LEMMA MergedData ==
  ASSUME NEW read, NEW rec, "name" \in DOMAIN rec.data, NEW old,
         "url" \in DOMAIN read.data => "url" \in DOMAIN old,
         NEW d, d = MergeImportedData(read, rec) ++ Only(old, {"url"})
  PROVE  /\ \A k \in DOMAIN read.data \ SecretOptions :
               k \in DOMAIN d /\ (k \in DOMAIN rec.data \/ k = "url" \/ d[k] = read.data[k])
         /\ \A k \in DOMAIN rec.data : d[k] = rec.data[k]
<1> DEFINE kept == IF /\ "totp_secret" \in DOMAIN rec.data
                      /\ Trim(rec.data["totp_secret"]) # Trim(Get(read.data, "totp_secret"))
                   THEN Only(read.data, DOMAIN read.data \ SecretOptions) ELSE read.data
           rest == Only(kept, DOMAIN kept \ {"url", "name"})
<1>1. d = (rec.data ++ rest) ++ Only(old, {"url"})
  BY DEF MergeImportedData
<1>2. \A k \in DOMAIN read.data \ SecretOptions :
         k \notin {"url", "name"} => k \in DOMAIN rest /\ rest[k] = read.data[k]
  BY DEF Only
<1> HIDE DEF rest
<1>3. \A k \in DOMAIN rec.data : k \in DOMAIN d /\ d[k] = rec.data[k]
  BY <1>1 DEF ++
<1>4. \A k \in DOMAIN rest : k \in DOMAIN d /\ (k \in DOMAIN rec.data \/ d[k] = rest[k])
  BY <1>1 DEF ++
<1>5. "url" \in DOMAIN old => "url" \in DOMAIN d
  BY <1>1 DEF ++, Only
<1> QED BY <1>2, <1>3, <1>4, <1>5

LEMMA MergeKeeps ==
  ASSUME CommandsInv, ImportMerges, NEW id \in Ids, entries'[id] # entries[id]
  PROVE  KeepsTheRest(cmd.read, Rec, entries'[id])
<1> DEFINE old == entries[cmd.id]
           custom == MergeCustomFields(cmd.read.custom, Rec.custom)
           tags == IF Rec.tags # << >> THEN Rec.tags ELSE cmd.read.tags
           data == MergeImportedData(cmd.read, Rec)
           e == Overwritten(old, data, custom, tags, cmd.read.extra)
<1>1. cmd.at = "merge" /\ Present(cmd.id)
  BY DEF ImportMerges
<1>2. /\ AllSound /\ SecondFindsAll /\ cmd.id \in Ids /\ SoundEntry(cmd.read) /\ BareRecord(Rec)
      /\ SoundEntry(old)
  BY <1>1, ImportStands DEF CommandsInv, AllSound, IsSound, VaultIsSound, Present
<1>3. entries' = [entries EXCEPT ![cmd.id] = e] /\ DOMAIN entries = Ids
  BY <1>1, <1>2 DEF ImportMerges, AllSound, VaultIsSound
<1>4. entries'[id] = e
  BY <1>2, <1>3
<1> HIDE DEF custom, tags, data
<1>5. /\ e.data = data ++ Only(old.data, {"url"})
      /\ e.custom = custom /\ e.tags = tags /\ e.extra = cmd.read.extra
  BY <1>2, OverwrittenFields DEF SoundEntry
<1> HIDE DEF e
<1>6. /\ \A k \in DOMAIN cmd.read.data \ SecretOptions :
            k \in DOMAIN e.data
              /\ (k \in DOMAIN Rec.data \/ k = "url" \/ e.data[k] = cmd.read.data[k])
      /\ \A k \in DOMAIN Rec.data : e.data[k] = Rec.data[k]
  <2>1. "name" \in DOMAIN Rec.data
        /\ ("url" \in DOMAIN cmd.read.data => "url" \in DOMAIN old.data)
    BY <1>1, <1>2 DEF BareRecord, Present, SecondFindsAll, MergeIsOfOne
  <2>2. e.data = MergeImportedData(cmd.read, Rec) ++ Only(old.data, {"url"})
    BY <1>5 DEF data
  <2> QED BY <2>1, <2>2, MergedData
<1>7. Rec.tags = << >> => e.tags = cmd.read.tags
  BY <1>5 DEF tags
<1>8. ListOf(cmd.read.custom) /\ ListOf(Rec.custom)
  BY <1>2 DEF SoundEntry, Fits, BareRecord
<1>9. \A label : Count(e.custom, label)
                   = IF Count(cmd.read.custom, label) >= Count(Rec.custom, label)
                     THEN Count(cmd.read.custom, label) ELSE Count(Rec.custom, label)
  BY <1>5, <1>8, MergeCountsLabels DEF custom
<1>10. /\ \A cf \in Range(Rec.custom) : cf.value # "" => cf \in Range(e.custom)
       /\ \A cf \in Range(cmd.read.custom) :
             cf \in Range(e.custom)
               \/ \E in \in Range(Rec.custom) : in.label = cf.label /\ in.value # ""
  <2>1. custom = MergeCustomFields(cmd.read.custom, Rec.custom)
    BY DEF custom
  <2>2. \A cf \in Range(Rec.custom) : cf.value # "" => cf \in Range(custom)
    BY <1>8, <2>1, MergeKeepsFields, Zenon
  <2>3. \A cf \in Range(cmd.read.custom) :
           cf \in Range(custom)
             \/ \E in \in Range(Rec.custom) : in.label = cf.label /\ in.value # ""
    BY <1>8, <2>1, MergeKeepsFields, Zenon
  <2> QED BY <1>5, <2>2, <2>3, Zenon
<1> QED BY <1>4, <1>5, <1>6, <1>7, <1>9, <1>10 DEF KeepsTheRest

\* Only the write of a merge changes an entry while one is going on, but for
\* the other client, who leaves the command alone.
LEMMA OnlyTheMergeWrites ==
  ASSUME CommandsInv, CommandsNext, cmd.at = "merge", cmd' # cmd, entries' # entries
  PROVE  ImportMerges
<1>1. ~Rival
  BY RivalSound DEF CommandsInv
<1>2. ~Writes
  BY DEF Writes, Add, TotpAdd, UpdateRead, UpdateWrite, Begin
<1>3. ~Removes
  BY DEF Removes, Resolve, ResolveTrash, Delete, TrashRestore, TrashPurge, Begin
<1>4. ~Files
  BY DEF Files, Export, FindFile, StartBackup, BackupReads, FinishBackup, StartRestore,
         RestoreCreates, FinishRestore, Begin
<1>5. ~CommandFails
  BY DEF CommandFails
<1>6. Imports => ImportMerges
  BY DEF Imports, StartImport, ImportSkips, ImportAmbiguous, ImportReplaces, ImportReads,
         ImportMakesFolder, ImportFolderFails, ImportCreates, ImportCallFails, FinishImport,
         Overwriting, Creating, Importing, Begin
<1> QED BY <1>1, <1>2, <1>3, <1>4, <1>5, <1>6 DEF CommandsNext

\* mergeImportedData and mergeCustomFields: an entry that an import merges into
\* keeps each value, tag and unknown key the file does not speak to, has as many
\* fields of each label as the side that has more of them, keeps or updates each
\* one it had, and takes every value the file has.
THEOREM MergesLoseNothing == CommandsSpec => MergeKeepsTheRest
<1>1. ASSUME CommandsInv, [CommandsNext]_commandsVars
      PROVE  \A id \in Ids : cmd.at = "merge" /\ cmd' # cmd /\ entries'[id] # entries[id]
                               => KeepsTheRest(cmd.read, Rec, entries'[id])
  <2> SUFFICES ASSUME NEW id \in Ids, cmd.at = "merge", cmd' # cmd, entries'[id] # entries[id]
               PROVE  KeepsTheRest(cmd.read, Rec, entries'[id])
    OBVIOUS
  <2>1. CommandsNext /\ entries' # entries
    BY <1>1 DEF commandsVars
  <2> QED BY <1>1, <2>1, OnlyTheMergeWrites, MergeKeeps
<1> QED BY <1>1, CommandsKeepInv, PTL DEF CommandsSpec, MergeKeepsTheRest

\* The rows of a CSV export are counted short by what they lack.
LEMMA ExportLeavesNothingOut ==
  ASSUME CommandsInv, NEW format \in {"bitwarden", "1pux", "csv-generic", "csv-1password"},
         Export(format)
  PROVE  NothingLeftOutSilently'
<1> DEFINE of == [i \in DOMAIN Readable |-> AsRead(entries[Readable[i]])]
           left == IF format = "csv-generic" THEN Total([i \in DOMAIN of |-> CSVLeftOut(of[i])])
                   ELSE 0
<1>1. /\ file'.format = format /\ file'.items = [i \in DOMAIN of |-> Render(format, of[i])]
      /\ file'.of = of /\ file'.told = left
  BY DEF Export
<1>2. ListOf(of) /\ \A i \in DOMAIN of : SoundEntry(of[i])
  BY ExportedAreSound DEF CommandsInv, AllSound
<1> HIDE DEF of
<1>3. format = "csv-generic"
        => left = Total([i \in DOMAIN of |-> LacksOf(CSVRow(of[i]), of[i])])
  <2>1. [i \in DOMAIN of |-> CSVLeftOut(of[i])]
          = [i \in DOMAIN of |-> LacksOf(CSVRow(of[i]), of[i])]
    BY CountedIsLacking
  <2> QED BY <2>1
<1>4. format = "bitwarden" => \A i \in DOMAIN of : HoldsAll(file'.items[i], of[i])
  <2> SUFFICES ASSUME format = "bitwarden", NEW i \in DOMAIN of
               PROVE  HoldsAll(file'.items[i], of[i])
    OBVIOUS
  <2>1. file'.items[i] = BitwardenItem(of[i], TRUE)
    BY <1>1 DEF Render
  <2>2. HoldsAll(BitwardenItem(of[i], TRUE), of[i])
    BY <1>2, BitwardenHoldsAll DEF SoundEntry, Fits
  <2> QED BY <2>1, <2>2
<1> HIDE DEF left
<1> QED BY <1>1, <1>3, <1>4 DEF NothingLeftOutSilently

LEMMA BackupLeavesNothingOut ==
  ASSUME FinishBackup
  PROVE  NothingLeftOutSilently'
<1> DEFINE of == cmd.records
           items == [i \in DOMAIN of |-> Render("backup", of[i])]
<1>1. file' = [NoFile EXCEPT !.format = "backup", !.of = of, !.told = cmd.done.skipped,
                             !.items = items]
  BY DEF FinishBackup
<1>2. \A i \in DOMAIN of : items[i] = BackupEntry(of[i])
  BY DEF Render
<1>3. \A i \in DOMAIN of : \A k \in {"type", "data", "custom", "tags", "extra"} :
         items[i][k] = of[i][k]
  BY <1>2, BackupParts
<1> HIDE DEF items
<1>4. file'.format = "backup" /\ file'.of = of /\ file'.items = items
  BY <1>1 DEF NoFile
<1> QED BY <1>3, <1>4 DEF NothingLeftOutSilently

\* A file that is found was made from no entry here.
LEMMA FoundIsOfNothing ==
  ASSUME NEW f \in Foreign, FindFile(f)
  PROVE  NothingLeftOutSilently'
<1>1. file'.format = f.format /\ file'.of = << >>
  BY DEF FindFile, NoFile
<1>2. DOMAIN << >> = {}
  OBVIOUS
<1> QED BY <1>1, <1>2 DEF NothingLeftOutSilently

\* A finished import notes that it was one, and touches nothing else of the file.
LEMMA ImportedLeavesNothingOut ==
  ASSUME CommandsInv, NothingLeftOutSilently, FinishImport
  PROVE  NothingLeftOutSilently'
<1> DEFINE imported == IF cmd.done.failed = 0 /\ cmd.rival = used.rival THEN cmd.format ELSE "none"
<1>1. file' = [file EXCEPT !.imported = imported, !.after = entries]
  BY DEF FinishImport
<1> HIDE DEF imported
<1>2. /\ file'.format = file.format /\ file'.items = file.items /\ file'.of = file.of
      /\ file'.told = file.told
  BY <1>1 DEF CommandsInv, AllSound, FileIsSound, NoFile
<1> QED BY <1>2 DEF NothingLeftOutSilently

\* Every other command leaves the file alone.
LEMMA FilesChangeSo ==
  ASSUME CommandsInv, CommandsNext, file' # file
  PROVE  \/ \E format \in {"bitwarden", "1pux", "csv-generic", "csv-1password"} : Export(format)
         \/ \E f \in Foreign : FindFile(f)
         \/ FinishBackup \/ FinishImport
<1>1. ~Rival
  BY RivalSound DEF CommandsInv
<1>2. ~Writes
  BY DEF Writes, Add, TotpAdd, UpdateRead, UpdateWrite
<1>3. ~Removes
  BY DEF Removes, Resolve, ResolveTrash, Delete, TrashRestore, TrashPurge
<1>4. ~CommandFails
  BY DEF CommandFails
<1>5. Files => \/ \E format \in {"bitwarden", "1pux", "csv-generic", "csv-1password"} : Export(format)
               \/ \E f \in Foreign : FindFile(f)
               \/ FinishBackup
  BY DEF Files, StartBackup, BackupReads, StartRestore, RestoreCreates, FinishRestore
<1>6. Imports => FinishImport
  BY DEF Imports, StartImport, ImportSkips, ImportAmbiguous, ImportReplaces, ImportReads,
         ImportMerges, ImportMakesFolder, ImportFolderFails, ImportCreates, ImportCallFails
<1> QED BY <1>1, <1>2, <1>3, <1>4, <1>5, <1>6 DEF CommandsNext

\* ExportBitwarden, ExportCSV and backup.Create, from every vault: each value of
\* each entry is in the file, masked where it is a secret, or it is counted among
\* those the user is told of.
THEOREM ExportsTellAll == CommandsSpec => []NothingLeftOutSilently
<1>1. ASSUME CommandsInv, NothingLeftOutSilently, [CommandsNext]_commandsVars
      PROVE  NothingLeftOutSilently'
  <2>1. CASE file' = file
    BY <1>1, <2>1 DEF NothingLeftOutSilently
  <2>2. CASE file' # file
    <3>1. CommandsNext
      BY <1>1, <2>2 DEF commandsVars
    <3> QED BY <1>1, <2>2, <3>1, FilesChangeSo, ExportLeavesNothingOut, BackupLeavesNothingOut,
               FoundIsOfNothing, ImportedLeavesNothingOut
  <2> QED BY <2>1, <2>2
<1>2. CommandsInit => NothingLeftOutSilently
  <2> SUFFICES ASSUME CommandsInit PROVE NothingLeftOutSilently
    OBVIOUS
  <2>1. file.format = "none" /\ file.of = << >>
    BY DEF CommandsInit, NoFile
  <2> QED BY <2>1 DEF NothingLeftOutSilently
<1> QED BY <1>1, <1>2, CommandsKeepInv, PTL DEF CommandsSpec
-----------------------------------------------------------------------------
(***************************************************************************)
(* What comes home: an entry that is exported and read back.               *)
(***************************************************************************)

\* What ComesHome says of one entry and the record that is read of its item.
Returns(format, e, rec) ==
  LET read(v) == IF format \in {"csv-generic", "csv-1password"} THEN Trim(v) ELSE v
  IN  /\ \A k \in HomeKeys(format, e.type) : Get(rec.data, k) = read(Get(e.data, k))
      /\ TagsAreAlone(e) \/ format # "bitwarden" => Words(rec.tags) = Words(e.tags)
      /\ format # "csv-generic" =>
            IF e.type \in {"note", "credit-card", "identity"} \/ format = "backup"
            THEN rec.type = e.type
            ELSE rec.type \in {"password", "totp"}
      /\ format \in {"bitwarden", "1pux"} =>
            \A cf \in Range(e.custom) :
               Travels(format, cf) =>
                  \E c \in Range(rec.custom) :
                     /\ c.value = cf.value
                     /\ c.label \in {cf.label, cf.filename}
                     /\ (c.kind = "file") = (cf.kind = "file")

\* Nothing is left of the value.
Blank(v) == Trim(v) = ""
Empty(v) == v = ""

\* No importer of the format takes the name for one.
Nameless(format, e) ==
  IF format \in {"csv-generic", "csv-1password"} THEN Blank(Name(e)) ELSE Empty(Name(e))

LEMMA NonEmptyHolds ==
  ASSUME NEW f, NEW k
  PROVE  /\ Get(NonEmpty(f), k) = Get(f, k)
         /\ k \in DOMAIN NonEmpty(f) <=> Get(f, k) # ""
<1>1. NonEmpty(f) = [x \in DOMAIN f \cap {y \in DOMAIN f : f[y] # ""} |-> f[x]]
  BY DEF NonEmpty, Only
<1>2. /\ k \in DOMAIN NonEmpty(f) <=> k \in DOMAIN f /\ f[k] # ""
      /\ k \in DOMAIN NonEmpty(f) => NonEmpty(f)[k] = f[k]
  BY <1>1
<1> QED BY <1>2 DEF Get

LEMMA NonEmptyReads ==
  ASSUME NEW f, NEW k
  PROVE  Get(NonEmpty(f), k) = Get(f, k)
BY NonEmptyHolds

LEMMA LaidOverReads ==
  ASSUME NEW f, NEW g, NEW k
  PROVE  /\ k \in DOMAIN f => Get(f ++ g, k) = f[k]
         /\ k \notin DOMAIN f => Get(f ++ g, k) = Get(g, k)
BY DEF Get, ++

LEMMA TrimsOfWords ==
  /\ Trim("") = ""
  /\ \A type : Trim(OnePasswordType(type)) = OnePasswordType(type)
<1>1. Trim("") = ""
  BY DEF Trim
<1>2. \A v \in {"Secure Note", "Credit Card", "Identity", "Login"} : Trim(v) = v
  BY DEF Trim
<1>3. \A type : OnePasswordType(type) \in {"Secure Note", "Credit Card", "Identity", "Login"}
  BY DEF OnePasswordType
<1> QED BY <1>1, <1>2, <1>3

\* The kinds of 1Password stand for the types they came from.
LEMMA KindsReadBack ==
  ASSUME NEW type
  PROVE  TypeOfOnePassword(OnePasswordType(type))
           = IF type \in {"note", "credit-card", "identity"} THEN type ELSE "password"
<1>1. CASE type = "note"
  BY <1>1 DEF OnePasswordType, TypeOfOnePassword
<1>2. CASE type = "credit-card"
  BY <1>2 DEF OnePasswordType, TypeOfOnePassword
<1>3. CASE type = "identity"
  BY <1>3 DEF OnePasswordType, TypeOfOnePassword
<1>4. CASE type \notin {"note", "credit-card", "identity"}
  <2>1. OnePasswordType(type) = "Login"
    BY <1>4 DEF OnePasswordType
  <2>2. TypeOfOnePassword("Login") = "password"
    BY DEF TypeOfOnePassword
  <2> QED BY <2>1, <2>2, <1>4
<1> QED BY <1>1, <1>2, <1>3, <1>4

\* The types a record of a login is settled to.
LEMMA SettledTypes ==
  ASSUME NEW type, NEW data
  PROVE  /\ type # "password" => SettleLoginType(type, data) = type
         /\ type = "password" => SettleLoginType(type, data) \in {"password", "totp"}
BY DEF SettleLoginType

\* A row as it is read: each value in the column it was written to, trimmed.
LEMMA RowsReadBack ==
  ASSUME NEW row, NEW columns, columns \in {GenericColumns, OnePasswordColumns},
         DOMAIN row.cells = DOMAIN columns, ListOf(row.tags),
         \A i, j \in DOMAIN columns : columns[i] = columns[j] => i = j,
         1 \in DOMAIN columns, columns[1] = "name", ~Blank(row.cells[1])
  PROVE  LET rec == ConvertCSVRow(row, columns)
         IN  /\ \A i \in DOMAIN columns : columns[i] \in DataKeys
                                    => Get(rec.data, columns[i]) = Trim(row.cells[i])
             /\ Words(rec.tags) = Words(row.tags)
             /\ \A i \in DOMAIN columns : columns = OnePasswordColumns /\ columns[i] = "type"
                                    => rec.type = TypeOfOnePassword(Trim(row.cells[i]))
<1> DEFINE at(k) == CHOOSE i \in DOMAIN columns : columns[i] = k
           cell(k) == Trim(row.cells[at(k)])
           read == {columns[i] : i \in DOMAIN columns \cap DOMAIN row.cells}
           all == [k \in read \cap DataKeys |-> cell(k)]
           data == NonEmpty(all)
           type == IF columns = OnePasswordColumns /\ "type" \in read
                   THEN TypeOfOnePassword(cell("type")) ELSE "password"
           tags == IF columns \in {GenericColumns, OnePasswordColumns}
                   THEN SplitTags(row.tags) ELSE << >>
           kind == IF columns = LastPassColumns THEN SettleLoginType(type, data) ELSE type
           rec == Record(kind, data, << >>, tags, << >>)
<1>1. ConvertCSVRow(row, columns) = Named(rec, Get(data, "url"))
  BY Zenon DEF ConvertCSVRow
<1>2. \A i \in DOMAIN columns : at(columns[i]) = i
  OBVIOUS
<1> HIDE DEF at
<1>3. \A i \in DOMAIN columns : columns[i] \in read /\ cell(columns[i]) = Trim(row.cells[i])
  BY <1>2
<1> HIDE DEF cell, read
<1>4. \A i \in DOMAIN columns : columns[i] \in DataKeys => Get(all, columns[i]) = Trim(row.cells[i])
  BY <1>3 DEF Get
<1> HIDE DEF all
<1>5. \A i \in DOMAIN columns : columns[i] \in DataKeys => Get(data, columns[i]) = Trim(row.cells[i])
  BY <1>4, NonEmptyReads
<1>6. "name" \in DOMAIN data
  <2>1. Get(all, "name") = Trim(row.cells[1])
    BY <1>4 DEF DataKeys
  <2>2. Get(all, "name") # ""
    BY <2>1, Zenon DEF Blank
  <2> QED BY <2>2, NonEmptyHolds, Zenon
<1>7. columns # LastPassColumns
  BY DEF GenericColumns, OnePasswordColumns, LastPassColumns
<1> HIDE DEF data
<1>8. tags = SplitTags(row.tags)
  OBVIOUS
<1>9. \A i \in DOMAIN columns : columns = OnePasswordColumns /\ columns[i] = "type"
                          => type = TypeOfOnePassword(Trim(row.cells[i]))
  BY <1>3
<1> HIDE DEF tags, type
<1>k. kind = type
  BY <1>7
<1> HIDE DEF kind
<1>10. rec.type = kind /\ rec.data = data /\ rec.tags = tags
  BY RecordParts
<1> HIDE DEF rec
<1>11. ConvertCSVRow(row, columns) = rec
  BY <1>1, <1>6, <1>10 DEF Named
<1> QED BY <1>5, <1>8, <1>9, <1>10, <1>11, <1>k, SplitLists

LEMMA GenericReturns ==
  ASSUME NEW e, ListOf(e.tags), ~Blank(Name(e))
  PROVE  Returns("csv-generic", e, Convert("csv-generic", Render("csv-generic", e)))
<1> DEFINE row == CSVRow(e)
           rec == ConvertCSVRow(row, GenericColumns)
<1>1. Convert("csv-generic", Render("csv-generic", e)) = rec
  BY DEF Convert, Render
<1>2. /\ DOMAIN row.cells = 1 .. 5 /\ row.tags = e.tags
      /\ \A i \in 1 .. 5 : row.cells[i] = Get(e.data, GenericColumns[i])
  BY DEF CSVRow
<1>3. /\ GenericColumns[1] = "name" /\ GenericColumns[2] = "url" /\ GenericColumns[3] = "username"
      /\ GenericColumns[4] = "password" /\ GenericColumns[5] = "notes"
      /\ DOMAIN GenericColumns = 1 .. 5 /\ 1 \in 1 .. 5
  BY DEF GenericColumns
<1>4. \A i \in 1 .. 5 : i = 1 \/ i = 2 \/ i = 3 \/ i = 4 \/ i = 5
  OBVIOUS
<1>5. \A i, j \in 1 .. 5 : GenericColumns[i] = GenericColumns[j] => i = j
  BY <1>3, <1>4
<1>6. ~Blank(row.cells[1]) /\ ListOf(row.tags)
  BY <1>2, <1>3 DEF Name
<1> HIDE DEF row
<1>7. /\ \A i \in 1 .. 5 : GenericColumns[i] \in DataKeys
                             => Get(rec.data, GenericColumns[i]) = Trim(row.cells[i])
      /\ Words(rec.tags) = Words(row.tags)
  BY <1>2, <1>3, <1>5, <1>6, RowsReadBack
<1> HIDE DEF rec
<1>8. \A i \in 1 .. 5 : GenericColumns[i] \in DataKeys
  BY <1>3, <1>4 DEF DataKeys, KeyedFields, LoginKeys
<1>9. \A i \in 1 .. 5 : Get(rec.data, GenericColumns[i]) = Trim(Get(e.data, GenericColumns[i]))
  BY <1>2, <1>7, <1>8
<1>10. \A k \in {"name", "url", "username", "password", "notes"} :
          Get(rec.data, k) = Trim(Get(e.data, k))
  BY <1>3, <1>9
<1>11. HomeKeys("csv-generic", e.type) = {"name", "url", "username", "password", "notes"}
  BY DEF HomeKeys
<1> QED BY <1>1, <1>2, <1>7, <1>10, <1>11 DEF Returns

LEMMA OnePasswordReturns ==
  ASSUME NEW e, ListOf(e.tags), ~Blank(Name(e))
  PROVE  Returns("csv-1password", e, Convert("csv-1password", Render("csv-1password", e)))
<1> DEFINE row == OnePasswordRow(e)
           rec == ConvertCSVRow(row, OnePasswordColumns)
<1>1. Convert("csv-1password", Render("csv-1password", e)) = rec
  BY DEF Convert, Render
<1>2. /\ DOMAIN row.cells = 1 .. 6 /\ row.tags = e.tags
      /\ \A i \in 1 .. 5 : row.cells[i] = Get(e.data, OnePasswordColumns[i])
      /\ row.cells[6] = OnePasswordType(e.type)
  BY DEF OnePasswordRow
<1>3. /\ OnePasswordColumns[1] = "name" /\ OnePasswordColumns[2] = "username"
      /\ OnePasswordColumns[3] = "password" /\ OnePasswordColumns[4] = "url"
      /\ OnePasswordColumns[5] = "notes" /\ OnePasswordColumns[6] = "type"
      /\ DOMAIN OnePasswordColumns = 1 .. 6 /\ 1 \in 1 .. 6 /\ 6 \in 1 .. 6
  BY DEF OnePasswordColumns
<1>4. \A i \in 1 .. 6 : i = 1 \/ i = 2 \/ i = 3 \/ i = 4 \/ i = 5 \/ i = 6
  OBVIOUS
<1>5. \A i, j \in 1 .. 6 : OnePasswordColumns[i] = OnePasswordColumns[j] => i = j
  BY <1>3, <1>4
<1>6. ~Blank(row.cells[1]) /\ ListOf(row.tags)
  BY <1>2, <1>3 DEF Name
<1> HIDE DEF row
<1>7. /\ \A i \in 1 .. 6 : OnePasswordColumns[i] \in DataKeys
                             => Get(rec.data, OnePasswordColumns[i]) = Trim(row.cells[i])
      /\ Words(rec.tags) = Words(row.tags)
      /\ rec.type = TypeOfOnePassword(Trim(row.cells[6]))
  BY <1>2, <1>3, <1>5, <1>6, RowsReadBack
<1> HIDE DEF rec
<1>8. \A i \in 1 .. 5 : OnePasswordColumns[i] \in DataKeys /\ i \in 1 .. 6
  BY <1>3, <1>4 DEF DataKeys, KeyedFields, LoginKeys
<1>9. \A i \in 1 .. 5 :
         Get(rec.data, OnePasswordColumns[i]) = Trim(Get(e.data, OnePasswordColumns[i]))
  BY <1>2, <1>7, <1>8
<1>10. \A k \in {"name", "url", "username", "password", "notes"} :
          Get(rec.data, k) = Trim(Get(e.data, k))
  BY <1>3, <1>9
<1>11. HomeKeys("csv-1password", e.type) = {"name", "url", "username", "password", "notes"}
  BY DEF HomeKeys
<1>12. rec.type = IF e.type \in {"note", "credit-card", "identity"} THEN e.type ELSE "password"
  BY <1>2, <1>7, TrimsOfWords, KindsReadBack
<1> QED BY <1>1, <1>2, <1>7, <1>10, <1>11, <1>12 DEF Returns

LEMMA BackupReturns ==
  ASSUME NEW e
  PROVE  Returns("backup", e, Convert("backup", Render("backup", e)))
<1>1. Convert("backup", Render("backup", e)) = BackupEntry(e)
  BY DEF Convert, Render
<1> QED BY <1>1, BackupParts DEF Returns

LEMMA CustomParts ==
  ASSUME NEW label, NEW value, NEW kind, NEW filename, NEW mime
  PROVE  LET c == Custom(label, value, kind, filename, mime)
         IN  c.label = label /\ c.value = value /\ c.kind = kind
BY DEF Custom

\* A custom field that travels is a field of its own name, and comes back from it.
LEMMA FieldReadsBack ==
  ASSUME NEW cf, Travels("bitwarden", cf)
  PROVE  LET f == FieldOfCustom(cf)
             c == CustomOfField(f)
         IN  /\ f.name \notin {"", TagsField}
             /\ c.value = cf.value /\ c.label \in {cf.label, cf.filename}
             /\ (c.kind = "file") = (cf.kind = "file")
<1> DEFINE f == FieldOfCustom(cf)
           c == CustomOfField(f)
<1>1. FieldName(cf) \notin {"", TagsField} /\ FieldName(cf) \in {cf.label, cf.filename}
  BY Zenon DEF Travels, FieldName
<1>2. CASE cf.kind = "file"
  <2> DEFINE name == IF cf.filename = "" THEN cf.label ELSE cf.filename
             mime == IF cf.mime = "" THEN "generic" ELSE cf.mime
             g == Field(name, cf.value, TRUE)
  <2>1. f = [g EXCEPT !.uri = TRUE, !.mime = mime]
    BY <1>2, Zenon DEF FieldOfCustom
  <2>2. name = FieldName(cf)
    BY <1>2, Zenon DEF FieldName
  <2> HIDE DEF name, mime
  <2>3. PICK tags, none : g = [name |-> name, value |-> cf.value, hidden |-> TRUE, uri |-> FALSE,
                               mime |-> none, tags |-> tags]
    BY Zenon DEF Field
  <2> HIDE DEF f, g
  <2>4. f.name = name /\ f.value = cf.value /\ f.hidden = TRUE /\ f.uri = TRUE
    BY <2>1, <2>3
  <2>5. IsBase64(f.value)
    BY <1>2, <2>4, Zenon DEF Travels
  <2>6. c = Custom(f.name, f.value, "file", f.name, f.mime)
    BY <2>4, <2>5, Zenon DEF CustomOfField
  <2>7. c.label = f.name /\ c.value = f.value /\ c.kind = "file"
    BY <2>6, CustomParts
  <2>8. (c.kind = "file") = (cf.kind = "file")
    BY <2>7, <1>2
  <2> QED BY <1>1, <2>2, <2>4, <2>7, <2>8, Zenon DEF f
<1>3. CASE cf.kind # "file"
  <2>1. f = Field(cf.label, cf.value, CustomKind(cf.kind) \notin PlainKinds)
    BY <1>3, Zenon DEF FieldOfCustom
  <2>2. FieldName(cf) = cf.label
    BY <1>3, Zenon DEF FieldName
  <2>3. PICK hidden, tags, none :
           f = [name |-> cf.label, value |-> cf.value, hidden |-> hidden, uri |-> FALSE,
                mime |-> none, tags |-> tags]
    BY <2>1, Zenon DEF Field
  <2> HIDE DEF f
  <2>4. f.name = cf.label /\ f.value = cf.value /\ f.uri = FALSE
    BY <2>3
  <2>5. PICK kind, none2 :
           c = Custom(f.name, f.value, kind, none2, none2) /\ kind \in {"", "password"}
    BY <2>4, Zenon DEF CustomOfField
  <2> HIDE DEF c
  <2>6. c = Custom(f.name, f.value, kind, none2, none2) /\ kind # "file"
    BY <2>5, Zenon
  <2>7. c.label = f.name /\ c.value = f.value /\ c.kind # "file"
    BY <2>6, CustomParts
  <2>8. (c.kind = "file") = (cf.kind = "file")
    BY <2>7, <1>3
  <2> QED BY <1>1, <2>2, <2>4, <2>7, <2>8, Zenon DEF f, c
<1> QED BY <1>2, <1>3

\* The words of the tags are those of the field for them, if nothing else bears its name.
LEMMA TagsReadBack ==
  ASSUME NEW e, ListOf(e.custom), ListOf(e.tags), IsFiniteSet(DOMAIN e.extra), TagsAreAlone(e)
  PROVE  LET fields == BitwardenItem(e, TRUE).fields
             tags == FlattenSeq([i \in DOMAIN fields |-> ReadTags(fields[i])])
         IN  Words(tags) = Words(e.tags)
<1> DEFINE fields == BitwardenItem(e, TRUE).fields
           tags == FlattenSeq([i \in DOMAIN fields |-> ReadTags(fields[i])])
           ones == {f \in Range(fields) : f.name = TagsField}
<1>1. /\ ListOf(fields)
      /\ Range(fields) = {FieldOfCustom(cf) : cf \in Range(e.custom)} \cup KeyedOnes(e)
                           \cup TypeOnes(e) \cup UnknownOnes(e) \cup TagOnes(e)
  BY BitwardenParts
<1>2. \A f \in Range(fields) :
         ListOf(f.tags) /\ (f.name = TagsField => f \in TagOnes(e))
  BY <1>1, FieldsHaveTags
<1>3. \A i \in DOMAIN fields : ListOf(fields[i].tags)
  BY <1>2 DEF Range
<1> HIDE DEF fields
<1>4. Words(tags) = UNION {Words(f.tags) : f \in ones}
  BY <1>1, <1>3, FieldsHoldTags
<1>5. TagOnes(e) \subseteq Range(fields)
  BY <1>1
<1> HIDE DEF tags
<1>6. CASE e.tags = << >>
  <2>1. TagOnes(e) = {}
    BY <1>6 DEF TagOnes
  <2>2. Words(e.tags) = {}
    BY <1>6 DEF Words, Range
  <2> QED BY <1>2, <1>4, <2>1, <2>2 DEF tags, fields
<1>7. CASE e.tags # << >>
  <2>1. PICK f : TagOnes(e) = {f} /\ f = [Field(TagsField, "", FALSE) EXCEPT !.tags = e.tags]
    BY <1>7, Zenon DEF TagOnes
  <2>2. PICK a, b, g : g = Field(a, b, FALSE) /\ a = TagsField /\ f = [g EXCEPT !.tags = e.tags]
    BY <2>1, Zenon
  <2>3. PICK none, old : g = [name |-> a, value |-> b, hidden |-> FALSE, uri |-> FALSE, mime |-> none,
                              tags |-> old]
    BY <2>2, Zenon DEF Field
  <2>4. f.name = TagsField /\ f.tags = e.tags
    <3>1. f = [g EXCEPT !.tags = e.tags] /\ a = TagsField
      BY <2>2
    <3>2. f.name = a /\ f.tags = e.tags
      BY <2>3, <3>1
    <3> QED BY <3>1, <3>2
  <2>5. TagOnes(e) = {f}
    BY <2>1, Zenon
  <2>6. ones = {f}
    BY <1>2, <1>5, <2>4, <2>5
  <2> HIDE DEF ones
  <2>7. Words(tags) = Words(e.tags)
    BY <1>4, <2>4, <2>6
  <2> QED BY <2>7 DEF tags, fields
<1> QED BY <1>6, <1>7

\* Every value a Bitwarden item has a place for comes back from it.
LEMMA PlacesReadBack ==
  ASSUME NEW e, NEW slots, \A k \in PlacedKeys(e.type) : Get(slots, k) = Get(e.data, k)
  PROVE  LET data == NonEmpty([name |-> Get(e.data, "name"), notes |-> Get(e.data, "notes")] ++ slots)
         IN  /\ \A k \in PlacedKeys(e.type) \cup {"name", "notes"} :
                   Get(data, k) = Get(e.data, k)
             /\ ~Empty(Name(e)) => "name" \in DOMAIN data
<1> DEFINE head == [name |-> Get(e.data, "name"), notes |-> Get(e.data, "notes")]
           all == head ++ slots
           data == NonEmpty(all)
<1>1. /\ DOMAIN head = {"name", "notes"} /\ head["name"] = Get(e.data, "name")
      /\ head["notes"] = Get(e.data, "notes")
  OBVIOUS
<1> HIDE DEF head
<1>2. {"name", "notes"} \cap PlacedKeys(e.type) = {}
  BY DEF PlacedKeys, LoginKeys, CardKeys, IdentityKeys
<1>3. \A k \in PlacedKeys(e.type) \cup {"name", "notes"} : Get(all, k) = Get(e.data, k)
  BY <1>1, <1>2, LaidOverReads
<1> HIDE DEF all
<1>4. \A k \in PlacedKeys(e.type) \cup {"name", "notes"} : Get(data, k) = Get(e.data, k)
  BY <1>3, NonEmptyReads
<1>5. ASSUME ~Empty(Name(e)) PROVE "name" \in DOMAIN data
  <2>1. Get(all, "name") = Name(e)
    BY <1>3 DEF Name
  <2>2. Name(e) # ""
    BY <1>5, Zenon DEF Empty
  <2> QED BY <2>1, <2>2, NonEmptyHolds, Zenon
<1> HIDE DEF data
<1>6. ~Empty(Name(e)) => "name" \in DOMAIN data
  BY <1>5
<1> QED BY <1>4, <1>6 DEF data, all, head

LEMMA BitwardenReturns ==
  ASSUME NEW e, ListOf(e.custom), ListOf(e.tags), IsFiniteSet(DOMAIN e.extra), ~Empty(Name(e))
  PROVE  Returns("bitwarden", e, Convert("bitwarden", Render("bitwarden", e)))
<1> DEFINE item == BitwardenItem(e, TRUE)
           slots == IF item.type = "note" THEN NoData ELSE item.slots
           data == NonEmpty([name |-> item.name, notes |-> item.notes] ++ slots)
           type == CASE item.type = "login" -> SettleLoginType("password", data)
                     [] item.type = "card" -> "credit-card"
                     [] OTHER -> item.type
           P == {i \in DOMAIN item.fields : item.fields[i].name \notin {"", TagsField}}
           named == Picked(item.fields, P)
           custom == [i \in DOMAIN named |-> CustomOfField(named[i])]
           tags == FlattenSeq([i \in DOMAIN item.fields |-> ReadTags(item.fields[i])])
           rec == Record(type, data, custom, tags, item.path)
<1>1. /\ item.type = BitwardenType(e.type) /\ item.name = Get(e.data, "name")
      /\ item.notes = Get(e.data, "notes") /\ item.slots = Only(e.data, PlacedKeys(e.type))
      /\ ListOf(item.fields)
      /\ \A cf \in Range(e.custom) : FieldOfCustom(cf) \in Range(item.fields)
  BY BitwardenParts
<1>2. item.type \in {"login", "note", "card", "identity"}
  BY <1>1 DEF BitwardenType
<1>3. \E fallback : ConvertBitwardenItem(item) = Named(rec, fallback)
  BY <1>2, Zenon DEF ConvertBitwardenItem, Where, ReadTags
<1>4. \A k \in PlacedKeys(e.type) : Get(slots, k) = Get(e.data, k)
  <2>1. CASE item.type = "note"
    <3>1. e.type = "note"
      BY <1>1, <2>1 DEF BitwardenType
    <3> QED BY <3>1 DEF PlacedKeys
  <2>2. CASE item.type # "note"
    <3>1. slots = Only(e.data, PlacedKeys(e.type))
      BY <1>1, <2>2
    <3> QED BY <3>1 DEF Only, Get
  <2> QED BY <2>1, <2>2
<1> HIDE DEF slots
<1>5. /\ \A k \in PlacedKeys(e.type) \cup {"name", "notes"} : Get(data, k) = Get(e.data, k)
      /\ "name" \in DOMAIN data
  <2>1. data = NonEmpty([name |-> Get(e.data, "name"), notes |-> Get(e.data, "notes")] ++ slots)
    <3> HIDE DEF item
    <3> QED BY <1>1, Zenon DEF data
  <2> HIDE DEF data, item
  <2> QED BY <1>4, <2>1, PlacesReadBack
<1>6. IF e.type \in {"note", "credit-card", "identity"} THEN type = e.type
      ELSE type \in {"password", "totp"}
  <2> HIDE DEF item, data
  <2>1. CASE e.type = "note"
    BY <1>1, <2>1 DEF BitwardenType
  <2>2. CASE e.type = "credit-card"
    BY <1>1, <2>2 DEF BitwardenType
  <2>3. CASE e.type = "identity"
    BY <1>1, <2>3 DEF BitwardenType
  <2>4. CASE e.type \notin {"note", "credit-card", "identity"}
    <3>1. item.type = "login"
      BY <1>1, <2>4 DEF BitwardenType
    <3> QED BY <2>4, <3>1, SettledTypes
  <2> QED BY <2>1, <2>2, <2>3, <2>4
<1>7. TagsAreAlone(e) => Words(tags) = Words(e.tags)
  BY TagsReadBack
<1> HIDE DEF data, type, tags
<1>8. ASSUME NEW cf \in Range(e.custom), Travels("bitwarden", cf)
      PROVE  \E c \in Range(custom) : /\ c.value = cf.value /\ c.label \in {cf.label, cf.filename}
                                      /\ (c.kind = "file") = (cf.kind = "file")
  <2> DEFINE f == FieldOfCustom(cf)
             c == CustomOfField(f)
  <2>1. /\ f.name \notin {"", TagsField} /\ c.value = cf.value /\ c.label \in {cf.label, cf.filename}
        /\ (c.kind = "file") = (cf.kind = "file")
    BY <1>8, FieldReadsBack
  <2> HIDE DEF f, item
  <2>2. f \in Range(item.fields)
    BY <1>1 DEF f
  <2>3. PICK i \in DOMAIN item.fields : item.fields[i] = f
    BY <2>2, Zenon DEF Range
  <2>4. i \in P
    BY <2>1, <2>3, Zenon
  <2>5. P \subseteq DOMAIN item.fields
    BY Zenon
  <2> HIDE DEF P
  <2>6. f \in Range(named)
    BY <1>1, <2>3, <2>4, <2>5, PickedWhole, Zenon
  <2> HIDE DEF named
  <2>7. PICK n \in DOMAIN named : named[n] = f
    BY <2>6, Zenon DEF Range
  <2>8. n \in DOMAIN custom /\ custom[n] = c
    BY <2>7, Zenon
  <2>9. c \in Range(custom)
    BY <2>8, Zenon DEF Range
  <2> QED BY <2>1, <2>9, Zenon
<1> HIDE DEF custom, item
<1>9. rec.type = type /\ rec.data = data /\ rec.custom = custom /\ rec.tags = tags
  BY RecordParts
<1> HIDE DEF rec
<1>10. ConvertBitwardenItem(item) = rec
  BY <1>3, <1>5, <1>9, Zenon DEF Named
<1>11. Convert("bitwarden", Render("bitwarden", e)) = rec
  BY <1>10 DEF Convert, Render, item
<1>12. HomeKeys("bitwarden", e.type) = PlacedKeys(e.type) \cup {"name", "notes"}
  BY DEF HomeKeys
<1> QED BY <1>5, <1>6, <1>7, <1>8, <1>9, <1>11, <1>12 DEF Returns

\* Nothing is kept under this key.
NoKey(k) == k = ""

LEMMA GreatestNumber ==
  ASSUME NEW n \in Nat, NEW S, S \subseteq 1 .. n, S # {}
  PROVE  Max(S) \in S
<1> DEFINE T == {n - x : x \in S}
<1>1. T \subseteq Nat /\ T # {}
  <2>1. \A x \in S : n - x \in Nat
    OBVIOUS
  <2>2. PICK x \in S : TRUE
    OBVIOUS
  <2>3. n - x \in T
    OBVIOUS
  <2> QED BY <2>1, <2>3
<1>2. PICK t \in T : \A y \in T : ~(y < t)
  BY <1>1, LeastNumber
<1>3. PICK x \in S : t = n - x
  BY <1>2
<1>4. \A y \in S : x >= y
  <2> SUFFICES ASSUME NEW y \in S PROVE x >= y
    OBVIOUS
  <2>1. n - y \in T
    OBVIOUS
  <2>2. ~(n - y < n - x)
    BY <1>2, <1>3, <2>1
  <2> QED BY <2>2
<1> HIDE DEF T
<1>5. \E m \in S : \A y \in S : m >= y
  BY <1>4
<1>6. Max(S) = CHOOSE m \in S : \A y \in S : m >= y
  BY DEF Max
<1> QED BY <1>5, <1>6, Zenon

\* A key outside the login has the value all its sections agree on.
LEMMA MappedKey ==
  ASSUME NEW sections, ListOf(sections), NEW k, k \notin LoginKeys, ~NoKey(k), NEW v,
         \A sf \in Range(sections) :
            OnePuxKey(sf.id) = k => sf.via \in OnePuxVias(k) /\ sf.value = v,
         \E sf \in Range(sections) : OnePuxKey(sf.id) = k
  PROVE  k \in DOMAIN MapStructuredField(sections) /\ MapStructuredField(sections)[k] = v
<1> DEFINE key(i) == OnePuxKey(sections[i].id)
           value(i) == IF sections[i].via \in OnePuxVias(key(i)) THEN sections[i].value ELSE ""
           deciding(x) == {i \in DOMAIN sections :
                             key(i) = x /\ (x \in LoginKeys => value(i) # "")}
           decided == {x \in {key(i) : i \in DOMAIN sections} \ {""} : deciding(x) # {}}
<1>1. MapStructuredField(sections) = [x \in decided |-> value(Max(deciding(x)))]
  BY Zenon DEF MapStructuredField
<1>2. PICK j \in DOMAIN sections : key(j) = k
  BY Zenon DEF Range
<1>3. deciding(k) = {i \in DOMAIN sections : key(i) = k}
  BY Zenon
<1>4. \A i \in deciding(k) : value(i) = v
  BY <1>3, Zenon DEF Range
<1>5. j \in deciding(k)
  BY <1>2, <1>3, Zenon
<1>6. k \in decided
  BY <1>2, <1>5, Zenon DEF NoKey
<1> HIDE DEF value, decided, key
<1>7. deciding(k) \subseteq DOMAIN sections
  OBVIOUS
<1> HIDE DEF deciding
<1>8. Max(deciding(k)) \in deciding(k)
  <2>1. PICK n \in Nat : DOMAIN sections = 1 .. n
    BY ListsAreNumbered
  <2> QED BY <1>5, <1>7, <2>1, GreatestNumber
<1> QED BY <1>1, <1>4, <1>6, <1>8

LEMMA UnmappedKey ==
  ASSUME NEW sections, NEW k, \A sf \in Range(sections) : OnePuxKey(sf.id) # k
  PROVE  k \notin DOMAIN MapStructuredField(sections)
<1> DEFINE key(i) == OnePuxKey(sections[i].id)
           value(i) == IF sections[i].via \in OnePuxVias(key(i)) THEN sections[i].value ELSE ""
           deciding(x) == {i \in DOMAIN sections :
                             key(i) = x /\ (x \in LoginKeys => value(i) # "")}
           decided == {x \in {key(i) : i \in DOMAIN sections} \ {""} : deciding(x) # {}}
<1>1. MapStructuredField(sections) = [x \in decided |-> value(Max(deciding(x)))]
  BY Zenon DEF MapStructuredField
<1>2. k \notin decided
  BY Zenon DEF Range
<1> HIDE DEF decided, value, deciding
<1> QED BY <1>1, <1>2

\* What the ids the export writes are the keys of.
LEMMA KeysOfIds ==
  /\ \A k \in CardKeys : OnePuxKey(k) = k
  /\ \A k \in {"company", "street", "city", "state", "postal_code", "country", "email", "phone"} :
        OnePuxKey(k) = k
  /\ OnePuxKey("firstname") = "first_name" /\ OnePuxKey("lastname") = "last_name"
  /\ OnePuxKey("totp") = "totp_secret"
  /\ NoKey(OnePuxKey("product_name")) /\ NoKey(OnePuxKey("license_key"))
  /\ NoKey(OnePuxKey("purchase_email"))
BY Zenon DEF OnePuxKey, NoKey, CardKeys, IdentityKeys

\* The types of value the export writes for a key are taken for it.
LEMMA ViasOfKeys ==
  /\ "creditCardNumber" \in OnePuxVias("card_number") /\ "concealed" \in OnePuxVias("cvv")
  /\ "email" \in OnePuxVias("email") /\ "phone" \in OnePuxVias("phone")
  /\ \A k \in (CardKeys \cup IdentityKeys) \ {"cvv"} : "string" \in OnePuxVias(k)
BY DEF OnePuxVias, CardKeys, IdentityKeys

LEMMA SeveralAreLists ==
  /\ \A x, y : ListOf(<<x, y>>) /\ Range(<<x, y>>) = {x, y}
  /\ \A x, y, z : ListOf(<<x, y, z>>) /\ Range(<<x, y, z>>) = {x, y, z}
<1>1. \A x, y : <<x, y>> \in Seq({x, y})
  OBVIOUS
<1>2. \A x, y, z : <<x, y, z>> \in Seq({x, y, z})
  OBVIOUS
<1>3. \A x, y : Range(<<x, y>>) = {x, y}
  <2>1. \A x, y : DOMAIN <<x, y>> = {1, 2} /\ <<x, y>>[1] = x /\ <<x, y>>[2] = y
    OBVIOUS
  <2> QED BY <2>1 DEF Range
<1>4. \A x, y, z : Range(<<x, y, z>>) = {x, y, z}
  <2>1. \A x, y, z : /\ DOMAIN <<x, y, z>> = {1, 2, 3} /\ <<x, y, z>>[1] = x
                     /\ <<x, y, z>>[2] = y /\ <<x, y, z>>[3] = z
    OBVIOUS
  <2> QED BY <2>1 DEF Range
<1> QED BY <1>1, <1>2, <1>3, <1>4 DEF ListOf

\* The keys the sections of a type are for.
MappedKeys(type) ==
  CASE type = "credit-card" -> CardKeys
    [] type = "identity" -> IdentityKeys \ {"title"}
    [] OTHER -> {}

\* The section has the entry's value for the key, as a type that is taken for it.
Places(e, sf, k) ==
  OnePuxKey(sf.id) = k /\ sf.via \in OnePuxVias(k) /\ sf.value = Get(e.data, k)

LEMMA SectionParts ==
  \A title, id, via, value, multiline :
     LET sf == Section(title, id, via, value, multiline)
     IN  sf.title = title /\ sf.id = id /\ sf.via = via /\ sf.value = value
BY DEF Section

\* Every key of the type has its section, and no other is taken for one, but the secret's.
LEMMA SectionsPlace ==
  ASSUME NEW e
  PROVE  LET R == Range(OnePuxSections(e))
         IN  /\ \A k \in MappedKeys(e.type) : \E sf \in R : OnePuxKey(sf.id) = k
             /\ \A sf \in R : \/ NoKey(OnePuxKey(sf.id)) \/ OnePuxKey(sf.id) = "totp_secret"
                              \/ \E k \in MappedKeys(e.type) : Places(e, sf, k)
<1> DEFINE s(title, id, via, key) == Section(title, id, via, Get(e.data, key), FALSE)
           plain(ids) == [i \in DOMAIN ids |-> s(ids[i], ids[i], "string", ids[i])]
           holder == <<"holder_name", "expiry_month", "expiry_year">>
           home == <<"company", "street", "city", "state", "postal_code", "country">>
           R == Range(OnePuxSections(e))
<1>0. ASSUME NEW title, NEW id, NEW via, NEW key
      PROVE  /\ s(title, id, via, key).id = id /\ s(title, id, via, key).via = via
             /\ s(title, id, via, key).value = Get(e.data, key)
  BY DEF Section
<1>2. /\ ListOf(holder) /\ Range(holder) = {"holder_name", "expiry_month", "expiry_year"}
      /\ ListOf(home)
      /\ Range(home) = {"company", "street", "city", "state", "postal_code", "country"}
  <2> DEFINE u == <<"company", "street", "city">>
             v == <<"state", "postal_code", "country">>
  <2>1. home = u \o v
    OBVIOUS
  <2>2. /\ ListOf(u) /\ ListOf(v) /\ Range(u) = {"company", "street", "city"}
        /\ Range(v) = {"state", "postal_code", "country"}
    BY SeveralAreLists
  <2>3. ListOf(holder) /\ Range(holder) = {"holder_name", "expiry_month", "expiry_year"}
    BY SeveralAreLists
  <2> HIDE DEF u, v, home, holder
  <2>4. ListOf(home) /\ Range(home) = Range(u) \cup Range(v)
    BY <2>1, <2>2, ListsJoined
  <2> QED BY <2>2, <2>3, <2>4
<1> HIDE DEF holder, home, s
<1>1. ASSUME NEW title, NEW id, NEW via, NEW key, OnePuxKey(id) = key, via \in OnePuxVias(key)
      PROVE  Places(e, s(title, id, via, key), key)
  <2> DEFINE sf == s(title, id, via, key)
  <2>1. sf.id = id /\ sf.via = via /\ sf.value = Get(e.data, key)
    BY <1>0
  <2> HIDE DEF sf
  <2> QED BY <1>1, <2>1 DEF Places, sf
<1>3. ASSUME NEW ids, ListOf(ids)
      PROVE  ListOf(plain(ids)) /\ Range(plain(ids)) = {s(x, x, "string", x) : x \in Range(ids)}
  <2>1. ListOf(plain(ids)) /\ DOMAIN plain(ids) = DOMAIN ids
    BY <1>3, ListsMapped
  <2> QED BY <2>1 DEF Range
<1> HIDE DEF plain
<1>4. \A x : ListOf(<<x>>) /\ Range(<<x>>) = {x}
  BY OneIsAList
<1>5. CASE e.type = "credit-card"
  <2> DEFINE a == s("Card Number", "card_number", "creditCardNumber", "card_number")
             b == s("CVV", "cvv", "concealed", "cvv")
  <2>1. OnePuxSections(e) = <<a>> \o plain(holder) \o <<b>>
    BY <1>5, Zenon DEF OnePuxSections, s, plain, holder
  <2> HIDE DEF a, b
  <2>2. ListOf(<<a>> \o plain(holder)) /\ Range(<<a>> \o plain(holder)) = {a} \cup Range(plain(holder))
    BY <1>2, <1>3, <1>4, ListsJoined
  <2>3. R = {a} \cup Range(plain(holder)) \cup {b}
    <3> DEFINE u == <<a>> \o plain(holder)
               v == <<b>>
    <3>1. ListOf(u) /\ ListOf(v) /\ Range(v) = {b} /\ OnePuxSections(e) = u \o v
      BY <1>4, <2>1, <2>2
    <3>2. Range(u) = {a} \cup Range(plain(holder))
      BY <2>2
    <3> HIDE DEF u, v
    <3> QED BY <3>1, <3>2, ListsJoined
  <2>4. R = {a, b} \cup {s(x, x, "string", x) : x \in {"holder_name", "expiry_month", "expiry_year"}}
    BY <1>2, <1>3, <2>3
  <2>5. Places(e, a, "card_number") /\ Places(e, b, "cvv")
    BY <1>1, KeysOfIds, ViasOfKeys DEF a, b, CardKeys
  <2>6. \A x \in {"holder_name", "expiry_month", "expiry_year"} : Places(e, s(x, x, "string", x), x)
    BY <1>1, KeysOfIds, ViasOfKeys DEF CardKeys
  <2>7. MappedKeys(e.type) = {"card_number", "cvv", "holder_name", "expiry_month", "expiry_year"}
    BY <1>5 DEF MappedKeys, CardKeys
  <2>8. \A sf \in R : \E k \in MappedKeys(e.type) : Places(e, sf, k)
    BY <2>4, <2>5, <2>6, <2>7
  <2>9. \A k \in MappedKeys(e.type) : \E sf \in R : Places(e, sf, k)
    BY <2>4, <2>5, <2>6, <2>7
  <2> HIDE DEF R
  <2>10. \A k \in MappedKeys(e.type) : \E sf \in R : OnePuxKey(sf.id) = k
    BY <2>9 DEF Places
  <2> QED BY <2>8, <2>10 DEF R
<1>6. CASE e.type = "identity"
  <2> DEFINE a == s("First Name", "firstname", "string", "first_name")
             b == s("Last Name", "lastname", "string", "last_name")
             c == s("Email", "email", "email", "email")
             d == s("Phone", "phone", "phone", "phone")
             H == {"company", "street", "city", "state", "postal_code", "country"}
  <2>1. OnePuxSections(e) = <<a, b>> \o plain(home) \o <<c, d>>
    BY <1>6, Zenon DEF OnePuxSections, s, plain, home
  <2> HIDE DEF a, b, c, d
  <2>2. ListOf(<<a, b>> \o plain(home)) /\ Range(<<a, b>> \o plain(home)) = {a, b} \cup Range(plain(home))
    BY <1>2, <1>3, SeveralAreLists, ListsJoined
  <2>3. R = {a, b} \cup Range(plain(home)) \cup {c, d}
    BY SeveralAreLists, <2>1, <2>2, ListsJoined
  <2>4. R = {a, b, c, d} \cup {s(x, x, "string", x) : x \in H}
    BY <1>2, <1>3, <2>3
  <2>5. /\ Places(e, a, "first_name") /\ Places(e, b, "last_name")
        /\ Places(e, c, "email") /\ Places(e, d, "phone")
    BY <1>1, KeysOfIds, ViasOfKeys DEF a, b, c, d, IdentityKeys
  <2>6. \A x \in H : Places(e, s(x, x, "string", x), x)
    BY <1>1, KeysOfIds, ViasOfKeys DEF IdentityKeys
  <2>7. MappedKeys(e.type) = {"first_name", "last_name", "email", "phone"} \cup H
    BY <1>6 DEF MappedKeys, IdentityKeys
  <2> HIDE DEF H
  <2>8. \A sf \in R : \E k \in MappedKeys(e.type) : Places(e, sf, k)
    BY <2>4, <2>5, <2>6, <2>7
  <2>9. \A k \in MappedKeys(e.type) : \E sf \in R : Places(e, sf, k)
    BY <2>4, <2>5, <2>6, <2>7
  <2> HIDE DEF R
  <2>10. \A k \in MappedKeys(e.type) : \E sf \in R : OnePuxKey(sf.id) = k
    BY <2>9 DEF Places
  <2> QED BY <2>8, <2>10 DEF R
<1>7. CASE e.type \notin {"credit-card", "identity"}
  <2> DEFINE a == s("One-Time Password", "totp", "totp", "totp_secret")
             l1 == s("Product Name", "product_name", "string", "product_name")
             l2 == s("License Key", "license_key", "concealed", "license_key")
             l3 == s("Purchase Email", "purchase_email", "email", "product_name")
  <2>1. PICK x \in {<< >>, <<a>>}, y \in {<< >>, <<l1, l2, l3>>} :
           OnePuxSections(e) = << >> \/ OnePuxSections(e) = x \o y
    BY <1>7, Zenon DEF OnePuxSections, s
  <2>2. /\ OnePuxKey(a.id) = "totp_secret" /\ NoKey(OnePuxKey(l1.id))
        /\ NoKey(OnePuxKey(l2.id)) /\ NoKey(OnePuxKey(l3.id))
    <3>1. a.id = "totp" /\ l1.id = "product_name" /\ l2.id = "license_key" /\ l3.id = "purchase_email"
      BY DEF s, Section
    <3> HIDE DEF a, l1, l2, l3
    <3> QED BY <3>1, KeysOfIds, Zenon
  <2> HIDE DEF a, l1, l2, l3
  <2>3. /\ ListOf(<<l1, l2, l3>>) /\ Range(<<l1, l2, l3>>) = {l1, l2, l3}
        /\ ListOf(<<a>>) /\ Range(<<a>>) = {a}
        /\ ListOf(<< >>) /\ Range(<< >>) = {}
    BY SeveralAreLists, OneIsAList
  <2>4. ListOf(x) /\ ListOf(y) /\ Range(x) \subseteq {a} /\ Range(y) \subseteq {l1, l2, l3}
    BY <2>3
  <2>5. Range(x \o y) \subseteq {a, l1, l2, l3}
    BY <2>4, ListsJoined
  <2>6. R \subseteq {a, l1, l2, l3}
    BY <2>1, <2>3, <2>5
  <2>7. MappedKeys(e.type) = {}
    BY <1>7 DEF MappedKeys
  <2> HIDE DEF R
  <2> QED BY <2>2, <2>6, <2>7 DEF R
<1> QED BY <1>5, <1>6, <1>7

\* An item as it is written: where each part of the entry is.
LEMMA OnePuxParts ==
  ASSUME NEW e, ListOf(e.custom)
  PROVE  LET item == OnePuxItem(e)
         IN  /\ item.trashed = FALSE /\ item.category = OnePasswordType(e.type)
             /\ item.name = Get(e.data, "name") /\ item.notes = Get(e.data, "notes")
             /\ item.url = Get(e.data, "url") /\ item.tags = e.tags
             /\ item.login = IF BitwardenType(e.type) = "login"
                             THEN Only(e.data, {"username", "password"}) ELSE NoData
             /\ ListOf(item.sections) /\ ListOf(item.files)
             /\ Range(OnePuxSections(e)) \subseteq Range(item.sections)
             /\ \A sf \in Range(item.sections) :
                   sf \in Range(OnePuxSections(e)) \/ NoKey(OnePuxKey(sf.id))
             /\ \A cf \in Range(e.custom) : cf.kind # "file" =>
                   \E sf \in Range(item.sections) :
                      /\ NoKey(OnePuxKey(sf.id)) /\ sf.title = cf.label /\ sf.value = cf.value
                      /\ sf.via = OnePuxVia(cf.kind)
             /\ \A cf \in Range(e.custom) : cf.kind = "file" /\ IsBase64(cf.value) =>
                   \E f \in Range(item.files) : f.name = FieldName(cf) /\ f.value = cf.value
<1> DEFINE item == OnePuxItem(e)
           P == {i \in DOMAIN e.custom : e.custom[i].kind # "file"}
           Q == {i \in DOMAIN e.custom : e.custom[i].kind = "file" /\ IsBase64(e.custom[i].value)}
           fields == Picked(e.custom, P)
           files == Picked(e.custom, Q)
           sec(cf) == Section(cf.label, "", OnePuxVia(cf.kind), cf.value, cf.kind \in {"note", "ssh"})
           doc(cf) == [name |-> IF cf.filename = "" THEN cf.label ELSE cf.filename,
                       value |-> cf.value]
           t == [i \in DOMAIN fields |-> sec(fields[i])]
           u == [i \in DOMAIN files |-> doc(files[i])]
<1>1. ListOf(fields) /\ ListOf(files)
  BY PickedFrom
<1>2. /\ item.trashed = FALSE /\ item.category = OnePasswordType(e.type)
      /\ item.name = Get(e.data, "name") /\ item.notes = Get(e.data, "notes")
      /\ item.url = Get(e.data, "url") /\ item.tags = e.tags
      /\ item.login = IF BitwardenType(e.type) = "login"
                      THEN Only(e.data, {"username", "password"}) ELSE NoData
      /\ item.sections = OnePuxSections(e) \o t /\ item.files = u
  BY DEF OnePuxItem, Where
<1>3. \A cf : cf.kind = "file" => doc(cf).name = FieldName(cf)
  BY Zenon DEF FieldName
<1>4. \A cf : doc(cf).value = cf.value
  OBVIOUS
<1>5. \A cf : NoKey(OnePuxKey(sec(cf).id))
  <2>1. \A cf : sec(cf).id = ""
    BY Zenon DEF Section
  <2> HIDE DEF sec
  <2> QED BY <2>1, Zenon DEF OnePuxKey, NoKey, CardKeys, IdentityKeys
<1>6. \A cf : /\ sec(cf).title = cf.label /\ sec(cf).value = cf.value
              /\ sec(cf).via = OnePuxVia(cf.kind)
  BY DEF Section
<1>7. \A cf \in Range(e.custom) : cf.kind # "file" => cf \in Range(fields)
  <2> SUFFICES ASSUME NEW cf \in Range(e.custom), cf.kind # "file"
               PROVE  cf \in Range(fields)
    OBVIOUS
  <2>1. PICK i \in DOMAIN e.custom : e.custom[i] = cf
    BY DEF Range
  <2>2. i \in P /\ P \subseteq DOMAIN e.custom
    BY <2>1
  <2> HIDE DEF P
  <2> QED BY <2>1, <2>2, PickedWhole
<1>8. \A cf \in Range(e.custom) : cf.kind = "file" /\ IsBase64(cf.value) => cf \in Range(files)
  <2> SUFFICES ASSUME NEW cf \in Range(e.custom), cf.kind = "file", IsBase64(cf.value)
               PROVE  cf \in Range(files)
    OBVIOUS
  <2>1. PICK i \in DOMAIN e.custom : e.custom[i] = cf
    BY DEF Range
  <2>2. i \in Q /\ Q \subseteq DOMAIN e.custom
    BY <2>1
  <2> HIDE DEF Q
  <2> QED BY <2>1, <2>2, PickedWhole
<1> HIDE DEF fields, files, sec, doc, item
<1>9. ListOf(t) /\ ListOf(u) /\ DOMAIN t = DOMAIN fields /\ DOMAIN u = DOMAIN files
  BY <1>1, ListsMapped
<1>10. Range(t) = {sec(cf) : cf \in Range(fields)} /\ Range(u) = {doc(cf) : cf \in Range(files)}
  BY DEF Range
<1> HIDE DEF t, u
<1>11. /\ ListOf(item.sections)
       /\ Range(item.sections) = Range(OnePuxSections(e)) \cup Range(t)
  BY <1>2, <1>9, SectionsAreAList, ListsJoined
<1>12. \A sf \in Range(item.sections) :
          sf \in Range(OnePuxSections(e)) \/ NoKey(OnePuxKey(sf.id))
  BY <1>5, <1>10, <1>11
<1>13. \A cf \in Range(e.custom) : cf.kind # "file" =>
          \E sf \in Range(item.sections) :
             /\ NoKey(OnePuxKey(sf.id)) /\ sf.title = cf.label /\ sf.value = cf.value
             /\ sf.via = OnePuxVia(cf.kind)
  <2> SUFFICES ASSUME NEW cf \in Range(e.custom), cf.kind # "file"
               PROVE  \E sf \in Range(item.sections) :
                         /\ NoKey(OnePuxKey(sf.id)) /\ sf.title = cf.label /\ sf.value = cf.value
                         /\ sf.via = OnePuxVia(cf.kind)
    OBVIOUS
  <2>1. sec(cf) \in Range(item.sections)
    BY <1>7, <1>10, <1>11
  <2> QED BY <1>5, <1>6, <2>1
<1>14. \A cf \in Range(e.custom) : cf.kind = "file" /\ IsBase64(cf.value) =>
          \E f \in Range(item.files) : f.name = FieldName(cf) /\ f.value = cf.value
  <2> SUFFICES ASSUME NEW cf \in Range(e.custom), cf.kind = "file", IsBase64(cf.value)
               PROVE  \E f \in Range(item.files) : f.name = FieldName(cf) /\ f.value = cf.value
    OBVIOUS
  <2>1. doc(cf) \in Range(item.files)
    BY <1>2, <1>8, <1>10
  <2> QED BY <1>3, <1>4, <2>1
<1>15. ListOf(item.files)
  BY <1>2, <1>9
<1> QED BY <1>2, <1>11, <1>12, <1>13, <1>14, <1>15 DEF item

\* The values of an item under the keys that are looked for, codes aside.
LEMMA OnePuxReadsBack ==
  ASSUME NEW e, ListOf(e.custom)
  PROVE  LET item == OnePuxItem(e)
             head == [name |-> item.name, notes |-> item.notes, url |-> item.url] ++ item.login
             data == NonEmpty(MapStructuredField(item.sections) ++ head)
         IN  \A k \in HomeKeys("1pux", e.type) : Get(data, k) = Get(e.data, k)
<1> DEFINE item == OnePuxItem(e)
           front == [name |-> item.name, notes |-> item.notes, url |-> item.url]
           head == front ++ item.login
           map == MapStructuredField(item.sections)
           all == map ++ head
           data == NonEmpty(all)
           R == Range(OnePuxSections(e))
           M == MappedKeys(e.type)
<1>1. /\ item.name = Get(e.data, "name") /\ item.notes = Get(e.data, "notes")
      /\ item.url = Get(e.data, "url")
      /\ item.login = IF BitwardenType(e.type) = "login"
                      THEN Only(e.data, {"username", "password"}) ELSE NoData
      /\ ListOf(item.sections) /\ R \subseteq Range(item.sections)
      /\ \A sf \in Range(item.sections) : sf \in R \/ NoKey(OnePuxKey(sf.id))
  BY OnePuxParts
<1>2. /\ \A k \in M : \E sf \in R : OnePuxKey(sf.id) = k
      /\ \A sf \in R : \/ NoKey(OnePuxKey(sf.id)) \/ OnePuxKey(sf.id) = "totp_secret"
                       \/ \E k \in M : Places(e, sf, k)
  BY SectionsPlace
<1> HIDE DEF item, R
<1>3. M \subseteq (CardKeys \cup IdentityKeys) \ {"title"}
  BY DEF MappedKeys, CardKeys, IdentityKeys
<1>4. \A k \in DataKeys : ~NoKey(k)
  BY Zenon DEF DataKeys, KeyedFields, LoginKeys, CardKeys, IdentityKeys, LicenseKeys, BankKeys,
               CodeOptions, NoKey
<1>5. M \subseteq DataKeys /\ {"name", "notes", "url", "username", "password"} \subseteq DataKeys
  BY <1>3 DEF DataKeys, KeyedFields, LoginKeys
<1>6. /\ M \cap LoginKeys = {}
      /\ M \cap {"name", "notes", "url", "username", "password", "totp_secret"} = {}
  BY <1>3 DEF CardKeys, IdentityKeys, LoginKeys
<1> HIDE DEF M
<1>7. ASSUME NEW k \in M
      PROVE  k \in DOMAIN map /\ map[k] = Get(e.data, k)
  <2>1. ASSUME NEW sf \in Range(item.sections), OnePuxKey(sf.id) = k
        PROVE  sf.via \in OnePuxVias(k) /\ sf.value = Get(e.data, k)
    <3>1. sf \in R
      BY <1>1, <1>4, <1>5, <2>1
    <3>2. PICK x \in M : Places(e, sf, x)
      BY <1>2, <1>4, <1>5, <1>6, <2>1, <3>1
    <3> QED BY <2>1, <3>2 DEF Places
  <2>2. \E sf \in Range(item.sections) : OnePuxKey(sf.id) = k
    BY <1>1, <1>2
  <2>3. k \notin LoginKeys /\ ~NoKey(k)
    BY <1>4, <1>5, <1>6
  <2> QED BY <1>1, <2>1, <2>2, <2>3, MappedKey
<1>8. ASSUME NEW k \in {"name", "notes", "url", "username", "password"}
      PROVE  k \notin DOMAIN map
  <2>1. ASSUME NEW sf \in Range(item.sections) PROVE OnePuxKey(sf.id) # k
    <3>1. CASE NoKey(OnePuxKey(sf.id))
      BY <1>4, <1>5, <3>1
    <3>2. CASE ~NoKey(OnePuxKey(sf.id))
      <4>1. OnePuxKey(sf.id) = "totp_secret" \/ OnePuxKey(sf.id) \in M
        BY <1>1, <1>2, <3>2 DEF Places
      <4> QED BY <1>6, <4>1
    <3> QED BY <3>1, <3>2
  <2> QED BY <2>1, UnmappedKey
<1> HIDE DEF map
<1>9. /\ DOMAIN front = {"name", "notes", "url"} /\ front["name"] = Get(e.data, "name")
      /\ front["notes"] = Get(e.data, "notes") /\ front["url"] = Get(e.data, "url")
  BY <1>1
<1> HIDE DEF front
<1>10. \A k \in {"name", "notes", "url"} : Get(head, k) = Get(e.data, k)
  BY <1>9, LaidOverReads
<1>11. BitwardenType(e.type) = "login" =>
          \A k \in {"username", "password"} : Get(head, k) = Get(e.data, k)
  <2> SUFFICES ASSUME BitwardenType(e.type) = "login", NEW k \in {"username", "password"}
               PROVE  Get(head, k) = Get(e.data, k)
    OBVIOUS
  <2>1. Get(item.login, k) = Get(e.data, k)
    BY <1>1 DEF Only, Get
  <2> QED BY <1>9, <2>1, LaidOverReads
<1> HIDE DEF head
<1>12. \A k \in M : Get(data, k) = Get(e.data, k)
  BY <1>7, LaidOverReads, NonEmptyReads
<1>13. \A k \in {"name", "notes", "url"} : Get(data, k) = Get(e.data, k)
  BY <1>8, <1>10, LaidOverReads, NonEmptyReads
<1>14. BitwardenType(e.type) = "login" =>
          \A k \in {"username", "password"} : Get(data, k) = Get(e.data, k)
  BY <1>8, <1>11, LaidOverReads, NonEmptyReads
<1> HIDE DEF data
<1>15. /\ e.type \in {"note", "credit-card", "identity"} =>
             HomeKeys("1pux", e.type) = {"name", "notes", "url"} \cup M
       /\ e.type \notin {"note", "credit-card", "identity"} =>
             /\ BitwardenType(e.type) = "login"
             /\ HomeKeys("1pux", e.type) = {"name", "notes", "url"} \cup {"username", "password"}
  BY DEF HomeKeys, M, MappedKeys, BitwardenType
<1>16. \A k \in HomeKeys("1pux", e.type) : Get(data, k) = Get(e.data, k)
  BY <1>12, <1>13, <1>14, <1>15
<1> QED BY <1>16 DEF data, all, map, head, front, item

LEMMA OnePuxReturns ==
  ASSUME NEW e, ListOf(e.custom), ListOf(e.tags), ~Empty(Name(e))
  PROVE  Returns("1pux", e, Convert("1pux", Render("1pux", e)))
<1> DEFINE item == OnePuxItem(e)
           head == [name |-> item.name, notes |-> item.notes, url |-> item.url] ++ item.login
           data == NonEmpty(MapStructuredField(item.sections) ++ head)
           P == {i \in DOMAIN item.sections :
                   /\ OnePuxKey(item.sections[i].id) = "" /\ item.sections[i].value # ""
                   /\ item.sections[i].via # "creditCardNumber"}
           others == Picked(item.sections, P)
           field(sf) == Custom(sf.title, sf.value, OnePuxKind(sf), "", "")
           doc(f) == Custom(f.name, f.value, "file", f.name, "")
           custom == [i \in DOMAIN others |-> field(others[i])]
           files == [i \in DOMAIN item.files |-> doc(item.files[i])]
           all == custom \o files
           type == TypeOfOnePassword(item.category)
<1>1. /\ item.trashed = FALSE /\ item.category = OnePasswordType(e.type) /\ item.tags = e.tags
      /\ ListOf(item.sections) /\ ListOf(item.files)
      /\ \A cf \in Range(e.custom) : cf.kind # "file" =>
            \E sf \in Range(item.sections) :
               /\ NoKey(OnePuxKey(sf.id)) /\ sf.title = cf.label /\ sf.value = cf.value
               /\ sf.via = OnePuxVia(cf.kind)
      /\ \A cf \in Range(e.custom) : cf.kind = "file" /\ IsBase64(cf.value) =>
            \E f \in Range(item.files) : f.name = FieldName(cf) /\ f.value = cf.value
  BY OnePuxParts
<1>2. \A k \in HomeKeys("1pux", e.type) : Get(data, k) = Get(e.data, k)
  BY OnePuxReadsBack
<1> HIDE DEF item
<1>3. PICK code, fallback, coded :
         /\ coded = data \/ coded = [totp_secret |-> code] ++ data
         /\ Convert1PuxItem(item)
              = Named(Record(SettleLoginType(type, coded), coded, all, item.tags, item.path), fallback)
  BY <1>1, Zenon DEF Convert1PuxItem, Where
<1> HIDE DEF data
<1>4. \A k : k # "totp_secret" => /\ Get(coded, k) = Get(data, k)
                                  /\ k \in DOMAIN data => k \in DOMAIN coded
  <2>1. CASE coded = data
    BY <2>1
  <2>2. CASE coded = [totp_secret |-> code] ++ data
    <3>1. DOMAIN [totp_secret |-> code] = {"totp_secret"}
      OBVIOUS
    <3>2. \A k : k \in DOMAIN data => k \in DOMAIN coded
      BY <2>2 DEF ++
    <3> QED BY <2>2, <3>1, <3>2, LaidOverReads
  <2> QED BY <1>3, <2>1, <2>2
<1>5. \A k \in HomeKeys("1pux", e.type) : k # "totp_secret"
  BY DEF HomeKeys, CardKeys, IdentityKeys
<1>6. \A k \in HomeKeys("1pux", e.type) : Get(coded, k) = Get(e.data, k)
  BY <1>2, <1>4, <1>5
<1>7. "name" \in DOMAIN coded
  <2>1. "name" \in HomeKeys("1pux", e.type)
    BY DEF HomeKeys
  <2>2. Get(data, "name") = Name(e)
    BY <1>2, <2>1 DEF Name
  <2>3. Name(e) # ""
    BY Zenon DEF Empty
  <2>4. Get(data, "name") # ""
    BY <2>2, <2>3, Zenon
  <2>5. "name" \in DOMAIN data
    BY <2>4, Zenon DEF Get
  <2> QED BY <1>4, <2>5
<1>8. IF e.type \in {"note", "credit-card", "identity"}
      THEN SettleLoginType(type, coded) = e.type
      ELSE SettleLoginType(type, coded) \in {"password", "totp"}
  BY <1>1, KindsReadBack, SettledTypes
<1>9. ASSUME NEW cf \in Range(e.custom), Travels("1pux", cf)
      PROVE  \E c \in Range(all) : /\ c.value = cf.value /\ c.label \in {cf.label, cf.filename}
                                   /\ (c.kind = "file") = (cf.kind = "file")
  <2>1. ListOf(others)
    BY <1>1, PickedFrom
  <2>2. P \subseteq DOMAIN item.sections
    BY Zenon
  <2>3. \A i \in DOMAIN item.sections :
           (/\ NoKey(OnePuxKey(item.sections[i].id)) /\ item.sections[i].value # ""
            /\ item.sections[i].via # "creditCardNumber") => i \in P
    BY Zenon DEF NoKey
  <2>4. \A sf : /\ field(sf).label = sf.title /\ field(sf).value = sf.value
                /\ field(sf).kind = OnePuxKind(sf)
    <3>1. PICK none : \A sf : field(sf) = Custom(sf.title, sf.value, OnePuxKind(sf), none, none)
      BY Zenon
    <3> HIDE DEF field
    <3> QED BY <3>1, CustomParts
  <2>5. \A f : /\ doc(f).label = f.name /\ doc(f).value = f.value /\ doc(f).kind = "file"
    <3>1. PICK none : \A f : doc(f) = Custom(f.name, f.value, "file", f.name, none)
      BY Zenon
    <3> HIDE DEF doc
    <3> QED BY <3>1, CustomParts
  <2>6. /\ cf.kind # "file" => cf.value # ""
        /\ cf.kind = "file" => IsBase64(cf.value)
    BY <1>9, Zenon DEF Travels
  <2>7. FieldName(cf) \in {cf.label, cf.filename}
    BY Zenon DEF FieldName
  <2> HIDE DEF P, field, doc
  <2>8. /\ ListOf(custom) /\ ListOf(files)
        /\ DOMAIN custom = DOMAIN others /\ DOMAIN files = DOMAIN item.files
    <3> HIDE DEF others
    <3> QED BY <1>1, <2>1, ListsMapped
  <2>9. \A sf \in Range(others) : field(sf) \in Range(custom)
    <3> HIDE DEF others
    <3> QED BY <2>8 DEF Range
  <2>10. \A f \in Range(item.files) : doc(f) \in Range(files)
    BY <2>8 DEF Range
  <2> HIDE DEF custom, files
  <2>11. Range(all) = Range(custom) \cup Range(files)
    BY <2>8, ListsJoined
  <2> HIDE DEF all
  <2>12. CASE cf.kind = "file"
    <3>1. PICK f \in Range(item.files) : f.name = FieldName(cf) /\ f.value = cf.value
      BY <1>1, <2>6, <2>12, Zenon
    <3>2. doc(f) \in Range(all)
      BY <2>10, <2>11, <3>1
    <3>3. /\ doc(f).value = cf.value /\ doc(f).label \in {cf.label, cf.filename}
          /\ (doc(f).kind = "file") = (cf.kind = "file")
      BY <2>5, <2>7, <2>12, <3>1
    <3> QED BY <3>2, <3>3
  <2>13. CASE cf.kind # "file"
    <3>1. PICK sf \in Range(item.sections) :
             /\ NoKey(OnePuxKey(sf.id)) /\ sf.title = cf.label /\ sf.value = cf.value
             /\ sf.via = OnePuxVia(cf.kind)
      BY <1>1, <2>13
    <3>2. sf.via # "creditCardNumber" /\ OnePuxKind(sf) # "file"
      BY <2>13, <3>1 DEF OnePuxVia, OnePuxKind
    <3>3. PICK i \in DOMAIN item.sections : item.sections[i] = sf
      BY DEF Range
    <3>4. i \in P
      BY <2>3, <2>6, <2>13, <3>1, <3>2, <3>3, Zenon
    <3>5. sf \in Range(others)
      BY <1>1, <2>2, <3>3, <3>4, PickedWhole
    <3> HIDE DEF others
    <3>6. field(sf) \in Range(all)
      BY <2>9, <2>11, <3>5
    <3>7. /\ field(sf).value = cf.value /\ field(sf).label \in {cf.label, cf.filename}
          /\ (field(sf).kind = "file") = (cf.kind = "file")
      BY <2>4, <2>13, <3>1, <3>2
    <3> QED BY <3>6, <3>7
  <2> QED BY <2>12, <2>13
<1> HIDE DEF all, type
<1>10. PICK rec : rec = Record(SettleLoginType(type, coded), coded, all, item.tags, item.path)
  OBVIOUS
<1>11. /\ rec.type = SettleLoginType(type, coded) /\ rec.data = coded /\ rec.custom = all
       /\ rec.tags = e.tags
  BY <1>1, <1>10, RecordParts
<1>12. Convert("1pux", Render("1pux", e)) = rec
  <2>1. Convert1PuxItem(item) = rec
    BY <1>3, <1>7, <1>10, <1>11, Zenon DEF Named
  <2> QED BY <2>1 DEF Convert, Render, item
<1> QED BY <1>6, <1>8, <1>9, <1>11, <1>12 DEF Returns

\* Each of the four files an export can be.
LEMMA ExportedReturns ==
  ASSUME NEW format \in {"bitwarden", "1pux", "csv-generic", "csv-1password"},
         NEW e, SoundEntry(e), ~Nameless(format, e)
  PROVE  Returns(format, e, Convert(format, Render(format, e)))
<1>1. /\ format \in {"csv-generic", "csv-1password"} => ~Blank(Name(e))
      /\ format \in {"bitwarden", "1pux"} => ~Empty(Name(e))
  BY DEF Nameless
<1> QED BY <1>1, BitwardenReturns, OnePuxReturns, GenericReturns, OnePasswordReturns DEF SoundEntry, Fits

\* ComesHome, in terms of what returns of each entry.
Home ==
  \A i \in DOMAIN file.of :
     ~Nameless(file.format, file.of[i]) \/ file.format = "backup"
       => Returns(file.format, file.of[i], Convert(file.format, file.items[i]))

LEMMA HomeIsComesHome == Home <=> ComesHome
BY Zenon DEF Home, ComesHome, Returns, Nameless, Blank, Empty

LEMMA ExportComesHome ==
  ASSUME CommandsInv, NEW format \in {"bitwarden", "1pux", "csv-generic", "csv-1password"},
         Export(format)
  PROVE  Home'
<1> DEFINE of == [i \in DOMAIN Readable |-> AsRead(entries[Readable[i]])]
           items == [i \in DOMAIN of |-> Render(format, of[i])]
<1>1. file'.format = format /\ file'.items = items /\ file'.of = of
  BY DEF Export
<1>2. ListOf(of) /\ \A i \in DOMAIN of : SoundEntry(of[i])
  BY ExportedAreSound DEF CommandsInv, AllSound
<1> HIDE DEF of
<1>3. \A i \in DOMAIN of : items[i] = Render(format, of[i])
  OBVIOUS
<1> HIDE DEF items
<1>4. \A i \in DOMAIN of :
         ~Nameless(format, of[i]) => Returns(format, of[i], Convert(format, items[i]))
  BY <1>2, <1>3, ExportedReturns
<1>5. format # "backup"
  OBVIOUS
<1> QED BY <1>1, <1>4, <1>5 DEF Home

LEMMA BackupComesHome ==
  ASSUME FinishBackup
  PROVE  Home'
<1> DEFINE of == cmd.records
           items == [i \in DOMAIN of |-> Render("backup", of[i])]
<1>1. file' = [NoFile EXCEPT !.format = "backup", !.of = of, !.told = cmd.done.skipped,
                             !.items = items]
  BY DEF FinishBackup
<1>2. \A i \in DOMAIN of : items[i] = Render("backup", of[i])
  OBVIOUS
<1> HIDE DEF items
<1>3. file'.format = "backup" /\ file'.of = of /\ file'.items = items
  BY <1>1 DEF NoFile
<1>4. \A i \in DOMAIN of : Returns("backup", of[i], Convert("backup", items[i]))
  BY <1>2, BackupReturns
<1> QED BY <1>3, <1>4 DEF Home

LEMMA FoundComesHome ==
  ASSUME NEW f \in Foreign, FindFile(f)
  PROVE  Home'
<1>1. file'.of = << >>
  BY DEF FindFile, NoFile
<1>2. DOMAIN << >> = {}
  OBVIOUS
<1> QED BY <1>1, <1>2 DEF Home

LEMMA ImportedComesHome ==
  ASSUME CommandsInv, Home, FinishImport
  PROVE  Home'
<1> DEFINE imported == IF cmd.done.failed = 0 /\ cmd.rival = used.rival THEN cmd.format ELSE "none"
<1>1. file' = [file EXCEPT !.imported = imported, !.after = entries]
  BY DEF FinishImport
<1> HIDE DEF imported
<1>2. file'.format = file.format /\ file'.items = file.items /\ file'.of = file.of
  BY <1>1 DEF CommandsInv, AllSound, FileIsSound, NoFile
<1> QED BY <1>2 DEF Home

\* ExportBitwarden, Export1PUX, ExportCSV, Export1PasswordCSV and backup.Create
\* against the importers, from every vault: each entry that has a name comes back
\* with all the format has a place for.
THEOREM ExportsComeHome == CommandsSpec => []ComesHome
<1>1. ASSUME CommandsInv, Home, [CommandsNext]_commandsVars
      PROVE  Home'
  <2>1. CASE file' = file
    BY <1>1, <2>1 DEF Home
  <2>2. CASE file' # file
    <3>1. CommandsNext
      BY <1>1, <2>2 DEF commandsVars
    <3> QED BY <1>1, <2>2, <3>1, FilesChangeSo, ExportComesHome, BackupComesHome,
               FoundComesHome, ImportedComesHome
  <2> QED BY <2>1, <2>2
<1>2. CommandsInit => Home
  <2> SUFFICES ASSUME CommandsInit PROVE Home
    OBVIOUS
  <2>1. file.of = << >>
    BY DEF CommandsInit, NoFile
  <2> QED BY <2>1 DEF Home
<1>3. CommandsSpec => []Home
  BY <1>1, <1>2, CommandsKeepInv, PTL DEF CommandsSpec
<1>4. Home => ComesHome
  BY HomeIsComesHome
<1> QED BY <1>3, <1>4, PTL
=============================================================================
