--------------------------- MODULE ConfigAdminProofs ---------------------------
(***************************************************************************)
(* Proofs about ConfigAdmin, for any requests, changes and rules and any   *)
(* number of crashes.                                                      *)
(*                                                                         *)
(* Everything rests on when the two copies of the configuration may        *)
(* differ: only between the two steps of the request that holds the lock   *)
(* (LockHeld, CopiesAgree), which is when the file holds what that request *)
(* is about to put into memory (Written).  What is on its way to the file  *)
(* has passed the checks (OnlyChecked), and what a request was told is     *)
(* saved is in every configuration and every form that may still be saved  *)
(* (AckedEverywhere), unless another request was under way together with   *)
(* it (OverlapsSeen).                                                      *)
(***************************************************************************)
EXTENDS ConfigAdmin, TLAPS

\* The lock is held by the request that saves, and by nobody without a process.
LockHeld ==
    /\ \A r \in Requests : request[r].pc \in {"write", "swap"} <=> lock = r
    /\ memory = Down =>
         lock = Nobody /\ \A r \in Requests : request[r].pc \notin {"lock", "write", "swap"}

\* The copy in memory is the file's until a new file has been written.
CopiesAgree ==
    (memory # Down /\ \A r \in Requests : request[r].pc # "swap") => memory = Loaded(disk)

\* A new file is what the request that wrote it is about to put into memory.
Written == \A r \in Requests : request[r].pc = "swap" => disk = request[r].config

\* What is on its way to the file has passed the checks, and so has the file.
OnlyChecked ==
    /\ \A r \in Requests :
          request[r].pc \in {"lock", "write", "swap"} => Savable(request[r].config)
    /\ disk # Absent => Savable(disk)

\* There is an administrator: in the file, and in memory if there is a process.
Established == disk # Absent /\ (memory # Down => memory.admin # Nobody)

AckedEstablished == \A r \in Requests : request[r].pc = "done" => Established

\* Two requests that are under way together have overlapped.
OverlapsSeen ==
    \A r, q \in Requests : r # q /\ UnderWay(r) /\ UnderWay(q) => r \in overlapped

\* What r asks for is the case among these rules.
Heeds(r, rules) ==
    CASE Change[r].kind = "create" -> Change[r].rule \in rules
      [] Change[r].kind = "delete" -> Change[r].rule \notin rules
      [] OTHER -> TRUE

\* What a request saves is what it was asked for.
SavesItsChange ==
    \A r \in Requests :
        request[r].pc \in {"lock", "write", "swap"} => Heeds(r, request[r].config.rules)

\* The rules of r's acknowledged change are wherever a configuration comes from.
HeededEverywhere(r) ==
    /\ memory # Down => Heeds(r, memory.rules)
    /\ disk # Absent /\ Heeds(r, disk.rules)
    /\ \A q \in Requests :
          /\ request[q].pc = "shown" => Heeds(r, request[q].rules)
          /\ request[q].pc \in {"lock", "write", "swap"} => Heeds(r, request[q].config.rules)

AckedEverywhere ==
    \A r \in Requests \ overlapped :
        (/\ Change[r].kind \in {"create", "delete"}
         /\ request[r].pc = "done" /\ ~Contrary(r)) => HeededEverywhere(r)

IInv ==
    /\ TypeOK /\ LockHeld /\ CopiesAgree /\ Written /\ OnlyChecked
    /\ AckedEstablished /\ OverlapsSeen /\ SavesItsChange /\ AckedEverywhere

-----------------------------------------------------------------------------
(* The operators on configurations, and the types.                         *)

PCs == {"new", "shown", "lock", "write", "swap", "done", "rejected", "lost"}

Request == [pc : PCs, rules : SUBSET Rules, config : Config]

\* The default configuration is one, and has no administrator.
LEMMA DefaultConfig == Default \in Config /\ Default.admin = Nobody
  BY DEF Default, Config

\* Whatever a request asks for, it makes a configuration of a configuration.
LEMMA ChangedConfig ==
  ASSUME NEW r \in Requests, NEW config \in Config, NEW rules \in SUBSET Rules
  PROVE  Changed(r, config, rules) \in Config
<1> DEFINE change == Change[r]
<1>1. change \in Changes
  BY ChangeAssumption
<1>2. /\ config.admin \in Requests \union {Nobody} /\ config.private \in BOOLEAN
      /\ config.password \in BOOLEAN /\ config.api \in BOOLEAN /\ config.token \in BOOLEAN
      /\ config.rules \in SUBSET Rules
      /\ config = [admin |-> config.admin, private |-> config.private, password |-> config.password,
                   api |-> config.api, token |-> config.token, rules |-> config.rules]
  BY DEF Config
<1>3. CASE change.kind = "setup"
  <2>1. change.password \in BOOLEAN
    BY <1>1, <1>3 DEF Changes
  <2>2. (config.password \/ change.password) \in BOOLEAN
    OBVIOUS
  <2>3. Changed(r, config, rules)
          = [config EXCEPT !.admin = r, !.password = config.password \/ change.password]
    BY <1>3 DEF Changed
  <2> QED BY <1>2, <2>2, <2>3 DEF Config
<1>4. CASE change.kind = "create"
  <2>1. change.rule \in Rules
    BY <1>1, <1>4 DEF Changes
  <2>2. Changed(r, config, rules) = [config EXCEPT !.rules = config.rules \union {change.rule}]
    BY <1>4 DEF Changed
  <2>3. config.rules \union {change.rule} \in SUBSET Rules
    BY <1>2, <2>1
  <2> QED BY <1>2, <2>2, <2>3 DEF Config
<1>5. CASE change.kind = "delete"
  <2>1. Changed(r, config, rules) = [config EXCEPT !.rules = config.rules \ {change.rule}]
    BY <1>5 DEF Changed
  <2>2. config.rules \ {change.rule} \in SUBSET Rules
    BY <1>2
  <2> QED BY <1>2, <2>1, <2>2 DEF Config
<1>6. CASE change.kind = "form"
  <2> DEFINE token == CASE change.token = "clear" -> FALSE
                        [] change.token = "set" -> TRUE
                        [] OTHER -> config.token
             password == config.password \/ change.password
  <2>1. change.private \in BOOLEAN /\ change.api \in BOOLEAN
    BY <1>1, <1>6 DEF Changes
  <2>2. token \in BOOLEAN /\ password \in BOOLEAN
    BY <1>2
  <2>3. Changed(r, config, rules)
          = [config EXCEPT !.private = change.private, !.password = password,
                           !.api = change.api, !.token = token, !.rules = rules]
    BY <1>6 DEF Changed
  <2> HIDE DEF token, password
  <2> QED BY <1>2, <2>1, <2>2, <2>3 DEF Config
<1> QED BY <1>1, <1>3, <1>4, <1>5, <1>6 DEF Changes

\* The rules of a changed configuration: the request's own change, or those its
\* form was loaded with, or those that were there.
LEMMA ChangedRules ==
  ASSUME NEW r \in Requests, NEW config \in Config, NEW rules \in SUBSET Rules
  PROVE  /\ Heeds(r, Changed(r, config, rules).rules)
         /\ Changed(r, config, rules).rules =
              CASE Change[r].kind = "create" -> config.rules \union {Change[r].rule}
                [] Change[r].kind = "delete" -> config.rules \ {Change[r].rule}
                [] Change[r].kind = "form" -> rules
                [] OTHER -> config.rules
<1>1. Change[r].kind \in {"setup", "create", "delete", "form"}
  BY ChangeAssumption DEF Changes
<1>2. Changed(r, config, rules).rules =
        CASE Change[r].kind = "create" -> config.rules \union {Change[r].rule}
          [] Change[r].kind = "delete" -> config.rules \ {Change[r].rule}
          [] Change[r].kind = "form" -> rules
          [] OTHER -> config.rules
  BY <1>1 DEF Changed, Config
<1> QED BY <1>1, <1>2 DEF Heeds

LEMMA LoadedConfig == TypeOK => Loaded(disk) \in Config
  BY DefaultConfig DEF TypeOK, Loaded

LEMMA InitIInv == Init => IInv
<1> SUFFICES ASSUME Init PROVE IInv
  OBVIOUS
<1> USE DEF Init
<1>1. TypeOK
  <2>1. [pc |-> "new", rules |-> {}, config |-> Default]
          \in [pc : {"new", "shown", "lock", "write", "swap", "done", "rejected", "lost"},
               rules : SUBSET Rules, config : Config]
    BY DefaultConfig
  <2> QED BY <2>1, DefaultConfig, CrashAssumption DEF TypeOK
<1>2. \A r \in Requests : request[r].pc = "new"
  OBVIOUS
<1>3. LockHeld /\ CopiesAgree /\ Written /\ OnlyChecked
  BY <1>2, NobodyAssumption, DefaultConfig DEF LockHeld, CopiesAgree, Loaded, Written, OnlyChecked
<1>4. AckedEstablished /\ OverlapsSeen /\ SavesItsChange /\ AckedEverywhere
  BY <1>2 DEF AckedEstablished, OverlapsSeen, UnderWay, SavesItsChange, AckedEverywhere
<1> QED BY <1>1, <1>3, <1>4 DEF IInv

LEMMA NextTypeOK == TypeOK /\ [Next]_vars => TypeOK'
<1> SUFFICES ASSUME TypeOK, [Next]_vars PROVE TypeOK'
  OBVIOUS
<1>1. /\ memory \in Config \union {Down} /\ disk \in Config \union {Absent}
      /\ lock \in Requests \union {Nobody} /\ request \in [Requests -> Request]
      /\ crashes \in 0..MaxCrashes /\ overlapped \subseteq Requests
  BY DEF TypeOK, Request, PCs
<1>2. TypeOK' <=> /\ memory' \in Config \union {Down} /\ disk' \in Config \union {Absent}
                  /\ lock' \in Requests \union {Nobody} /\ request' \in [Requests -> Request]
                  /\ crashes' \in 0..MaxCrashes /\ overlapped' \subseteq Requests
  BY DEF TypeOK, Request, PCs
<1>3. ASSUME NEW r \in Requests, NEW req \in Request, request' = [request EXCEPT ![r] = req]
      PROVE  request' \in [Requests -> Request]
  BY <1>1, <1>3
<1>4. Next => overlapped' \subseteq Requests
  BY <1>1 DEF Next, Observe
<1>5. ASSUME NEW r \in Requests, Next, ShowForm(r) PROVE TypeOK'
  <2>1. request' = [request EXCEPT ![r] = [request[r] EXCEPT !.pc = "shown", !.rules = memory.rules]]
    BY <1>1, <1>5 DEF ShowForm
  <2>2. [request[r] EXCEPT !.pc = "shown", !.rules = memory.rules] \in Request
    <3>1. memory.rules \in SUBSET Rules /\ "shown" \in PCs /\ request[r] \in Request
      BY <1>1, <1>5 DEF ShowForm, CanGet, Config, PCs
    <3> QED BY <3>1 DEF Request
  <2>3. request' \in [Requests -> Request]
    BY <1>3, <2>1, <2>2
  <2> QED BY <1>1, <1>2, <1>4, <1>5, <2>3 DEF ShowForm
<1>6. ASSUME NEW r \in Requests, Next, Load(r) PROVE TypeOK'
  <2> DEFINE config == Changed(r, memory, request[r].rules)
             pc == IF Applicable(Change[r], memory) /\ Savable(config) THEN "lock" ELSE "rejected"
  <2>1. request' = [request EXCEPT ![r].pc = pc, ![r].config = config]
    BY <1>6 DEF Load
  <2>2. pc \in PCs
    BY DEF PCs
  <2>3. request[r].rules \in SUBSET Rules /\ memory \in Config
    BY <1>1, <1>6 DEF Load, CanGet, Request
  <2>4. config \in Config
    BY <2>3, ChangedConfig
  <2> HIDE DEF pc, config
  <2>5. request' = [request EXCEPT ![r] = [request[r] EXCEPT !.pc = pc, !.config = config]]
    BY <1>1, <2>1
  <2>6. [request[r] EXCEPT !.pc = pc, !.config = config] \in Request
    BY <1>1, <2>2, <2>4 DEF Request
  <2>7. request' \in [Requests -> Request]
    BY <1>3, <2>5, <2>6
  <2> QED BY <1>1, <1>2, <1>4, <1>6, <2>7 DEF Load
<1>7. ASSUME NEW r \in Requests, NEW pc \in PCs, request' = [request EXCEPT ![r].pc = pc]
      PROVE  request' \in [Requests -> Request]
  <2>1. request' = [request EXCEPT ![r] = [request[r] EXCEPT !.pc = pc]]
    BY <1>1, <1>7
  <2>2. [request[r] EXCEPT !.pc = pc] \in Request
    BY <1>1 DEF Request
  <2> QED BY <1>3, <2>1, <2>2
<1>8. {"write", "swap", "done", "rejected", "lost"} \subseteq PCs
  BY DEF PCs
<1>9. ASSUME NEW r \in Requests, Next, Lock(r) PROVE TypeOK'
  BY <1>1, <1>2, <1>4, <1>7, <1>8, <1>9 DEF Lock
<1>10. ASSUME NEW r \in Requests, Next, WriteFile(r) PROVE TypeOK'
  <2>1. request[r].config \in Config
    BY <1>1 DEF Request
  <2> QED BY <1>1, <1>2, <1>4, <1>7, <1>8, <1>10, <2>1 DEF WriteFile
<1>11. ASSUME NEW r \in Requests, Next, Swap(r) PROVE TypeOK'
  <2>1. request[r].config \in Config
    BY <1>1 DEF Request
  <2> QED BY <1>1, <1>2, <1>4, <1>7, <1>8, <1>11, <2>1 DEF Swap
<1>12. ASSUME Next, Crash PROVE TypeOK'
  <2>1. ASSUME NEW r \in Requests
        PROVE  (IF request[r].pc \in {"lock", "write", "swap"}
                THEN [request[r] EXCEPT !.pc = "lost"] ELSE request[r]) \in Request
    BY <1>1, <1>8 DEF Request
  <2>2. request' \in [Requests -> Request]
    BY <1>12, <2>1 DEF Crash
  <2>3. crashes' \in 0..MaxCrashes
    BY <1>1, <1>12, CrashAssumption DEF Crash
  <2> QED BY <1>1, <1>2, <1>4, <1>12, <2>2, <2>3 DEF Crash
<1>13. ASSUME Next, Restart PROVE TypeOK'
  BY <1>1, <1>2, <1>4, <1>13, LoadedConfig DEF Restart
<1>14. CASE UNCHANGED vars
  BY <1>1, <1>2, <1>14 DEF vars
<1> QED
  BY <1>5, <1>6, <1>9, <1>10, <1>11, <1>12, <1>13, <1>14 DEF Next, Step

-----------------------------------------------------------------------------
(* The invariant.                                                          *)

Saving(r) == request[r].pc \in {"lock", "write", "swap"}

Moves(r) == ShowForm(r) \/ Load(r) \/ Lock(r) \/ WriteFile(r) \/ Swap(r)

LEMMA NextCases == [Next]_vars =>
    \/ \E r \in Requests : Moves(r) /\ Observe
    \/ (Crash \/ Restart) /\ Observe
    \/ UNCHANGED vars
  BY DEF Next, Step, Moves

\* What each step of a handler does to its own request and to the others.
LEMMA RequestSteps ==
  ASSUME TypeOK, NEW r \in Requests
  PROVE  /\ ShowForm(r) => request'[r].pc = "shown" /\ request'[r].rules = memory.rules
         /\ Load(r) => /\ request'[r].config = Changed(r, memory, request[r].rules)
                       /\ \/ request'[r].pc = "rejected"
                          \/ /\ request'[r].pc = "lock" /\ Savable(request'[r].config)
                             /\ Applicable(Change[r], memory)
         /\ Lock(r) => request'[r].pc = "write"
         /\ WriteFile(r) => \/ /\ request'[r].pc = "swap" /\ lock' = r
                               /\ disk' = request[r].config
                            \/ request'[r].pc = "rejected" /\ lock' = Nobody /\ disk' = disk
         /\ Swap(r) => request'[r].pc = "done"
         /\ Lock(r) \/ WriteFile(r) \/ Swap(r) => request'[r].config = request[r].config
         /\ Moves(r) => \A q \in Requests \ {r} : request'[q] = request[q]
<1>1. request \in [Requests -> Request]
  BY DEF TypeOK, Request, PCs
<1>2. ShowForm(r) => request'[r].pc = "shown" /\ request'[r].rules = memory.rules
  BY <1>1 DEF ShowForm, Request
<1>3. Load(r) => /\ request'[r].config = Changed(r, memory, request[r].rules)
                 /\ \/ request'[r].pc = "rejected"
                    \/ /\ request'[r].pc = "lock" /\ Savable(request'[r].config)
                       /\ Applicable(Change[r], memory)
  BY <1>1 DEF Load, Request
<1>4. Lock(r) => request'[r].pc = "write" /\ request'[r].config = request[r].config
  BY <1>1 DEF Lock, Request
<1>5. WriteFile(r) => /\ request'[r].config = request[r].config
                      /\ \/ request'[r].pc = "swap" /\ lock' = r /\ disk' = request[r].config
                         \/ request'[r].pc = "rejected" /\ lock' = Nobody /\ disk' = disk
  BY <1>1 DEF WriteFile, Request
<1>6. Swap(r) => request'[r].pc = "done" /\ request'[r].config = request[r].config
  BY <1>1 DEF Swap, Request
<1>7. Moves(r) => \A q \in Requests \ {r} : request'[q] = request[q]
  BY <1>1 DEF Moves, ShowForm, Load, Lock, WriteFile, Swap
<1> QED BY <1>2, <1>3, <1>4, <1>5, <1>6, <1>7

\* A crash loses the requests that are saving and leaves the others alone.
LEMMA CrashStep ==
  ASSUME TypeOK, Crash, NEW r \in Requests
  PROVE  /\ request'[r].pc = IF Saving(r) THEN "lost" ELSE request[r].pc
         /\ request'[r].rules = request[r].rules
  BY DEF TypeOK, Crash, Saving

LEMMA NextLockHeld == TypeOK /\ LockHeld /\ [Next]_vars => LockHeld'
<1> SUFFICES ASSUME TypeOK, LockHeld, [Next]_vars PROVE LockHeld'
  OBVIOUS
<1>1. ASSUME NEW r \in Requests, Moves(r) PROVE LockHeld'
  <2>1. memory # Down /\ memory' # Down
    <3>1. memory # Down
      BY <1>1 DEF Moves, ShowForm, Load, Lock, WriteFile, Swap, CanGet, LockHeld
    <3>2. request[r].config # Down
      BY NobodyAssumption DEF TypeOK
    <3> QED BY <1>1, <3>1, <3>2 DEF Moves, ShowForm, Load, Lock, WriteFile, Swap
  <2>2. request'[r].pc \in {"write", "swap"} <=> lock' = r
    <3>1. r # Nobody
      BY NobodyAssumption
    <3>2. CASE ShowForm(r) \/ Load(r)
      BY <1>1, <3>2, RequestSteps DEF ShowForm, Load, LockHeld
    <3>3. CASE Lock(r)
      BY <3>3, RequestSteps DEF Lock
    <3>4. CASE WriteFile(r)
      BY <3>1, <3>4, RequestSteps
    <3>5. CASE Swap(r)
      BY <3>1, <3>5, RequestSteps DEF Swap
    <3> QED BY <1>1, <3>2, <3>3, <3>4, <3>5 DEF Moves
  <2>3. lock' = lock \/ (lock \in {r, Nobody} /\ lock' \in {r, Nobody})
    BY <1>1 DEF Moves, ShowForm, Load, Lock, WriteFile, Swap
  <2>4. ASSUME NEW q \in Requests \ {r}
        PROVE  request'[q].pc \in {"write", "swap"} <=> lock' = q
    BY <1>1, <2>3, <2>4, NobodyAssumption, RequestSteps DEF LockHeld
  <2> QED BY <2>1, <2>2, <2>4 DEF LockHeld
<1>2. CASE Crash
  BY <1>2, CrashStep, NobodyAssumption DEF Crash, LockHeld, Saving
<1>3. CASE Restart
  <2>1. memory' # Down
    BY <1>3, LoadedConfig, NobodyAssumption DEF Restart
  <2> QED BY <1>3, <2>1 DEF Restart, LockHeld
<1>4. CASE UNCHANGED vars
  BY <1>4 DEF vars, LockHeld
<1> QED BY <1>1, <1>2, <1>3, <1>4, NextCases

\* A request that has written its file is the only one to have done so.
LEMMA OneSwap ==
  ASSUME LockHeld, NEW r \in Requests, NEW q \in Requests,
         request[r].pc \in {"write", "swap"}, request[q].pc \in {"write", "swap"}
  PROVE  r = q
  BY DEF LockHeld

LEMMA NextWritten == TypeOK /\ LockHeld /\ Written /\ [Next]_vars => Written'
<1> SUFFICES ASSUME TypeOK, LockHeld, Written, [Next]_vars PROVE Written'
  OBVIOUS
<1>1. ASSUME NEW r \in Requests, Moves(r) PROVE Written'
  <2>1. request'[r].pc = "swap" => disk' = request'[r].config
    BY <1>1, RequestSteps DEF Moves
  <2>2. ASSUME NEW q \in Requests \ {r}, request'[q].pc = "swap" PROVE disk' = request'[q].config
    <3>1. request'[q] = request[q] /\ disk = request[q].config
      BY <1>1, <2>2, RequestSteps DEF Written
    <3>2. ~WriteFile(r)
      BY <2>2, <3>1, OneSwap DEF WriteFile
    <3> QED BY <1>1, <3>1, <3>2 DEF Moves, ShowForm, Load, Lock, Swap
  <2> QED BY <2>1, <2>2 DEF Written
<1>2. CASE Crash
  BY <1>2, CrashStep DEF Saving, Written
<1>3. CASE Restart
  BY <1>3 DEF Restart, Written
<1>4. CASE UNCHANGED vars
  BY <1>4 DEF vars, Written
<1> QED BY <1>1, <1>2, <1>3, <1>4, NextCases

LEMMA NextCopiesAgree ==
  TypeOK /\ LockHeld /\ Written /\ CopiesAgree /\ [Next]_vars => CopiesAgree'
<1> SUFFICES ASSUME TypeOK, LockHeld, Written, CopiesAgree, [Next]_vars PROVE CopiesAgree'
  OBVIOUS
<1>1. ASSUME NEW r \in Requests, Moves(r) PROVE CopiesAgree'
  <2> SUFFICES ASSUME memory' # Down, \A q \in Requests : request'[q].pc # "swap"
               PROVE  memory' = Loaded(disk)'
    BY DEF CopiesAgree
  <2>1. CASE Swap(r)
    <3>1. memory' = disk /\ disk' = disk
      BY <2>1 DEF Swap, Written
    <3>2. disk # Absent
      BY <2>1, NobodyAssumption DEF Swap, Written, TypeOK
    <3> QED BY <3>1, <3>2 DEF Loaded
  <2>2. CASE ~Swap(r)
    <3>1. memory' = memory
      BY <1>1, <2>2 DEF Moves, ShowForm, Load, Lock, WriteFile
    <3>2. disk' = disk
      BY <1>1, <2>2, RequestSteps DEF Moves, ShowForm, Load, Lock
    <3>3. \A q \in Requests \ {r} : request[q].pc # "swap"
      BY <1>1, RequestSteps
    <3>4. request[r].pc # "swap"
      BY <1>1, <2>2 DEF Moves, ShowForm, Load, Lock, WriteFile
    <3>5. memory = Loaded(disk)
      BY <3>1, <3>3, <3>4 DEF CopiesAgree
    <3> QED BY <3>1, <3>2, <3>5 DEF Loaded
  <2> QED BY <2>1, <2>2
<1>2. CASE Crash
  BY <1>2 DEF Crash, CopiesAgree
<1>3. CASE Restart
  BY <1>3 DEF Restart, CopiesAgree, Loaded
<1>4. CASE UNCHANGED vars
  BY <1>4 DEF vars, CopiesAgree, Loaded
<1> QED BY <1>1, <1>2, <1>3, <1>4, NextCases

LEMMA NextOnlyChecked == TypeOK /\ OnlyChecked /\ [Next]_vars => OnlyChecked'
<1> SUFFICES ASSUME TypeOK, OnlyChecked, [Next]_vars PROVE OnlyChecked'
  OBVIOUS
<1>1. ASSUME NEW r \in Requests, Moves(r) PROVE OnlyChecked'
  <2>1. request'[r].pc \in {"lock", "write", "swap"} => Savable(request'[r].config)
    BY <1>1, RequestSteps DEF Moves, OnlyChecked, Lock, WriteFile
  <2>2. disk' # Absent => Savable(disk')
    BY <1>1, RequestSteps DEF Moves, OnlyChecked, ShowForm, Load, Lock, WriteFile, Swap
  <2>3. \A q \in Requests \ {r} : request'[q] = request[q]
    BY <1>1, RequestSteps
  <2> QED BY <2>1, <2>2, <2>3 DEF OnlyChecked
<1>2. CASE Crash
  BY <1>2, CrashStep DEF Crash, Saving, OnlyChecked
<1>3. CASE Restart
  BY <1>3 DEF Restart, OnlyChecked
<1>4. CASE UNCHANGED vars
  BY <1>4 DEF vars, OnlyChecked
<1> QED BY <1>1, <1>2, <1>3, <1>4, NextCases

\* Nothing that has passed the checks is without an administrator.
LEMMA NextEstablished == TypeOK /\ OnlyChecked /\ Established /\ [Next]_vars => Established'
<1> SUFFICES ASSUME TypeOK, OnlyChecked, Established, [Next]_vars PROVE Established'
  OBVIOUS
<1>1. ASSUME NEW r \in Requests, Moves(r) PROVE Established'
  <2>1. disk' # Absent
    <3>1. request[r].config # Absent
      BY NobodyAssumption DEF TypeOK
    <3>2. disk' = disk \/ disk' = request[r].config
      BY <1>1 DEF Moves, ShowForm, Load, Lock, WriteFile, Swap
    <3> QED BY <3>1, <3>2 DEF Established
  <2>2. memory' # Down => memory'.admin # Nobody
    BY <1>1 DEF Moves, ShowForm, Load, Lock, WriteFile, Swap, Established, OnlyChecked, Savable
  <2> QED BY <2>1, <2>2 DEF Established
<1>2. CASE Crash
  BY <1>2 DEF Crash, Established
<1>3. CASE Restart
  BY <1>3 DEF Restart, Established, Loaded, OnlyChecked, Savable
<1>4. CASE UNCHANGED vars
  BY <1>4 DEF vars, Established
<1> QED BY <1>1, <1>2, <1>3, <1>4, NextCases

LEMMA NextAckedEstablished ==
  TypeOK /\ Written /\ OnlyChecked /\ AckedEstablished /\ [Next]_vars => AckedEstablished'
<1> SUFFICES ASSUME TypeOK, Written, OnlyChecked, AckedEstablished, [Next]_vars,
                    NEW r \in Requests, request'[r].pc = "done"
             PROVE  Established'
  BY DEF AckedEstablished
<1>1. CASE request[r].pc = "done"
  BY <1>1, NextEstablished DEF AckedEstablished
<1>2. CASE request[r].pc # "done"
  <2>1. Swap(r)
    <3>1. ASSUME NEW q \in Requests, Moves(q) PROVE Swap(r)
      BY <1>2, <3>1, RequestSteps DEF Moves
    <3>2. ~Crash /\ ~Restart /\ ~UNCHANGED vars
      BY <1>2, CrashStep DEF Saving, Restart, vars
    <3> QED BY <3>1, <3>2, NextCases
  <2>2. disk # Absent /\ memory' = disk /\ disk' = disk
    BY <2>1, NobodyAssumption DEF Swap, Written, TypeOK
  <2> QED BY <2>2 DEF Established, OnlyChecked, Savable
<1> QED BY <1>1, <1>2

LEMMA NextOverlapsSeen == OverlapsSeen /\ [Next]_vars => OverlapsSeen'
<1> SUFFICES ASSUME OverlapsSeen, [Next]_vars PROVE OverlapsSeen'
  OBVIOUS
<1>1. CASE Observe
  BY <1>1 DEF Observe, OverlapsSeen
<1>2. CASE UNCHANGED vars
  BY <1>2 DEF vars, OverlapsSeen, UnderWay
<1> QED BY <1>1, <1>2, NextCases

LEMMA NextSavesItsChange == TypeOK /\ SavesItsChange /\ [Next]_vars => SavesItsChange'
<1> SUFFICES ASSUME TypeOK, SavesItsChange, [Next]_vars PROVE SavesItsChange'
  OBVIOUS
<1> USE DEF SavesItsChange
<1>1. ASSUME NEW r \in Requests, Moves(r) PROVE SavesItsChange'
  <2>1. \A q \in Requests \ {r} : request'[q] = request[q]
    BY <1>1, RequestSteps
  <2>2. ASSUME request'[r].pc \in {"lock", "write", "swap"} PROVE Heeds(r, request'[r].config.rules)
    <3>1. CASE Load(r)
      <4>1. memory \in Config /\ request[r].rules \in SUBSET Rules
        BY <3>1 DEF Load, CanGet, TypeOK
      <4> QED BY <3>1, <4>1, ChangedRules, RequestSteps
    <3>2. CASE ~Load(r)
      BY <1>1, <2>2, <3>2, RequestSteps DEF Moves, Lock, WriteFile
    <3> QED BY <3>1, <3>2
  <2> QED BY <2>1, <2>2 DEF Heeds
<1>2. CASE Crash
  BY <1>2, CrashStep DEF Saving
<1>3. CASE Restart
  BY <1>3 DEF Restart, Heeds
<1>4. CASE UNCHANGED vars
  BY <1>4 DEF vars, Heeds
<1> QED BY <1>1, <1>2, <1>3, <1>4, NextCases

\* Only its own Swap acknowledges a request.
LEMMA SwapAcknowledges ==
  ASSUME TypeOK, [Next]_vars, NEW r \in Requests, request'[r].pc = "done", request[r].pc # "done"
  PROVE  Swap(r)
<1>1. ASSUME NEW q \in Requests, Moves(q) PROVE Swap(r)
  BY <1>1, RequestSteps DEF Moves
<1>2. ~Crash /\ ~Restart /\ ~UNCHANGED vars
  BY CrashStep DEF Saving, Restart, vars
<1> QED BY <1>1, <1>2, NextCases

\* A request that has been made stays made, and who has overlapped has for good.
LEMMA NothingForgotten ==
  ASSUME TypeOK, [Next]_vars
  PROVE  /\ overlapped \subseteq overlapped'
         /\ \A q \in Requests : request[q].pc # "new" => request'[q].pc # "new"
<1>1. overlapped \subseteq overlapped'
  BY NextCases DEF Observe, vars
<1>2. ASSUME NEW q \in Requests, request[q].pc # "new" PROVE request'[q].pc # "new"
  <2>1. ASSUME NEW r \in Requests, Moves(r) PROVE request'[q].pc # "new"
    <3>1. CASE q = r
      BY <2>1, <3>1, RequestSteps DEF Moves
    <3>2. CASE q # r
      BY <1>2, <2>1, <3>2, RequestSteps
    <3> QED BY <3>1, <3>2
  <2>2. Crash => request'[q].pc # "new"
    BY <1>2, CrashStep DEF Saving
  <2>3. Restart \/ UNCHANGED vars => request'[q].pc # "new"
    BY <1>2 DEF Restart, vars
  <2> QED BY <2>1, <2>2, <2>3, NextCases
<1> QED BY <1>1, <1>2

\* A request loads and changes rules that heed r without going against r, unless
\* it asks for the contrary.
LEMMA LoadHeeds ==
  ASSUME TypeOK, NEW r \in Requests, NEW q \in Requests \ {r}, Load(q),
         Change[r].kind \in {"create", "delete"}, ~Contrary(r)', HeededEverywhere(r)
  PROVE  Heeds(r, request'[q].config.rules)
<1>1. memory \in Config /\ request[q].rules \in SUBSET Rules
  BY DEF Load, CanGet, TypeOK
<1>2. request'[q].config.rules =
        CASE Change[q].kind = "create" -> memory.rules \union {Change[q].rule}
          [] Change[q].kind = "delete" -> memory.rules \ {Change[q].rule}
          [] Change[q].kind = "form" -> request[q].rules
          [] OTHER -> memory.rules
  <2>1. request'[q].config = Changed(q, memory, request[q].rules)
    BY RequestSteps
  <2>2. Changed(q, memory, request[q].rules).rules =
          CASE Change[q].kind = "create" -> memory.rules \union {Change[q].rule}
            [] Change[q].kind = "delete" -> memory.rules \ {Change[q].rule}
            [] Change[q].kind = "form" -> request[q].rules
            [] OTHER -> memory.rules
    BY <1>1, ChangedRules
  <2> QED BY <2>1, <2>2
<1>3. request'[q].pc # "new"
  BY RequestSteps
<1>4. Change[q].kind \in {"create", "delete"} /\ Change[q].kind # Change[r].kind =>
        Change[q].rule # Change[r].rule
  BY <1>3 DEF Contrary
<1>5. Heeds(r, memory.rules)
  BY DEF HeededEverywhere, Load, CanGet
<1>6. Change[q].kind = "form" => Heeds(r, request[q].rules)
  BY DEF HeededEverywhere, Load
<1>7. CASE Change[q].kind = "create"
  BY <1>2, <1>4, <1>5, <1>7 DEF Heeds
<1>8. CASE Change[q].kind = "delete"
  BY <1>2, <1>4, <1>5, <1>8 DEF Heeds
<1>9. CASE Change[q].kind = "form"
  BY <1>2, <1>6, <1>9
<1>10. CASE Change[q].kind \notin {"create", "delete", "form"}
  BY <1>2, <1>5, <1>10
<1> QED BY <1>7, <1>8, <1>9, <1>10

LEMMA NextAckedEverywhere == IInv /\ [Next]_vars => AckedEverywhere'
<1> SUFFICES ASSUME IInv, [Next]_vars,
                    NEW r \in Requests \ overlapped',
                    Change[r].kind \in {"create", "delete"},
                    request'[r].pc = "done", ~Contrary(r)'
             PROVE  HeededEverywhere(r)'
  BY DEF AckedEverywhere
<1>1. r \notin overlapped /\ TypeOK
  BY NothingForgotten DEF IInv
<1>2. CASE request[r].pc = "done"
  <2>1. HeededEverywhere(r)
    <3>1. ~Contrary(r)
      BY <1>1, NothingForgotten DEF Contrary
    <3> QED BY <1>1, <1>2, <3>1 DEF IInv, AckedEverywhere
  <2>2. ASSUME NEW q \in Requests, Moves(q) PROVE HeededEverywhere(r)'
    <3>1. q # r
      BY <1>2, <2>2 DEF Moves, ShowForm, Load, Lock, WriteFile, Swap
    <3>2. /\ request'[q].pc = "shown" => Heeds(r, request'[q].rules)
          /\ request'[q].pc \in {"lock", "write", "swap"} => Heeds(r, request'[q].config.rules)
      <4>1. CASE ShowForm(q)
        BY <1>1, <2>1, <4>1, RequestSteps DEF HeededEverywhere, ShowForm, CanGet
      <4>2. CASE Load(q)
        BY <1>1, <2>1, <3>1, <4>2, LoadHeeds, RequestSteps
      <4>3. CASE Lock(q) \/ WriteFile(q) \/ Swap(q)
        BY <1>1, <2>1, <4>3, RequestSteps DEF HeededEverywhere, Lock, WriteFile, Swap
      <4> QED BY <2>2, <4>1, <4>2, <4>3 DEF Moves
    <3>3. ASSUME NEW p \in Requests \ {q} PROVE request'[p] = request[p]
      BY <1>1, <2>2, RequestSteps
    <3>4. memory' # Down => Heeds(r, memory'.rules)
      BY <2>1, <2>2 DEF HeededEverywhere, Moves, ShowForm, Load, Lock, WriteFile, Swap
    <3>5. disk' # Absent /\ Heeds(r, disk'.rules)
      <4>1. request[q].config # Absent
        BY <1>1, NobodyAssumption DEF TypeOK
      <4> QED BY <2>1, <2>2, <4>1
              DEF HeededEverywhere, Moves, ShowForm, Load, Lock, WriteFile, Swap
    <3> QED BY <2>1, <3>2, <3>3, <3>4, <3>5 DEF HeededEverywhere, Heeds
  <2>3. CASE Crash
    <3>1. memory' = Down /\ disk' = disk
      BY <2>3 DEF Crash
    <3>2. ASSUME NEW q \in Requests
          PROVE  /\ request'[q].pc = "shown" => Heeds(r, request'[q].rules)
                 /\ request'[q].pc \notin {"lock", "write", "swap"}
      BY <1>1, <2>1, <2>3, CrashStep DEF Saving, HeededEverywhere
    <3> QED BY <2>1, <3>1, <3>2 DEF HeededEverywhere, Heeds
  <2>4. CASE Restart
    <3>1. memory' = disk /\ disk' = disk /\ request' = request
      BY <2>1, <2>4 DEF Restart, Loaded, HeededEverywhere
    <3> QED BY <2>1, <3>1 DEF HeededEverywhere, Heeds
  <2>5. CASE UNCHANGED vars
    BY <2>1, <2>5 DEF HeededEverywhere, Heeds, vars
  <2> QED BY <2>2, <2>3, <2>4, <2>5, NextCases
<1>3. CASE request[r].pc # "done"
  <2>1. Swap(r)
    BY <1>1, <1>3, SwapAcknowledges
  <2>2. /\ memory' = request[r].config /\ disk' = disk /\ disk = request[r].config
        /\ disk # Absent
    BY <1>1, <2>1, NobodyAssumption DEF Swap, IInv, Written, TypeOK
  <2>3. Heeds(r, request[r].config.rules)
    BY <2>1 DEF Swap, IInv, SavesItsChange
  <2>4. ASSUME NEW q \in Requests \ {r}
        PROVE  request'[q].pc \notin {"shown", "lock", "write", "swap"}
    <3>1. ~UnderWay(q)
      BY <1>1, <2>1 DEF IInv, OverlapsSeen, UnderWay, Swap
    <3>2. request'[q] = request[q]
      BY <1>1, <2>1, RequestSteps DEF Moves
    <3> QED BY <3>1, <3>2 DEF UnderWay
  <2> QED BY <2>2, <2>3, <2>4 DEF HeededEverywhere, Heeds
<1> QED BY <1>2, <1>3

LEMMA NextIInv == IInv /\ [Next]_vars => IInv'
<1> SUFFICES ASSUME IInv, [Next]_vars PROVE IInv'
  OBVIOUS
<1>1. /\ TypeOK /\ LockHeld /\ CopiesAgree /\ Written /\ OnlyChecked
      /\ AckedEstablished /\ OverlapsSeen /\ SavesItsChange /\ AckedEverywhere
  BY DEF IInv
<1>2. TypeOK' /\ LockHeld' /\ Written' /\ CopiesAgree' /\ OnlyChecked'
  BY <1>1, NextTypeOK, NextLockHeld, NextWritten, NextCopiesAgree, NextOnlyChecked
<1>3. AckedEstablished' /\ OverlapsSeen' /\ SavesItsChange' /\ AckedEverywhere'
  BY <1>1, NextAckedEstablished, NextOverlapsSeen, NextSavesItsChange, NextAckedEverywhere
<1> QED BY <1>2, <1>3 DEF IInv

LEMMA Invariance == Spec => []IInv
  BY InitIInv, NextIInv, PTL DEF Spec

-----------------------------------------------------------------------------
(* The theorems.                                                           *)

\* Whatever is saved when, and wherever the process is killed, the file it left
\* can be served by the next one: it passed the checks of saveConfig
\* (api.go:801-810) as a whole, and was renamed over the one before (the overwrite
\* in place on Windows is not modelled).
THEOREM FileAlwaysServable == Spec => []FileServable
<1>1. IInv => FileServable
  BY DEF IInv, OnlyChecked, Savable, FileServable
<1> QED BY <1>1, Invariance, PTL

\* Once there is an administrator (setup, api.go:386-408) there is one for good,
\* across concurrent setups, saves, crashes and restarts, where the file is
\* replaced by a rename.
THEOREM AlwaysSetUpForGood == Spec => SetUpForGood
<1> DEFINE HasAdmin == memory # Down => memory.admin # Nobody
           SetUp == memory # Down /\ memory.admin # Nobody
<1>1. IInv /\ SetUp => Established
  <2> SUFFICES ASSUME IInv, SetUp PROVE disk # Absent
    BY DEF Established
  <2>1. CASE \E r \in Requests : request[r].pc = "swap"
    BY <2>1, NobodyAssumption DEF IInv, Written, TypeOK
  <2>2. CASE \A r \in Requests : request[r].pc # "swap"
    BY <2>2, DefaultConfig DEF IInv, CopiesAgree, Loaded
  <2> QED BY <2>1, <2>2
<1>2. IInv /\ Established /\ [Next]_vars => Established'
  BY NextEstablished DEF IInv
<1>3. Established => HasAdmin
  BY DEF Established
<1>4. Spec => [](SetUp => []HasAdmin)
  <2> HIDE DEF SetUp, HasAdmin
  <2> QED BY <1>1, <1>2, <1>3, Invariance, PTL DEF Spec
<1> QED BY <1>4 DEF SetUpForGood

\* What a request was told is saved (saveConfig, api.go:801-810, and the handlers
\* of api.go:708-737) stays saved, over every later save, form and restart, as
\* long as no other request was under way while it was and none asks for the
\* contrary: what is lost is lost to a request that overlapped.
THEOREM AckedStaysUnlessOverlappedAlways == Spec => []AckedStaysUnlessOverlapped
<1>1. IInv => AckedStaysUnlessOverlapped
  <2> SUFFICES ASSUME IInv, NEW r \in Requests \ overlapped,
                      request[r].pc = "done", memory # Down, ~Contrary(r)
               PROVE  CASE Change[r].kind = "create" -> Change[r].rule \in memory.rules
                        [] Change[r].kind = "delete" -> Change[r].rule \notin memory.rules
                        [] OTHER -> memory.admin # Nobody
    BY DEF AckedStaysUnlessOverlapped, AckedStays
  <2>1. CASE Change[r].kind \in {"create", "delete"}
    <3>1. Heeds(r, memory.rules)
      BY <2>1 DEF IInv, AckedEverywhere, HeededEverywhere
    <3> QED BY <2>1, <3>1 DEF Heeds
  <2>2. CASE Change[r].kind \notin {"create", "delete"}
    <3>1. memory.admin # Nobody
      BY DEF IInv, AckedEstablished, Established
    <3> QED BY <2>2, <3>1
  <2> QED BY <2>1, <2>2
<1> QED BY <1>1, Invariance, PTL

-----------------------------------------------------------------------------
(* The refinement of ConfigFile.                                           *)

\* What readers get, in the terms of ConfigFile.
Shown == IF memory = Down THEN Down
         ELSE IF lock = Nobody THEN memory ELSE Loaded(disk)

\* Outside of a swap the two copies are one, whoever holds the lock.
LEMMA ShownIsLoaded ==
  ASSUME IInv, memory # Down
  PROVE  Shown = Loaded(disk)
<1>1. CASE lock = Nobody
  <2>1. \A r \in Requests : request[r].pc # "swap"
    BY <1>1, NobodyAssumption DEF IInv, LockHeld
  <2> QED BY <1>1, <2>1 DEF Shown, IInv, CopiesAgree
<1>2. CASE lock # Nobody
  BY <1>2 DEF Shown
<1> QED BY <1>1, <1>2

\* Manager.Get (config.go:177-181) and Manager.Save (config.go:194-215), with a
\* file, replaced by a rename, and a copy in memory that are not written at once,
\* keep the promise of ConfigFile: each step of the program is a save, a crash or
\* a restart of the one configuration, or leaves it as it is.
THEOREM ConfigFileImplemented == Spec => ImplementsConfigFile
<1>1. Init => File!Init
  BY DefaultConfig, NobodyAssumption DEF Init, File!Init, Loaded
<1>2. IInv /\ IInv' /\ [Next]_vars => [File!Next]_(File!fileVars)
  <2> SUFFICES ASSUME IInv, IInv', [Next]_vars PROVE [File!Next]_<<Loaded(disk), Shown>>
    BY DEF File!fileVars, Shown
  <2>1. /\ Loaded(disk) \in Config /\ Loaded(disk)' \in Config
        /\ Loaded(disk) # Down /\ Loaded(disk)' # Down
    BY NobodyAssumption, DefaultConfig DEF IInv, TypeOK, Loaded
  <2>2. /\ memory # Down => Shown = Loaded(disk)
        /\ memory' # Down => Shown' = Loaded(disk)'
        /\ memory = Down => Shown = Down
        /\ memory' = Down => Shown' = Down
    <3>1. memory # Down => Shown = Loaded(disk)
      BY ShownIsLoaded
    <3>2. (memory # Down => Shown = Loaded(disk))'
      BY ShownIsLoaded, PTL
    <3> QED BY <3>1, <3>2 DEF Shown
  <2>3. ASSUME NEW r \in Requests, Moves(r) PROVE [File!Next]_<<Loaded(disk), Shown>>
    <3>1. memory # Down /\ memory' # Down
      <4>1. memory # Down
        BY <2>3 DEF Moves, ShowForm, Load, Lock, WriteFile, Swap, CanGet, IInv, LockHeld
      <4>2. request[r].config # Down
        BY NobodyAssumption DEF IInv, TypeOK
      <4> QED BY <2>3, <4>1, <4>2 DEF Moves, ShowForm, Load, Lock, WriteFile, Swap
    <3>2. CASE disk' = disk
      BY <2>2, <3>1, <3>2 DEF Loaded
    <3>3. CASE disk' # disk
      BY <2>1, <2>2, <3>1 DEF File!Next, File!Save, Shown
    <3> QED BY <3>2, <3>3
  <2>4. CASE Crash
    BY <2>2, <2>4 DEF Crash, File!Next, File!Crash, Loaded, Shown
  <2>5. CASE Restart
    BY <2>1, <2>2, <2>5 DEF Restart, File!Next, File!Restart, Loaded, Shown
  <2>6. CASE UNCHANGED vars
    BY <2>6 DEF vars, Loaded, Shown
  <2> QED BY <2>3, <2>4, <2>5, <2>6, NextCases
<1> QED BY <1>1, <1>2, Invariance, PTL DEF Spec, ImplementsConfigFile, File!Spec

=============================================================================
