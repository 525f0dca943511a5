----------------------------- MODULE ConfigAdmin -----------------------------
(***************************************************************************)
(* The configuration: the manager's copy in memory, the JSON file, and the *)
(* admin handlers that change both (config/config.go, httpapi/api.go).     *)
(*                                                                         *)
(* Every handler loads the configuration with Manager.Get, changes its     *)
(* copy, and hands the whole of it to saveConfig.  Manager.Save writes the *)
(* file (a temporary file renamed over it) and then swaps the copy in      *)
(* memory, under the manager's lock; nothing spans the handler's load and  *)
(* its save.  On Windows renameio/maybe has no such rename and overwrites  *)
(* the file in place, where a crash or an error may leave it cut short:    *)
(* the module is about the other systems.  The settings form is loaded even earlier, when the browser   *)
(* shows the page: it sends the lists of rules back as it got them then.   *)
(* The process may be killed at any step and started again.                *)
(***************************************************************************)
EXTENDS Integers, FiniteSets

CONSTANTS
    Rules,        \* ids of webhook rules and code projects
    Requests,     \* the requests administrators make
    Change,       \* Change[r]: what r asks for
    Nobody,       \* nobody holds the lock; there is no administrator yet
    Absent,       \* there is no file
    Down,         \* there is no process
    MaxCrashes    \* bound on the crashes

\* What the checks of saveConfig and the properties tell apart.
Config == [admin : Requests \union {Nobody},  \* whose request set admin.passwordHash
           private : BOOLEAN,                 \* access.mode is "private"
           password : BOOLEAN,                \* access.passwordHash is set
           api : BOOLEAN,                     \* api.enabled
           token : BOOLEAN,                   \* api.tokenHash is set
           rules : SUBSET Rules]              \* webhooks and codeProjects

Changes ==
    [kind : {"setup"}, password : BOOLEAN] \union
    [kind : {"create", "delete"}, rule : Rules] \union
    [kind : {"form"}, private : BOOLEAN, password : BOOLEAN, api : BOOLEAN,
     token : {"keep", "clear", "set"}]

ASSUME ChangeAssumption == Change \in [Requests -> Changes]
ASSUME NobodyAssumption == Nobody \notin Requests /\ Absent \notin Config /\ Down \notin Config
ASSUME CrashAssumption == MaxCrashes \in Nat

VARIABLES
    memory,     \* Manager.cfg, or Down
    disk,       \* the configuration file, or Absent
    lock,       \* the request that holds Manager.mu for writing
    request,    \* per request: where it is, what rules its form shows, what it saves
    crashes,
    overlapped  \* history: the requests during which another one was under way

vars == <<memory, disk, lock, request, crashes, overlapped>>

-----------------------------------------------------------------------------

\* config.Default.
Default ==
    [admin |-> Nobody, private |-> FALSE, password |-> FALSE, api |-> FALSE, token |-> FALSE,
     rules |-> {}]

\* config.Load.
Loaded(file) == IF file = Absent THEN Default ELSE file

\* Variant: saveConfig does not look at the access password.
SavableWithoutPassword(config) ==
    /\ config.admin # Nobody
    /\ config.api => config.token

\* The checks of saveConfig, and of Config.Validate behind it.
Savable(config) ==
    /\ config.private => config.password
    /\ config.admin # Nobody
    /\ config.api => config.token

\* What the handler refuses before it changes anything.
Applicable(change, config) ==
    CASE change.kind = "setup" -> config.admin = Nobody
      [] change.kind = "create" -> change.rule \notin config.rules
      [] change.kind = "delete" -> change.rule \in config.rules
      [] change.kind = "form" -> TRUE

\* The configuration request r saves, from the one its handler loaded and,
\* for the settings form, the rules its page was loaded with.
Changed(r, config, rules) ==
    LET change == Change[r]
    IN  CASE change.kind = "setup" ->
               [config EXCEPT !.admin = r, !.password = @ \/ change.password]
          [] change.kind = "create" -> [config EXCEPT !.rules = @ \union {change.rule}]
          [] change.kind = "delete" -> [config EXCEPT !.rules = @ \ {change.rule}]
          [] change.kind = "form" ->
               [config EXCEPT !.private = change.private,
                              !.password = @ \/ change.password,
                              !.api = change.api,
                              !.token = CASE change.token = "clear" -> FALSE
                                          [] change.token = "set" -> TRUE
                                          [] OTHER -> @,
                              !.rules = rules]

-----------------------------------------------------------------------------

Init ==
    /\ memory = Default
    /\ disk = Absent
    /\ lock = Nobody
    /\ request = [r \in Requests |-> [pc |-> "new", rules |-> {}, config |-> Default]]
    /\ crashes = 0
    /\ overlapped = {}

UnderWay(r) == request[r].pc \in {"shown", "lock", "write", "swap"}

\* Every request that is under way together with another one has overlapped.
Observe ==
    overlapped' = overlapped \union
        {r \in Requests : UnderWay(r)' /\ \E q \in Requests \ {r} : UnderWay(q)'}

\* Get waits for a save that holds the lock, and needs a process.
CanGet == memory # Down /\ lock = Nobody

\* Only setup is open to those who have not logged in.
Admitted(r) == memory.admin # Nobody \/ Change[r].kind = "setup"

\* The settings page is shown: GET /api/admin/config.
ShowForm(r) ==
    /\ CanGet /\ request[r].pc = "new" /\ Change[r].kind = "form" /\ Admitted(r)
    /\ request' = [request EXCEPT ![r].pc = "shown", ![r].rules = memory.rules]
    /\ UNCHANGED <<memory, disk, lock, crashes>>

\* The handler loads the configuration, changes its copy and has it checked.
Load(r) ==
    /\ CanGet /\ Admitted(r)
    /\ request[r].pc = IF Change[r].kind = "form" THEN "shown" ELSE "new"
    /\ LET config == Changed(r, memory, request[r].rules)
       IN  request' = [request EXCEPT
             ![r].pc = IF Applicable(Change[r], memory) /\ Savable(config) THEN "lock" ELSE "rejected",
             ![r].config = config]
    /\ UNCHANGED <<memory, disk, lock, crashes>>

\* Variant: the copy in memory is swapped before the file is written.
SaveMemoryFirst(r) ==
    /\ request[r].pc = "lock" /\ lock = Nobody /\ memory # Down
    /\ lock' = r
    /\ memory' = request[r].config
    /\ request' = [request EXCEPT ![r].pc = "write"]
    /\ UNCHANGED <<disk, crashes>>

\* Manager.Save takes the lock.
Lock(r) ==
    /\ request[r].pc = "lock" /\ lock = Nobody /\ memory # Down
    /\ lock' = r
    /\ request' = [request EXCEPT ![r].pc = "write"]
    /\ UNCHANGED <<memory, disk, crashes>>

\* Variant: the answer is sent although the file could not be written.
WriteFileIgnoringErrors(r) ==
    /\ request[r].pc = "write" /\ lock = r
    /\ request' = [request EXCEPT ![r].pc = "swap"]
    /\ (disk' = request[r].config \/ UNCHANGED disk)
    /\ UNCHANGED <<memory, lock, crashes>>

\* The new file is renamed over the old one, or it cannot be written and the
\* save returns the error.
WriteFile(r) ==
    /\ request[r].pc = "write" /\ lock = r
    /\ \/ /\ disk' = request[r].config
          /\ request' = [request EXCEPT ![r].pc = "swap"]
          /\ UNCHANGED lock
       \/ /\ request' = [request EXCEPT ![r].pc = "rejected"]
          /\ lock' = Nobody
          /\ UNCHANGED disk
    /\ UNCHANGED <<memory, crashes>>

\* The copy in memory follows, and the request is answered.
Swap(r) ==
    /\ request[r].pc = "swap" /\ lock = r
    /\ memory' = request[r].config
    /\ lock' = Nobody
    /\ request' = [request EXCEPT ![r].pc = "done"]
    /\ UNCHANGED <<disk, crashes>>

\* The process is killed; a form stays on the screen, a handler is gone.
Crash ==
    /\ memory # Down /\ crashes < MaxCrashes
    /\ crashes' = crashes + 1
    /\ memory' = Down
    /\ lock' = Nobody
    /\ request' = [r \in Requests |->
         IF request[r].pc \in {"lock", "write", "swap"}
         THEN [request[r] EXCEPT !.pc = "lost"] ELSE request[r]]
    /\ UNCHANGED disk

Restart ==
    /\ memory = Down
    /\ memory' = Loaded(disk)
    /\ UNCHANGED <<disk, lock, request, crashes>>

Step ==
    \/ \E r \in Requests : ShowForm(r) \/ Load(r) \/ Lock(r) \/ WriteFile(r) \/ Swap(r)
    \/ Crash
    \/ Restart

Next == Step /\ Observe

Spec == Init /\ [][Next]_vars

-----------------------------------------------------------------------------
(* Properties.                                                             *)

\* Every variable keeps its type.
TypeOK ==
    /\ memory \in Config \union {Down}
    /\ disk \in Config \union {Absent}
    /\ lock \in Requests \union {Nobody}
    /\ request \in [Requests ->
         [pc : {"new", "shown", "lock", "write", "swap", "done", "rejected", "lost"},
          rules : SUBSET Rules, config : Config]]
    /\ crashes \in 0..MaxCrashes
    /\ overlapped \subseteq Requests

\* Every variable keeps its type, and a file the program has written can be
\* loaded and served whatever happened since: it has an administrator, a
\* private site has a password and an open API a token, so nobody is locked out
\* by a restart (api.go:801-810).  Where files are renamed, that is: an overwrite on
\* Windows that breaks off leaves a file that cannot be loaded at all.
FileServable ==
    /\ TypeOK
    /\ disk # Absent => /\ disk.admin # Nobody
                        /\ disk.private => disk.password
                        /\ disk.api => disk.token

\* An administrator once set up is there for good, across saves, concurrent
\* setups and crashes: the setup page does not come back (config.go:194-215,
\* where the file is replaced by a rename).
SetUpForGood ==
    [](memory # Down /\ memory.admin # Nobody => [](memory # Down => memory.admin # Nobody))

\* Somebody else asks for the contrary of what r asks for.
Contrary(r) ==
    /\ Change[r].kind \in {"create", "delete"}
    /\ \E q \in Requests \ {r} :
          /\ Change[q].kind \in {"create", "delete"} /\ Change[q].kind # Change[r].kind
          /\ Change[q].rule = Change[r].rule
          /\ request[q].pc # "new"

\* What r has been told is saved is still so.
AckedStays(r) ==
    (request[r].pc = "done" /\ memory # Down /\ ~Contrary(r)) =>
        CASE Change[r].kind = "create" -> Change[r].rule \in memory.rules
          [] Change[r].kind = "delete" -> Change[r].rule \notin memory.rules
          [] OTHER -> memory.admin # Nobody

\* The rules a request has been told are saved (or are gone) stay so as long
\* as nobody asks for the contrary, across crashes and restarts: no request
\* that was under way alone is ever undone by another one
\* (httpapi/api.go:708-737, config/config.go:194-215).
AckedStaysUnlessOverlapped == \A r \in Requests \ overlapped : AckedStays(r)

\* What the browser tells the administrator when a rule has been created: it
\* is saved.
SavedRulesStay == \A r \in Requests : Change[r].kind = "create" => AckedStays(r)

\* ConfigFile, with the file for the value and for what readers are shown the
\* copy in memory or, while a save keeps them waiting, what they will get.
File == INSTANCE ConfigFile WITH
    Configs <- Config,
    value <- Loaded(disk),
    shown <- IF memory = Down THEN Down
             ELSE IF lock = Nobody THEN memory ELSE Loaded(disk)

\* The two copies of the configuration act as one: whoever can read it while
\* the process runs gets the one that a restart would load (config.go:194-215),
\* where the file is replaced by a rename, as everywhere but on Windows.
ImplementsConfigFile == File!Spec

=============================================================================
