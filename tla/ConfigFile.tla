------------------------------ MODULE ConfigFile ------------------------------
(***************************************************************************)
(* What the configuration manager promises: one configuration that is      *)
(* replaced as a whole, that whoever reads it while the process runs gets  *)
(* to see, and that outlives the process.  The promise is kept where a     *)
(* file can be replaced by a rename, which is not so on Windows.           *)
(***************************************************************************)

CONSTANTS
    Configs,    \* the configurations
    Default     \* the one the program comes with

VARIABLES
    value,      \* the configuration in force
    shown       \* what readers of a running process get; Down when it is down

CONSTANT Down

fileVars == <<value, shown>>

Init == value = Default /\ shown = Default

\* A save takes effect for the file and for the readers at once.
Save(config) == value' = config /\ shown' = config

\* The process dies, and the configuration waits for the next one.
Crash == shown' = Down /\ UNCHANGED value

Restart == shown = Down /\ shown' = value /\ UNCHANGED value

Next ==
    \/ \E config \in Configs : shown # Down /\ Save(config)
    \/ Crash
    \/ Restart

Spec == Init /\ [][Next]_fileVars

=============================================================================
