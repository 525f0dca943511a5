------------------------------ MODULE MCDelivery ------------------------------
(* Instances of Delivery for TLC.  One mail for one mailbox; two patterns that *)
(* find a code in it and one that never finds any; one code project, one       *)
(* webhook rule and one watcher.                                               *)
EXTENDS Delivery

CONSTANTS m1, none

OneMailbox == {"x"}
ToOne == [m \in Messages |-> OneMailbox]
MCPatterns == {"digits", "link", "never"}
MCHits == {"digits", "link"} \X Messages \X Mailboxes

\* A project and a webhook are configured from the start.
HookConfig ==
    [projects |-> [p \in Projects |-> "digits"], webhooks |-> [h \in Hooks |-> "digits"]]

\* One request edits the project and rebuilds; the other saves the settings form
\* as it was loaded, and so saves and rebuilds the project as it was before.
MCRequests == {"update", "form"}
MCChange ==
    [r \in MCRequests |->
        IF r = "update"
        THEN [kind |-> "update", part |-> "projects", id |-> "p", pattern |-> "link"]
        ELSE [kind |-> "config", projects |-> InitialConfig.projects,
              webhooks |-> InitialConfig.webhooks]]

\* The settings form alone.
OneForm == {"form"}
FormChange == [r \in OneForm |-> MCChange[r]]

OneWatcher == {"w"}
MCWatched == [w \in OneWatcher |-> "x"]

=============================================================================
