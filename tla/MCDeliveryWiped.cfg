CONSTANTS
    m1 = m1
    none = none
    NoPattern = none
    NoMessage = none
    Messages = {m1}
    Mailboxes <- OneMailbox
    To <- ToOne
    Patterns <- MCPatterns
    Hits <- MCHits
    Projects = {"p"}
    Hooks = {"h"}
    InitialConfig <- HookConfig
    Requests <- OneForm
    Change <- FormChange
    Watchers <- OneWatcher
    Watched <- MCWatched
    Capacity = 1
SPECIFICATION Spec
CHECK_DEADLOCK FALSE
PROPERTIES PublishedCodesAreThere
