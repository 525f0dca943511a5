CONSTANTS
    m1 = m1
    none = none
    NoPattern = none
    NoMessage = none
    Messages = {m1}
    Mailboxes <- OneMailbox
    To <- ToOne
    Patterns <- MCPatterns
    Hits <- MCHits
    Projects = {"p"}
    Hooks = {"h"}
    InitialConfig <- HookConfig
    Requests <- MCRequests
    Change <- MCChange
    Watchers <- OneWatcher
    Watched <- MCWatched
    Capacity = 1
SPECIFICATION FairSpec
CHECK_DEADLOCK FALSE
PROPERTIES TellingFindsCodes DeliveryCompletes AgedCodesGo
INVARIANTS CodesSettle
