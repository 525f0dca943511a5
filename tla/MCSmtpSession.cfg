CONSTANTS
    Connections = {c1, c2}
    Locals <- MCLocals
    Patterned <- MCLocals
    DomainNames <- MCDomainNames
    Canonical <- MCCanonical
    Settings <- MCSettings
    Default <- MCDefault
    Nothing = nothing
    Paths <- MCPaths
    NormalizePath <- MCNormalizePath
    Malformed = malformed
    MaxRecipients = 2
    Limit = 4
    MaxEvents = 8
SPECIFICATION FairSpec
CHECK_DEADLOCK FALSE
INVARIANTS MailsMatchTransactions LogTellsTheStory
PROPERTIES HandedOutCanReceive TransfersEnd
