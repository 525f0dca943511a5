CONSTANTS
    Sites <- MCSites
    DefaultDomain = "localhost"
    Texts <- MCTexts
    Norm <- MCNorm
    RandomNames = {"r"}
    Code = Code
    Slots = 2
    MaxClicks = 3
    MaxChanges = 1
    None = None
SPECIFICATION Spec
INVARIANTS
    GateAgrees
    DomainIsOffered
    CopiedWhereSecure
    TesterForAdminsMails
CHECK_DEADLOCK FALSE
