CONSTANTS
    Kinds <- MCKinds
    Ids <- MCIds
    KindOf <- MCKindOf
    Blank <- MCBlank
    Template = "template"
    Typed = {"template"}
    Valid = {"old", "template"}
    Settings = {"s", "t"}
    InitialConfig <- MCInitialConfig
    Slots = 2
    MaxClicks = 3
    MaxEvents = 1
    None = None
SPECIFICATION FairSpec
INVARIANTS
    ShownIsSaved
    DialogTellsTruth
PROPERTIES
    OnlyAskedChanges
    DialogEnds
CHECK_DEADLOCK FALSE
