CONSTANTS
    Tokens <- MCTokens
    KindOf <- MCKindOf
    NoToken = none
    Requests <- MCRequests
    Guard <- MCGuard
    Presents <- MCPresents
SPECIFICATION Spec
CHECK_DEADLOCK FALSE
INVARIANTS NoSpuriousRefusal RemovedForCause
PROPERTIES GuardsHold
