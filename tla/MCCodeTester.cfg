CONSTANTS
    Messages = {m1, m2}
    Projects = {p1}
    PatternOf <- MCPatternOf
    Patterns <- MCPatterns
    Compiling <- MCCompiling
    Finds <- MCFinds
    Sources <- MCSources
    Texts <- MCTexts
    AISettings <- MCSettings
    Nothing = none
SPECIFICATION TesterFairSpec
CHECK_DEADLOCK FALSE
INVARIANTS AppliedIsAccepted ShownBelongsHere
PROPERTIES RequestsEnd
